----------------------------- MODULE TwoWatchers -----------------------------
(***************************************************************************)
(* Two watchers, or one that was restarted while its predecessor lives on, *)
(* over the same files: two processes of FileWatch that share the files    *)
(* and the sidecars.  Each has its own script, descriptors and place in    *)
(* the sweep: the first has the variables of FileWatch, the other its own. *)
(* Nothing in filewatch.c locks a sidecar.                                 *)
(***************************************************************************)
EXTENDS FileWatch

VARIABLES
  pcB, entryB, pendingB, returnedB, fileB, oldB, newB, heldB, leakedB, snapB,
  runVerB, runsB, lostB

B == INSTANCE FileWatch WITH
       pc <- pcB, entry <- entryB, pending <- pendingB, returned <- returnedB,
       file <- fileB, old <- oldB, new <- newB, held <- heldB, leaked <- leakedB,
       snap <- snapB, runVer <- runVerB, runs <- runsB, lost <- lostB

ownA == <<pc, entry, pending, returned, file, old, new, held, leaked, snap, runVer, runs, lost>>
ownB == <<pcB, entryB, pendingB, returnedB, fileB, oldB, newB, heldB, leakedB,
          snapB, runVerB, runsB, lostB>>
shared == <<content, ver, opened, sidecar, recVer, mishaps>>
bothVars == <<shared, ownA, ownB>>

TwoInit == Init /\ B!Init

\* One watcher, or the script it waits for, takes a step, or it is killed and
\* started again.
StepA == (Daemon \/ Script \/ Restart) /\ UNCHANGED ownB
StepB == (B!Daemon \/ B!Script \/ B!Restart) /\ UNCHANGED ownA

\* A write meets both watchers: each may be reading the file, and each counts its
\* runs from it.
Write(f, c) == WriteFile(f, c) /\ B!WriteFile(f, c)
Replace(f, c) == ReplaceFile(f, c) /\ B!ReplaceFile(f, c)

OpenOrClose(f) ==
  \/ OpenFile(f) /\ B!OpenFile(f)
  \/ CloseFile(f) /\ B!CloseFile(f)

TwoNext ==
  \/ StepA \/ StepB
  \/ \E f \in Files :
       \/ OpenOrClose(f)
       \/ \E c \in Contents \cup {Absent} : Write(f, c) \/ Replace(f, c)

TwoSpec == TwoInit /\ [][TwoNext]_bothVars

TwoFairSpec ==
  /\ TwoSpec
  /\ WF_bothVars(Daemon /\ UNCHANGED ownB) /\ WF_bothVars(Script /\ UNCHANGED ownB)
  /\ WF_bothVars(B!Daemon /\ UNCHANGED ownA) /\ WF_bothVars(B!Script /\ UNCHANGED ownA)
-----------------------------------------------------------------------------
(* Properties.                                                             *)

\* A stored digest silences both watchers, so it must not be newer than what one
\* script or the other has been started on, is about to be, or has failed on.
OneOfThemSaw ==
  \A f \in Files :
    recVer[f] > runVer[f] /\ recVer[f] > runVerB[f] =>
      \/ lost[f] \/ lostB[f]
      \/ pc = "script" /\ file = f
      \/ pcB = "script" /\ fileB = f

\* Two watchers can keep each other running their scripts for ever, for each may
\* meet the sidecar between the other's fopen and fclose.  That is all: once the
\* other stores no more digests, a watcher falls silent about files that are left
\* alone.
SilentUnlessProvoked ==
  \A f \in Files \ ReadOnly :
    /\ <>[](pcB \notin {"store", "flush"}) => <>[](~ (pc = "running" /\ file = f))
    /\ <>[](pc \notin {"store", "flush"}) => <>[](~ (pcB = "running" /\ fileB = f))
=============================================================================
