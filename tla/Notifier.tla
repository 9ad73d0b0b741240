------------------------------ MODULE Notifier -------------------------------
(***************************************************************************)
(* What the watcher promises, without folders, descriptors or sweeps: the  *)
(* digest of a version is stored before a script is run, at most one run   *)
(* is owed at any time, and a run that begins sees the file as it is then. *)
(* So whatever has been stored has been seen by a script, is owed one, or  *)
(* is on record as lost.                                                   *)
(***************************************************************************)
EXTENDS Naturals

CONSTANT Files

VARIABLES
  ver,      \* ver[f]: the current version of f
  recVer,   \* recVer[f]: the newest version whose digest was stored
  runVer,   \* runVer[f]: the version at the start of the last run for f
  lost,     \* lost[f]: the last run for f did not start, or failed
  owed      \* the file whose run is due, if any

vars == <<ver, recVer, runVer, lost, owed>>

Init ==
  /\ ver = [f \in Files |-> 1]
  /\ recVer = [f \in Files |-> 0]
  /\ runVer = [f \in Files |-> 0]
  /\ lost = [f \in Files |-> FALSE]
  /\ owed = {}

Change(f) ==
  /\ ver' = [ver EXCEPT ![f] = @ + 1]
  /\ UNCHANGED <<recVer, runVer, lost, owed>>

\* The digest of some version is stored, never an older one than before, and a
\* run becomes due.
Store(f) ==
  /\ owed = {}
  /\ \E v \in recVer[f]..ver[f] : recVer' = [recVer EXCEPT ![f] = v]
  /\ owed' = {f}
  /\ UNCHANGED <<ver, runVer, lost>>

\* A run becomes due although no digest could be stored.
Alarm(f) ==
  /\ owed = {}
  /\ owed' = {f}
  /\ UNCHANGED <<ver, recVer, runVer, lost>>

Run(f) ==
  /\ owed = {f}
  /\ owed' = {}
  /\ runVer' = [runVer EXCEPT ![f] = ver[f]]
  /\ lost' = [lost EXCEPT ![f] = FALSE]
  /\ UNCHANGED <<ver, recVer>>

\* The run that is due is dropped.
Drop(f) ==
  /\ owed = {f}
  /\ owed' = {}
  /\ lost' = [lost EXCEPT ![f] = TRUE]
  /\ UNCHANGED <<ver, recVer, runVer>>

\* A run that was started ends in failure.
Fail(f) ==
  /\ owed = {}
  /\ lost' = [lost EXCEPT ![f] = TRUE]
  /\ UNCHANGED <<ver, recVer, runVer, owed>>

Next ==
  \E f \in Files :
    Change(f) \/ Store(f) \/ Alarm(f) \/ Run(f) \/ Drop(f) \/ Fail(f)

Spec == Init /\ [][Next]_vars
=============================================================================
