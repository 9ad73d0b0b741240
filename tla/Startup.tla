------------------------------- MODULE Startup -------------------------------
(***************************************************************************)
(* main() of filewatch.c: the arguments and the configuration, the fork    *)
(* and the rest of daemonisation, and the loop that looks up each folder's *)
(* strings and scans it.  A scan is seen from here as the descriptors it   *)
(* takes and what is written to descriptors 1 and 2 meanwhile; what it     *)
(* does to the files is in FileWatch.                                      *)
(***************************************************************************)
EXTENDS Integers, Sequences

CONSTANTS
  Configs,    \* the configurations main may be started with
  Missing,    \* a string the configuration does not have
  Junk,       \* what an uninitialised pointer points to
  MaxFd,      \* bound: descriptors are 0..MaxFd
  MaxSweeps   \* bound: sweeps counted

Fields == {"path", "file", "script"}

\* daemon is daemon_mode, readable what config_read_file returns, and folders
\* the list, <<>> where there is none.
ConfigsAssumption ==
  /\ \A c \in Configs :
       /\ c.readable \in BOOLEAN /\ c.daemon \in 0..2
       /\ c.folders \in Seq([Fields -> STRING])
  /\ MaxFd \in Nat /\ MaxFd >= 6 /\ MaxSweeps \in Nat \ {0}

VARIABLES
  pc, config,
  cwd,        \* "start" or "root"
  session,    \* "inherited" or "own"
  parent,     \* "shell" or "gone"
  fds,        \* fds[n]: what descriptor n is
  i,          \* the folder
  args,       \* path, file and script
  sweeps,     \* sweeps completed
  written     \* what output has been written to

process == <<config, cwd, session, parent>>
vars == <<pc, process, fds, i, args, sweeps, written>>

Lowest(f) == CHOOSE n \in 0..MaxFd :
               f[n] = "free" /\ \A m \in 0..(n - 1) : f[m] # "free"

FreeIn(f) == {n \in 0..MaxFd : f[n] = "free"}

\* f with obj in the lowest free descriptor.
With(f, obj) == [f EXCEPT ![Lowest(f)] = obj]

Outputs(n) == written' = written \cup {fds[n]}

\* locallog writes to syslog, whose socket the first call opens, and prints only
\* where daemon_mode is 0.
LogsTo(f) == IF config.daemon = 0 THEN {f[1]} ELSE {}

Init ==
  /\ pc = "start" /\ config \in Configs
  /\ cwd = "start" /\ session = "inherited" /\ parent = "shell"
  /\ fds = [n \in 0..MaxFd |-> IF n < 3 THEN "terminal" ELSE "free"]
  /\ i = 1 /\ args = [x \in Fields |-> Junk]
  /\ sweeps = 0 /\ written = {}

-----------------------------------------------------------------------------
(* Up to the loop.                                                         *)

ReadConfig ==
  /\ pc = "start"
  /\ IF config.readable
       THEN /\ pc' = IF config.daemon = 1 THEN "fork" ELSE "sweep"
            /\ fds' = With(fds, "socket")
            /\ written' = written \cup LogsTo(fds)
       ELSE pc' = "exited" /\ Outputs(2) /\ UNCHANGED fds
  /\ UNCHANGED <<process, i, args, sweeps>>

\* The child goes on; the parent exits.
Fork ==
  /\ pc = "fork"
  /\ pc' = "setsid" /\ parent' = "gone"
  /\ UNCHANGED <<config, cwd, session, fds, i, args, sweeps, written>>

\* fork, setsid or chdir fails: exit.
DaemonFails ==
  /\ pc \in {"fork", "setsid", "chdir"}
  /\ pc' = "exited"
  /\ UNCHANGED <<process, fds, i, args, sweeps, written>>

SetSid ==
  /\ pc = "setsid"
  /\ pc' = "chdir" /\ session' = "own"
  /\ UNCHANGED <<config, cwd, parent, fds, i, args, sweeps, written>>

ChDir ==
  /\ pc = "chdir"
  /\ pc' = "close" /\ cwd' = "root"
  /\ UNCHANGED <<config, session, parent, fds, i, args, sweeps, written>>

CloseStandard ==
  /\ pc = "close"
  /\ pc' = "sweep" /\ fds' = [n \in 0..MaxFd |-> IF n < 3 THEN "free" ELSE fds[n]]
  /\ UNCHANGED <<process, i, args, sweeps, written>>

-----------------------------------------------------------------------------
(* The loop.                                                               *)

BeginSweep ==
  /\ pc = "sweep"
  /\ IF config.folders = <<>>
       THEN pc' = "endsweep"
       ELSE pc' = "lookup"
  /\ i' = 1
  /\ UNCHANGED <<process, fds, args, sweeps, written>>

\* Mutant: path, file and script are set to nothing first.
LookedUpAfresh(entry) ==
  [x \in Fields |-> IF entry[x] = Missing THEN Junk ELSE entry[x]]

\* A lookup that fails leaves its variable alone.
LookedUp(entry) ==
  [x \in Fields |-> IF entry[x] = Missing THEN args[x] ELSE entry[x]]

LookUp ==
  /\ pc = "lookup"
  /\ LET entry == config.folders[i]
     IN  /\ args' = LookedUp(entry)
         /\ IF \E x \in Fields : entry[x] = Missing THEN Outputs(1)
            ELSE UNCHANGED written
  /\ pc' = "opendir"
  /\ UNCHANGED <<process, fds, i, sweeps>>

OpenDir ==
  /\ pc = "opendir"
  /\ args["path"] # Junk /\ FreeIn(fds) # {}
  /\ pc' = "scan" /\ fds' = With(fds, "dir")
  /\ UNCHANGED <<process, i, args, sweeps, written>>

\* Where the next folder, or the end of the sweep, is.
NextFolder == IF i < Len(config.folders) THEN pc' = "lookup" /\ i' = i + 1
         ELSE pc' = "endsweep" /\ i' = 1

\* perror.
OpenDirFails ==
  /\ pc = "opendir"
  /\ Outputs(2)
  /\ NextFolder
  /\ UNCHANGED <<process, fds, args, sweeps>>

\* An uninitialised pointer is used as a string.
UseJunk ==
  /\ pc \in {"opendir", "scan"}
  /\ \E x \in Fields : args[x] = Junk
  /\ pc' = "crashed"
  /\ UNCHANGED <<process, fds, i, args, sweeps, written>>

\* checkOpen finds a line: its pipe stays open at the lowest free descriptor.
ScanBusy ==
  /\ pc = "scan" /\ args["file"] # Junk
  /\ \E m, n \in FreeIn(fds) : m # n
  /\ fds' = With(fds, "pipe")
  /\ written' = written \cup LogsTo(fds)
  /\ UNCHANGED <<pc, process, i, args, sweeps>>

\* A file is handled: genMD5 logs, opens the sidecar, closes it, and doScript
\* logs.
OpenSidecar ==
  /\ pc = "scan" /\ args["file"] # Junk /\ FreeIn(fds) # {}
  /\ pc' = "store" /\ fds' = With(fds, "file")
  /\ written' = written \cup LogsTo(fds)
  /\ UNCHANGED <<process, i, args, sweeps>>

Closed(obj) == [n \in 0..MaxFd |-> IF fds[n] = obj THEN "free" ELSE fds[n]]

\* Mutant: no fclose.
CloseSidecarForgotten ==
  /\ pc = "store"
  /\ pc' = "scan" /\ fds' = fds
  /\ written' = written \cup LogsTo(fds')
  /\ UNCHANGED <<process, i, args, sweeps>>

CloseSidecar ==
  /\ pc = "store"
  /\ pc' = "scan" /\ fds' = Closed("file")
  /\ written' = written \cup LogsTo(fds')
  /\ UNCHANGED <<process, i, args, sweeps>>

CloseDir ==
  /\ pc = "scan"
  /\ fds' = Closed("dir")
  /\ NextFolder
  /\ UNCHANGED <<process, args, sweeps, written>>

\* putchar('\n'), or the message that there is no configuration; then sleep.
EndSweep ==
  /\ pc = "endsweep"
  /\ Outputs(1)
  /\ pc' = "sweep"
  /\ sweeps' = IF sweeps < MaxSweeps THEN sweeps + 1 ELSE sweeps
  /\ UNCHANGED <<process, fds, i, args>>

Daemonise == ReadConfig \/ Fork \/ DaemonFails \/ SetSid \/ ChDir \/ CloseStandard

Sweep ==
  \/ BeginSweep \/ LookUp \/ OpenDir \/ OpenDirFails \/ UseJunk
  \/ ScanBusy \/ OpenSidecar \/ CloseSidecar \/ CloseDir \/ EndSweep

Next == Daemonise \/ Sweep

Spec == Init /\ [][Next]_vars
-----------------------------------------------------------------------------
(* Properties.                                                             *)

\* Descriptors 0 to 2 of a daemon are whatever it opens next, yet what it prints
\* (filewatch.c:170-176, perror at 368) never lands in a directory stream, a
\* sidecar or the log's socket: nothing is printed while one of them has a
\* standard number, and each is closed before the next output.
OutputStaysOut == written \cap {"dir", "file", "socket"} = {}

\* The folders looked up before folder k, the last one first: those of this
\* sweep, then those of the sweep before it.
Before(k) == [n \in 1..(IF sweeps = 0 THEN k - 1 ELSE Len(config.folders)) |->
                ((k - n - 1) % Len(config.folders)) + 1]

\* String x of the first folder of b that has it.
Nearest(b, x) ==
  LET has == {n \in DOMAIN b : config.folders[b[n]][x] # Missing}
  IN  IF has = {} THEN Junk
      ELSE config.folders[b[CHOOSE n \in has : \A m \in has : n <= m]][x]

\* A folder that lacks a string is scanned with the one of the nearest folder
\* looked up before it that has one, be it the last folder of the sweep before,
\* and with an uninitialised one only if there was none (filewatch.c:157-169).
StaleIsPredecessor ==
  pc \in {"opendir", "scan", "store"} =>
    \A x \in Fields :
      args[x] = IF config.folders[i][x] # Missing THEN config.folders[i][x]
                ELSE Nearest(Before(i), x)
=============================================================================
