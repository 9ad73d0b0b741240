--------------------------- MODULE FileWatchProofs ---------------------------
(***************************************************************************)
(* Theorems about FileWatch and, at the end, about TwoWatchers, for every  *)
(* choice of their constants.                                              *)
(***************************************************************************)
EXTENDS TwoWatchers, TLAPS

USE DEF MaxRuns

(***************************************************************************)
(* Type correctness.                                                       *)
(***************************************************************************)

LEMMA InitTypeOK == Init => TypeOK
  BY FilesAssumption, ContentsAssumption, NumbersAssumption
  DEF Init, TypeOK, Labels, AtFile, Folders

\* The steps that only move the process from one call to the next.
LEMMA StreamTypeOK ==
  ASSUME TypeOK,
         \/ WakeUp \/ OpenDir \/ OpenDirFails \/ CloseDir
         \/ \E f \in Files : ReadDir(f)
  PROVE  TypeOK'
<1> USE FilesAssumption, NumbersAssumption
    DEF TypeOK, Labels, AtFile, Folders, world, buffers, history, dirp
<1>1. CASE WakeUp
  BY <1>1 DEF WakeUp
<1>2. CASE OpenDir
  BY <1>2 DEF OpenDir, Present
<1>3. CASE OpenDirFails
  BY <1>3 DEF OpenDirFails, NextFolder
<1>4. CASE CloseDir
  BY <1>4 DEF CloseDir, NextFolder
<1>5. ASSUME NEW f \in Files, ReadDir(f) PROVE TypeOK'
  BY <1>5 DEF ReadDir
<1> QED
  BY <1>1, <1>2, <1>3, <1>4, <1>5

LEMMA CompareTypeOK ==
  ASSUME TypeOK,
         \/ ReadOldDigest \/ FillOld \/ HashFile \/ HashFileFails \/ Compare
         \/ CheckOpenFails \/ CheckOpenBusy \/ CheckOpenIdle
  PROVE  TypeOK'
<1> USE FilesAssumption, ContentsAssumption, NumbersAssumption
    DEF TypeOK, Labels, AtFile, world, buffers, history, dirp, Continue
<1>1. CASE ReadOldDigest
  BY <1>1 DEF ReadOldDigest
<1>8. CASE FillOld
  BY <1>8 DEF FillOld, OldDigests
<1>2. CASE HashFile
  BY <1>2 DEF HashFile, BeginRead, Present
<1>3. CASE HashFileFails
  BY <1>3 DEF HashFileFails
<1>4. CASE Compare
  BY <1>4 DEF Compare
<1>5. CASE CheckOpenFails
  BY <1>5 DEF CheckOpenFails
<1>6. CASE CheckOpenBusy
  BY <1>6 DEF CheckOpenBusy, CanOpen
<1>7. CASE CheckOpenIdle
  BY <1>7 DEF CheckOpenIdle
<1> QED
  BY <1>1, <1>2, <1>3, <1>4, <1>5, <1>6, <1>7, <1>8

LEMMA StoreTypeOK ==
  ASSUME TypeOK,
         \/ GenMD5 \/ GenMD5Fails \/ Rehashed
         \/ TruncateSidecar \/ TruncateFails \/ FlushSidecar \/ FlushFails
  PROVE  TypeOK'
<1> USE FilesAssumption, ContentsAssumption, NumbersAssumption
    DEF TypeOK, Labels, AtFile, world, buffers, history, dirp
<1>1. CASE GenMD5
  BY <1>1 DEF GenMD5, BeginRead, Present
<1>2. CASE GenMD5Fails
  BY <1>2 DEF GenMD5Fails
<1>3. CASE Rehashed
  BY <1>3 DEF Rehashed
<1>4. CASE TruncateSidecar
  BY <1>4 DEF TruncateSidecar
<1>5. CASE TruncateFails
  BY <1>5 DEF TruncateFails
<1>6. CASE FlushSidecar
  <2>1. file \in Files /\ new \in Digests
    BY <1>6 DEF FlushSidecar
  <2>2. /\ sidecar' \in [Files -> Digests \cup {Empty, NoSidecar}]
        /\ recVer' \in [Files -> 0..MaxVer]
    <3>1. CASE sidecar[file] = NoSidecar
      BY <1>6, <3>1 DEF FlushSidecar, WriteOut
    <3>2. CASE sidecar[file] # NoSidecar
      BY <1>6, <2>1, <3>2 DEF FlushSidecar, WriteOut
    <3> QED
      BY <3>1, <3>2
  <2> QED
    BY <1>6, <2>2 DEF FlushSidecar
<1>7. CASE FlushFails
  BY <1>7 DEF FlushFails
<1> QED
  BY <1>1, <1>2, <1>3, <1>4, <1>5, <1>6, <1>7

LEMMA ScriptTypeOK ==
  ASSUME TypeOK,
         ScriptStart \/ ScriptNotStarted \/ ScriptEnds \/ ScriptExitsNonZero
  PROVE  TypeOK'
<1> USE FilesAssumption, ContentsAssumption, NumbersAssumption
    DEF TypeOK, Labels, AtFile, world, buffers, history, dirp, Continue
<1>1. CASE ScriptStart
  BY <1>1 DEF ScriptStart
<1>2. CASE ScriptNotStarted
  BY <1>2 DEF ScriptNotStarted
<1>3. CASE ScriptEnds
  BY <1>3 DEF ScriptEnds
<1>4. CASE ScriptExitsNonZero
  BY <1>4 DEF ScriptExitsNonZero
<1> QED
  BY <1>1, <1>2, <1>3, <1>4

LEMMA EnvironmentTypeOK ==
  ASSUME TypeOK, Environment
  PROVE  TypeOK'
<1> USE FilesAssumption, ContentsAssumption, NumbersAssumption
    DEF TypeOK, Labels, AtFile, world, buffers, history, dirp
<1>1. CASE Restart
  BY <1>1 DEF Restart, Folders
<1>2. ASSUME NEW f \in Files, OpenFile(f) PROVE TypeOK'
  BY <1>2 DEF OpenFile
<1>3. ASSUME NEW f \in Files, CloseFile(f) PROVE TypeOK'
  BY <1>3 DEF CloseFile
<1>4. ASSUME NEW f \in Files, RemoveSidecar(f) PROVE TypeOK'
  BY <1>4 DEF RemoveSidecar
<1>5. ASSUME NEW f \in Files, NEW c \in Contents \cup {Absent}, WriteFile(f, c)
      PROVE  TypeOK'
  BY <1>5 DEF WriteFile, NewVersion
<1>6. ASSUME NEW f \in Files, NEW c \in Contents \cup {Absent},
             ReplaceFile(f, c)
      PROVE  TypeOK'
  BY <1>6 DEF ReplaceFile, NewVersion
<1> QED
  BY <1>1, <1>2, <1>3, <1>4, <1>5, <1>6 DEF Environment

LEMMA NextTypeOK == TypeOK /\ [Next]_vars => TypeOK'
<1> SUFFICES ASSUME TypeOK, [Next]_vars PROVE TypeOK'
  OBVIOUS
<1>1. CASE Daemon \/ Script
  <2>1. CASE ReadError \/ UNCHANGED vars
    BY <2>1 DEF ReadError, vars, TypeOK, world, dirp, buffers, history
  <2> QED
    BY <1>1, <2>1, StreamTypeOK, CompareTypeOK, StoreTypeOK, ScriptTypeOK
    DEF Daemon, Script
<1>2. CASE Environment
  BY <1>2, EnvironmentTypeOK
<1>3. CASE UNCHANGED vars
  BY <1>3 DEF vars, TypeOK, world, dirp, buffers, history
<1> QED
  BY <1>1, <1>2, <1>3 DEF Next

\* Every reachable state is well typed, and scanDirectory has a current name
\* exactly inside the body of its readdir loop.
THEOREM TypeCorrect == Spec => []TypeOK
  BY InitTypeOK, NextTypeOK, PTL DEF Spec
-----------------------------------------------------------------------------
(***************************************************************************)
(* No change is swallowed.  NoChangeSwallowed is not inductive: that the   *)
(* run about to start sees at least the version whose digest was stored    *)
(* needs the order of the versions, and the order of snap, the version     *)
(* that genMD5 began to read, needs the place in the code.                 *)
(***************************************************************************)

Storing == pc \in {"rehashing", "store", "flush"}

VersionsOrdered ==
  /\ \A f \in Files : recVer[f] <= ver[f]
  /\ Storing => recVer[file] <= snap /\ snap <= ver[file]

SwallowInv == TypeOK /\ VersionsOrdered /\ NoChangeSwallowed

LEMMA InitSwallowInv == Init => SwallowInv
<1> SUFFICES ASSUME Init PROVE VersionsOrdered /\ NoChangeSwallowed
  BY InitTypeOK DEF SwallowInv
<1> QED
  BY DEF Init, VersionsOrdered, NoChangeSwallowed, Storing

LEMMA NextVersionsOrdered ==
  ASSUME TypeOK, VersionsOrdered, [Next]_vars
  PROVE  VersionsOrdered'
<1> USE NumbersAssumption, FilesAssumption
    DEF VersionsOrdered, Storing, TypeOK, Labels, AtFile
<1>1. CASE UNCHANGED <<ver, recVer>> /\ ~ Storing'
  BY <1>1
<1>2. CASE UNCHANGED <<ver, recVer, pc, file, snap>>
  BY <1>2
<1>3. CASE GenMD5
  BY <1>3 DEF GenMD5, BeginRead, world, dirp, history
<1>4. CASE Rehashed
  BY <1>4 DEF Rehashed, world, dirp, history
<1>5. CASE TruncateSidecar
  BY <1>5 DEF TruncateSidecar, world, dirp, buffers, history
<1>6. CASE FlushSidecar
  BY <1>6 DEF FlushSidecar, WriteOut, world, dirp
<1>7. ASSUME NEW f \in Files, NEW c \in Contents \cup {Absent},
             WriteFile(f, c) \/ ReplaceFile(f, c)
      PROVE  VersionsOrdered'
  BY <1>7 DEF WriteFile, ReplaceFile, NewVersion, dirp, buffers
<1> QED
  <2>1. CASE UNCHANGED vars
    BY <1>2, <2>1 DEF vars, world, buffers, history
  <2>2. CASE \/ WakeUp \/ OpenDir \/ OpenDirFails \/ CloseDir
             \/ \E f \in Files : ReadDir(f)
    BY <1>1, <2>2 DEF WakeUp, OpenDir, OpenDirFails, CloseDir, ReadDir,
       NextFolder, world, history
  <2>3. CASE \/ ReadOldDigest \/ FillOld \/ HashFile \/ HashFileFails \/ Compare
             \/ CheckOpenFails \/ CheckOpenBusy \/ CheckOpenIdle
    BY <1>1, <2>3 DEF ReadOldDigest, FillOld, HashFile, HashFileFails, Compare,
       CheckOpenFails, CheckOpenBusy, CheckOpenIdle, Continue, world, history
  <2>4. CASE ReadError
    BY <1>2, <2>4 DEF ReadError, vars, world, buffers, history
  <2>5. CASE \/ GenMD5Fails \/ TruncateFails \/ FlushFails
             \/ ScriptStart \/ ScriptNotStarted \/ Script \/ Restart
    BY <1>1, <2>5 DEF GenMD5Fails, TruncateFails, FlushFails, ScriptStart,
       ScriptNotStarted, Script, ScriptEnds, ScriptExitsNonZero, Restart,
       Continue, world, history
  <2>6. CASE \E f \in Files : OpenFile(f) \/ CloseFile(f) \/ RemoveSidecar(f)
    BY <1>2, <2>6 DEF OpenFile, CloseFile, RemoveSidecar, world, buffers,
       history
  <2> QED
    BY <1>3, <1>4, <1>5, <1>6, <1>7, <2>1, <2>2, <2>3, <2>4, <2>5, <2>6
    DEF Next, Daemon, Environment, Script

LEMMA NextNoChangeSwallowed ==
  ASSUME TypeOK, VersionsOrdered, NoChangeSwallowed, [Next]_vars
  PROVE  NoChangeSwallowed'
<1> USE NumbersAssumption, FilesAssumption
    DEF NoChangeSwallowed, VersionsOrdered, Storing, TypeOK, Labels, AtFile
<1>1. CASE UNCHANGED <<recVer, runVer, lost>> /\ pc # "script"
  BY <1>1
<1>2. CASE UNCHANGED <<recVer, runVer, lost, pc, file>>
  BY <1>2
<1>3. CASE FlushSidecar
  BY <1>3 DEF FlushSidecar, WriteOut
<1>4. CASE ScriptStart
  BY <1>4 DEF ScriptStart, world
<1>5. CASE ScriptNotStarted
  BY <1>5 DEF ScriptNotStarted, Continue
<1>6. CASE ScriptExitsNonZero
  BY <1>6 DEF ScriptExitsNonZero, Continue
<1>7. CASE Restart
  BY <1>7 DEF Restart
<1> QED
  <2>1. CASE UNCHANGED vars
    BY <1>2, <2>1 DEF vars, history
  <2>2. CASE \/ WakeUp \/ OpenDir \/ OpenDirFails \/ CloseDir
             \/ \E f \in Files : ReadDir(f)
    BY <1>1, <2>2 DEF WakeUp, OpenDir, OpenDirFails, CloseDir, ReadDir, history
  <2>3. CASE \/ ReadOldDigest \/ FillOld \/ HashFile \/ HashFileFails \/ Compare
             \/ CheckOpenFails \/ CheckOpenBusy \/ CheckOpenIdle
    BY <1>1, <2>3 DEF ReadOldDigest, FillOld, HashFile, HashFileFails, Compare,
       CheckOpenFails, CheckOpenBusy, CheckOpenIdle, history
  <2>4. CASE ReadError
    BY <1>2, <2>4 DEF ReadError, vars, history
  <2>5. CASE \/ GenMD5 \/ GenMD5Fails \/ Rehashed
             \/ TruncateSidecar \/ TruncateFails \/ FlushFails \/ ScriptEnds
    BY <1>1, <2>5 DEF GenMD5, GenMD5Fails, Rehashed, TruncateSidecar,
       TruncateFails, FlushFails, ScriptEnds, history
  <2>6. CASE \E f \in Files : OpenFile(f) \/ CloseFile(f) \/ RemoveSidecar(f)
    BY <1>2, <2>6 DEF OpenFile, CloseFile, RemoveSidecar, history
  <2>7. CASE \E f \in Files, c \in Contents \cup {Absent} :
               WriteFile(f, c) \/ ReplaceFile(f, c)
    BY <1>2, <2>7 DEF WriteFile, ReplaceFile, NewVersion
  <2> QED
    BY <1>3, <1>4, <1>5, <1>6, <1>7, <2>1, <2>2, <2>3, <2>4, <2>5, <2>6, <2>7
    DEF Next, Daemon, Environment, Script

LEMMA NextSwallowInv == SwallowInv /\ [Next]_vars => SwallowInv'
  BY NextTypeOK, NextVersionsOrdered, NextNoChangeSwallowed DEF SwallowInv

\* A digest that was stored has been followed by a script run on that version
\* or a later one, or is about to be, or the run is on record as lost.
THEOREM ChangesAreNotSwallowed == Spec => []NoChangeSwallowed
<1>1. SwallowInv => NoChangeSwallowed
  BY DEF SwallowInv
<1> QED
  BY <1>1, InitSwallowInv, NextSwallowInv, PTL DEF Spec

-----------------------------------------------------------------------------
(***************************************************************************)
(* The leak of checkOpen.  Streams are only ever left behind where three   *)
(* descriptors were free, so one is left; and where popen no longer finds  *)
(* two, no step leads past checkOpen.                                      *)
(***************************************************************************)

LeakInv == TypeOK /\ LeakStopsShort /\ ExhaustedIsMute

LEMMA NextLeakInv == LeakInv /\ [Next]_vars => LeakInv'
<1> SUFFICES ASSUME LeakInv, [Next]_vars
             PROVE  LeakStopsShort' /\ ExhaustedIsMute'
  BY NextTypeOK DEF LeakInv
<1> USE NumbersAssumption
    DEF LeakInv, LeakStopsShort, ExhaustedIsMute, Exhausted, CanOpen
<1>1. CASE UNCHANGED <<leaked, pc>>
  BY <1>1
<1>2. CASE /\ UNCHANGED leaked
           /\ pc' \notin {"gen", "rehashing", "store", "flush", "script",
                           "running"}
  BY <1>2
<1>3. CASE /\ UNCHANGED leaked
           /\ pc \in {"gen", "rehashing", "store", "flush", "script",
                       "running"}
  BY <1>3
<1>4. CASE CheckOpenBusy
  BY <1>4 DEF CheckOpenBusy, Continue, TypeOK
<1>5. CASE CheckOpenIdle
  BY <1>5 DEF CheckOpenIdle
<1>6. CASE Restart
  BY <1>6 DEF Restart
<1> QED
  <2>1. CASE UNCHANGED vars \/ ReadError
    BY <1>1, <2>1 DEF vars, ReadError
  <2>2. CASE \/ WakeUp \/ OpenDir \/ OpenDirFails \/ CloseDir
             \/ \E f \in Files : ReadDir(f)
    BY <1>2, <2>2 DEF WakeUp, OpenDir, OpenDirFails, CloseDir, ReadDir,
       NextFolder
  <2>3. CASE \/ ReadOldDigest \/ FillOld \/ HashFile \/ HashFileFails \/ Compare
             \/ CheckOpenFails
    BY <1>2, <2>3 DEF ReadOldDigest, FillOld, HashFile, HashFileFails, Compare,
       CheckOpenFails, Continue
  <2>4. CASE \/ GenMD5 \/ GenMD5Fails \/ Rehashed
             \/ TruncateSidecar \/ TruncateFails \/ FlushSidecar \/ FlushFails
             \/ ScriptStart \/ ScriptNotStarted \/ Script
    BY <1>3, <2>4 DEF GenMD5, GenMD5Fails, Rehashed, TruncateSidecar,
       TruncateFails, FlushSidecar, FlushFails, ScriptStart, ScriptNotStarted,
       Script, ScriptEnds, ScriptExitsNonZero
  <2>5. CASE \E f \in Files : OpenFile(f) \/ CloseFile(f) \/ RemoveSidecar(f)
    BY <1>1, <2>5 DEF OpenFile, CloseFile, RemoveSidecar
  <2>6. CASE \E f \in Files, c \in Contents \cup {Absent} :
               WriteFile(f, c) \/ ReplaceFile(f, c)
    BY <1>1, <2>6 DEF WriteFile, ReplaceFile
  <2> QED
    BY <1>4, <1>5, <1>6, <2>1, <2>2, <2>3, <2>4, <2>5, <2>6
    DEF Next, Daemon, Environment

LEMMA InitLeakInv == Init => LeakInv
  BY InitTypeOK, NumbersAssumption
  DEF Init, LeakInv, LeakStopsShort, ExhaustedIsMute, CanOpen

\* However many files are found open, opendir and fopen never run out of
\* descriptors because of checkOpen's leak.
THEOREM LeakLeavesOne == Spec => []LeakStopsShort
<1>1. LeakInv => LeakStopsShort
  BY DEF LeakInv
<1> QED
  BY <1>1, InitLeakInv, NextLeakInv, PTL DEF Spec

\* Once popen cannot have its pipe, nothing is hashed again, stored or run.
THEOREM ExhaustedWatcherIsMute == Spec => []ExhaustedIsMute
<1>1. LeakInv => ExhaustedIsMute
  BY DEF LeakInv
<1> QED
  BY <1>1, InitLeakInv, NextLeakInv, PTL DEF Spec

-----------------------------------------------------------------------------
(***************************************************************************)
(* The watcher implements the notifier.                                    *)
(***************************************************************************)

LEMMA InitImplements == Init => Abstract!Init
  BY DEF Init, Abstract!Init, Due

\* Steps that leave the notifier where it is.
LEMMA Stutters ==
  ASSUME UNCHANGED <<ver, recVer, runVer, lost>>,
         \/ pc # "script" /\ pc' # "script"
         \/ UNCHANGED <<pc, file>>
  PROVE  UNCHANGED Abstract!vars
  BY DEF Abstract!vars, Due

\* A step that starts doScript's turn without a new digest.
LEMMA Alarms ==
  ASSUME TypeOK, UNCHANGED <<ver, recVer, runVer, lost, file>>,
         pc \in AtFile \ {"script"}, pc' = "script"
  PROVE  Abstract!Next
<1>1. file \in Files /\ Due = {} /\ Due' = {file}
  BY DEF TypeOK, Due, AtFile
<1>2. Abstract!Alarm(file)
  BY <1>1 DEF Abstract!Alarm
<1> QED
  BY <1>1, <1>2 DEF Abstract!Next

LEMMA NextImplements ==
  ASSUME SwallowInv, [Next]_vars
  PROVE  [Abstract!Next]_Abstract!vars
<1> USE DEF SwallowInv
<1>1. CASE GenMD5Fails \/ TruncateFails \/ FlushFails
  <2>1. /\ UNCHANGED <<ver, recVer, runVer, lost, file>>
        /\ pc \in AtFile \ {"script"} /\ pc' = "script"
    BY <1>1 DEF GenMD5Fails, TruncateFails, FlushFails, world, history, AtFile,
       Labels
  <2> QED
    BY <2>1, Alarms
<1>2. CASE FlushSidecar
  <2>1. file \in Files /\ pc = "flush"
    BY <1>2 DEF FlushSidecar, WriteOut, TypeOK, AtFile, Labels
  <2>2. snap \in recVer[file]..ver[file]
    BY <2>1, NumbersAssumption DEF VersionsOrdered, Storing, TypeOK
  <2>3. CASE sidecar[file] # NoSidecar
    <3>1. Abstract!Store(file)
      BY <1>2, <2>1, <2>2, <2>3 DEF FlushSidecar, WriteOut, Abstract!Store, Due, world
    <3> QED
      BY <2>1, <3>1 DEF Abstract!Next
  <2>4. CASE sidecar[file] = NoSidecar
    BY <1>2, <2>1, <2>4, Alarms DEF FlushSidecar, WriteOut, world, AtFile, Labels
  <2> QED
    BY <2>3, <2>4
<1>3. CASE ScriptStart \/ ScriptNotStarted
  <2>1. file \in Files
    BY <1>3 DEF ScriptStart, ScriptNotStarted, TypeOK, AtFile, Labels
  <2>2. Abstract!Run(file) \/ Abstract!Drop(file)
    BY <1>3, <2>1 DEF ScriptStart, ScriptNotStarted, Continue, Due, world,
       Abstract!Run, Abstract!Drop
  <2> QED
    BY <2>1, <2>2 DEF Abstract!Next
<1>4. CASE ScriptExitsNonZero
  <2>1. file \in Files
    BY <1>4 DEF ScriptExitsNonZero, TypeOK, AtFile, Labels
  <2>2. Abstract!Fail(file)
    BY <1>4, <2>1 DEF ScriptExitsNonZero, Continue, Due, world, Abstract!Fail
  <2> QED
    BY <2>1, <2>2 DEF Abstract!Next
<1>5. CASE Restart
  <2>1. CASE pc = "script"
    <3>1. file \in Files
      BY <2>1 DEF TypeOK, AtFile, Labels
    <3>2. Abstract!Drop(file)
      BY <1>5, <2>1, <3>1 DEF Restart, Abstract!Drop, Due, world, TypeOK
    <3> QED
      BY <3>1, <3>2 DEF Abstract!Next
  <2>2. CASE pc # "script"
    BY <1>5, <2>2, Stutters DEF Restart, world, TypeOK
  <2> QED
    BY <2>1, <2>2
<1>6. ASSUME NEW f \in Files, NEW c \in Contents \cup {Absent},
             WriteFile(f, c) \/ ReplaceFile(f, c)
      PROVE  Abstract!Next
  <2>1. Abstract!Change(f)
    BY <1>6 DEF WriteFile, ReplaceFile, NewVersion, Due, Abstract!Change
  <2> QED
    BY <2>1 DEF Abstract!Next
<1> QED
  <2>1. CASE UNCHANGED vars \/ ReadError
    BY <2>1, Stutters DEF vars, ReadError, world, history
  <2>2. CASE \/ WakeUp \/ OpenDir \/ OpenDirFails \/ CloseDir
             \/ \E f \in Files : ReadDir(f)
    BY <2>2, Stutters DEF WakeUp, OpenDir, OpenDirFails, CloseDir, ReadDir,
       NextFolder, world, history
  <2>3. CASE \/ ReadOldDigest \/ FillOld \/ HashFile \/ HashFileFails \/ Compare
             \/ CheckOpenFails \/ CheckOpenBusy \/ CheckOpenIdle
    BY <2>3, Stutters DEF ReadOldDigest, FillOld, HashFile, HashFileFails, Compare,
       CheckOpenFails, CheckOpenBusy, CheckOpenIdle, Continue, world, history
  <2>4. CASE GenMD5 \/ Rehashed \/ TruncateSidecar \/ ScriptEnds
    BY <2>4, Stutters DEF GenMD5, Rehashed, TruncateSidecar, ScriptEnds,
       Continue, world, history
  <2>5. CASE \E f \in Files : OpenFile(f) \/ CloseFile(f) \/ RemoveSidecar(f)
    BY <2>5, Stutters DEF OpenFile, CloseFile, RemoveSidecar, world, history
  <2> QED
    BY <1>1, <1>2, <1>3, <1>4, <1>5, <1>6, <2>1, <2>2, <2>3, <2>4, <2>5
    DEF Next, Daemon, Environment, Script

\* Every behaviour of the watcher is one of the notifier: digests are stored in
\* the order of the versions, each store makes a run due, and the run comes, or
\* is dropped on record, before the next digest is stored.
THEOREM WatcherImplementsNotifier == Spec => ImplementsNotifier
<1>1. SwallowInv /\ SwallowInv' /\ [Next]_vars => [Abstract!Next]_Abstract!vars
  BY NextImplements
<1> QED
  BY <1>1, InitImplements, InitSwallowInv, NextSwallowInv, PTL
  DEF Spec, ImplementsNotifier, Abstract!Spec

-----------------------------------------------------------------------------
(***************************************************************************)
(* No version runs more than twice.  A run counted in runs[f] means that f *)
(* and its sidecar have been left alone since that run began.  So the next *)
(* digest taken is that of the content, and once it is stored the compare  *)
(* finds no difference.  A file that was gone when its script began is not *)
(* met again: its name has been returned, and later scans do not see it.   *)
(***************************************************************************)

\* f is gone, and a script was run for it since it went.
GoneIsDone(f) ==
  runs[f] >= 1 /\ ~ Present(f) =>
    /\ runs[f] = 1
    /\ f \notin pending \ returned
    /\ file = f => pc = "running"

\* After the first run, what genMD5 reads and stores is the content.
SecondDigestFits(f) ==
  runs[f] >= 1 /\ Present(f) /\ file = f =>
    /\ pc = "rehashing" => held = {content[f]}
    /\ pc \in {"store", "flush"} => new = Digest[content[f]]
    /\ pc = "flush" => sidecar[f] # NoSidecar
    /\ pc = "script" => sidecar[f] = Digest[content[f]]

\* After the second run, the compare finds no difference.
ThirdIsQuiet(f) ==
  runs[f] = 2 =>
    /\ sidecar[f] = Digest[content[f]]
    /\ file = f =>
         /\ pc \in {"readold", "fread", "hash", "hashing", "running"}
         /\ pc \in {"hash", "hashing"} => old = Digest[content[f]]
         /\ pc = "hashing" => held = {content[f]}

TwiceInv ==
  /\ LeakInv
  /\ file # None => file \in returned
  /\ \A f \in Files \ ReadOnly :
       GoneIsDone(f) /\ SecondDigestFits(f) /\ ThirdIsQuiet(f) /\ runs[f] <= 2

Twice(f) ==
  GoneIsDone(f) /\ SecondDigestFits(f) /\ ThirdIsQuiet(f) /\ runs[f] <= 2

LEMMA InitTwiceInv == Init => TwiceInv
  BY InitLeakInv
  DEF Init, TwiceInv, GoneIsDone, SecondDigestFits, ThirdIsQuiet

\* Steps that are neither the process's nor about f.
LEMMA UntouchedTwice ==
  ASSUME NEW f \in Files \ ReadOnly, Twice(f),
         content'[f] = content[f], sidecar'[f] = sidecar[f], runs'[f] = runs[f],
         UNCHANGED <<pending, returned, pc, file, old, new>>,
         file = f => held' = held
  PROVE  Twice(f)'
  BY DEF Twice, GoneIsDone, SecondDigestFits, ThirdIsQuiet, Present

\* Steps of the process on another file, or on none.
LEMMA ElsewhereTwice ==
  ASSUME NEW f \in Files \ ReadOnly, Twice(f),
         content'[f] = content[f], sidecar'[f] = sidecar[f], runs'[f] = runs[f],
         UNCHANGED <<pending, returned>>, file' # f
  PROVE  Twice(f)'
  BY DEF Twice, GoneIsDone, SecondDigestFits, ThirdIsQuiet, Present

\* Steps that touch f or its sidecar start the count again.
LEMMA TouchedTwice ==
  ASSUME NEW f \in Files \ ReadOnly, runs'[f] = 0
  PROVE  Twice(f)'
  BY DEF Twice, GoneIsDone, SecondDigestFits, ThirdIsQuiet

LEMMA ScanTwice ==
  ASSUME TwiceInv, NEW f \in Files \ ReadOnly,
         \/ WakeUp \/ OpenDir \/ OpenDirFails \/ CloseDir
         \/ \E g \in Files : ReadDir(g)
  PROVE  Twice(f)'
<1> USE FilesAssumption
    DEF TwiceInv, LeakInv, TypeOK, AtFile, Labels, Twice, GoneIsDone,
        SecondDigestFits, ThirdIsQuiet, Present, world, history
<1>1. CASE WakeUp
  BY <1>1 DEF WakeUp
<1>2. CASE OpenDir
  BY <1>2 DEF OpenDir
<1>3. CASE OpenDirFails \/ CloseDir
  BY <1>3 DEF OpenDirFails, CloseDir, NextFolder
<1>4. ASSUME NEW g \in Files, ReadDir(g) PROVE Twice(f)'
  BY <1>4 DEF ReadDir
<1> QED
  BY <1>1, <1>2, <1>3, <1>4

LEMMA FileTwice ==
  ASSUME TwiceInv, NEW f \in Files \ ReadOnly, file = f,
         \/ ReadOldDigest \/ FillOld \/ HashFile \/ HashFileFails \/ Compare
         \/ CheckOpenFails \/ CheckOpenBusy \/ CheckOpenIdle
         \/ GenMD5 \/ GenMD5Fails \/ Rehashed
         \/ TruncateSidecar \/ TruncateFails \/ FlushSidecar \/ FlushFails
         \/ ScriptStart \/ ScriptNotStarted \/ Script
  PROVE  Twice(f)'
<1> USE FilesAssumption, ContentsAssumption
    DEF TwiceInv, LeakInv, LeakStopsShort, TypeOK, AtFile, Labels, Twice,
        GoneIsDone, SecondDigestFits, ThirdIsQuiet, Present, Continue, world,
        history, dirp, buffers
<1>1. CASE ReadOldDigest
  BY <1>1 DEF ReadOldDigest, Digests
<1>15. CASE FillOld
  <2>1. ASSUME runs[f] = 2 PROVE old' = Digest[content[f]]
    <3>1. content[f] \in Contents /\ sidecar[f] = Digest[content[f]]
      BY <1>15, <2>1 DEF FillOld
    <3>2. sidecar[f] # NoSidecar /\ sidecar[f] # Empty
      <4> HIDE DEF TwiceInv
      <4>1. sidecar[f] \in Digests
        BY <3>1 DEF Digests
      <4>2. NoSidecar \notin Digests /\ Empty \notin Digests
        OBVIOUS
      <4> QED
        BY <4>1, <4>2
    <3>3. old' \in OldDigests /\ OldDigests = {sidecar[f]}
      <4> HIDE DEF TwiceInv
      <4> QED
        BY <1>15, <3>2 DEF FillOld, OldDigests
    <3> QED
      BY <3>1, <3>3
  <2> QED
    BY <1>15, <2>1 DEF FillOld
<1>2. CASE HashFile
  BY <1>2 DEF HashFile, BeginRead
<1>3. CASE HashFileFails
  BY <1>3 DEF HashFileFails
<1>4. CASE Compare
  BY <1>4 DEF Compare, Hashed, SameUpTo
<1>5. CASE CheckOpenFails \/ CheckOpenBusy \/ CheckOpenIdle
  BY <1>5 DEF CheckOpenFails, CheckOpenBusy, CheckOpenIdle
<1>6. CASE GenMD5
  BY <1>6 DEF GenMD5, BeginRead
<1>7. CASE GenMD5Fails
  BY <1>7 DEF GenMD5Fails
<1>8. CASE Rehashed
  BY <1>8 DEF Rehashed, Hashed
<1>9. CASE TruncateSidecar
  BY <1>9 DEF TruncateSidecar
<1>10. CASE TruncateFails
  BY <1>10 DEF TruncateFails
<1>11. CASE FlushSidecar
  <2>1. runs[f] >= 1 /\ Present(f) => sidecar'[f] = Digest[content[f]]
    BY <1>11 DEF FlushSidecar, WriteOut
  <2>2. runs[f] # 2
    BY <1>11 DEF FlushSidecar
  <2> QED
    BY <1>11, <2>1, <2>2 DEF FlushSidecar
<1>12. CASE FlushFails
  BY <1>12 DEF FlushFails
<1>13. CASE ScriptStart
  <2>1. /\ pc = "script" /\ pc' = "running" /\ f \in returned
        /\ UNCHANGED <<content, sidecar, pending, returned, file, old, held>>
    BY <1>13 DEF ScriptStart
  <2>2. runs[f] \in 0..1 /\ runs'[f] = runs[f] + 1
    <3>1. runs[f] \in 0..3 /\ runs[f] <= 2 /\ runs[f] # 2
      BY <2>1
    <3> QED
      BY <1>13, <3>1 DEF ScriptStart
  <2>3. runs[f] = 1 => Present(f) /\ sidecar[f] = Digest[content[f]]
    BY <2>1, <2>2
  <2> QED
    BY <2>1, <2>2, <2>3
<1>14. CASE ScriptNotStarted \/ Script
  BY <1>14 DEF ScriptNotStarted, Script, ScriptEnds, ScriptExitsNonZero
<1> QED
  BY <1>1, <1>2, <1>3, <1>4, <1>5, <1>6, <1>7, <1>8, <1>9, <1>10, <1>11,
     <1>12, <1>13, <1>14, <1>15

LEMMA OtherFileTwice ==
  ASSUME TwiceInv, NEW f \in Files \ ReadOnly, file # f,
         \/ ReadOldDigest \/ FillOld \/ HashFile \/ HashFileFails \/ Compare
         \/ CheckOpenFails \/ CheckOpenBusy \/ CheckOpenIdle
         \/ GenMD5 \/ GenMD5Fails \/ Rehashed
         \/ TruncateSidecar \/ TruncateFails \/ FlushSidecar \/ FlushFails
         \/ ScriptStart \/ ScriptNotStarted \/ Script
  PROVE  Twice(f)'
<1> USE FilesAssumption
    DEF TwiceInv, LeakInv, TypeOK, AtFile, Labels, Continue, world, history,
        dirp, buffers
<1>0. file' # f /\ UNCHANGED <<content, pending, returned>>
  BY DEF ReadOldDigest, FillOld, HashFile, HashFileFails, Compare, CheckOpenFails,
     CheckOpenBusy, CheckOpenIdle, GenMD5, GenMD5Fails, Rehashed,
     TruncateSidecar, TruncateFails, FlushSidecar, FlushFails, ScriptStart,
     ScriptNotStarted, Script, ScriptEnds, ScriptExitsNonZero
<1>1. sidecar'[f] = sidecar[f] /\ runs'[f] = runs[f]
  BY DEF ReadOldDigest, FillOld, HashFile, HashFileFails, Compare, CheckOpenFails,
     CheckOpenBusy, CheckOpenIdle, GenMD5, GenMD5Fails, Rehashed,
     TruncateSidecar, TruncateFails, FlushSidecar, WriteOut, FlushFails, ScriptStart,
     ScriptNotStarted, Script, ScriptEnds, ScriptExitsNonZero
<1> QED
  BY <1>0, <1>1, ElsewhereTwice DEF Twice

LEMMA EnvironmentTwice ==
  ASSUME TwiceInv, NEW f \in Files \ ReadOnly, Environment
  PROVE  Twice(f)'
<1>0. Twice(f) /\ TypeOK
  BY DEF TwiceInv, LeakInv, Twice
<1> USE DEF TypeOK, dirp, buffers, world, history
<1>1. CASE Restart
  BY <1>0, <1>1, TouchedTwice DEF Restart
<1>2. ASSUME NEW g \in Files, OpenFile(g) \/ CloseFile(g) PROVE Twice(f)'
  BY <1>0, <1>2, UntouchedTwice DEF OpenFile, CloseFile
<1>3. ASSUME NEW g \in Files, RemoveSidecar(g) PROVE Twice(f)'
  <2>1. CASE f = g
    BY <1>0, <1>3, <2>1, TouchedTwice DEF RemoveSidecar
  <2>2. CASE f # g
    BY <1>0, <1>3, <2>2, UntouchedTwice DEF RemoveSidecar
  <2> QED
    BY <2>1, <2>2
<1>4. ASSUME NEW g \in Files, NEW c \in Contents \cup {Absent},
             WriteFile(g, c) \/ ReplaceFile(g, c)
      PROVE  Twice(f)'
  <2>1. CASE f = g
    BY <1>0, <1>4, <2>1, TouchedTwice DEF WriteFile, ReplaceFile, NewVersion
  <2>2. CASE f # g
    BY <1>0, <1>4, <2>2, UntouchedTwice
    DEF WriteFile, ReplaceFile, NewVersion, Reading
  <2> QED
    BY <2>1, <2>2
<1> QED
  BY <1>1, <1>2, <1>3, <1>4 DEF Environment

LEMMA NextReturned ==
  ASSUME TypeOK, file # None => file \in returned, [Next]_vars
  PROVE  (file # None => file \in returned)'
<1> USE FilesAssumption DEF TypeOK, AtFile, Labels
<1>1. CASE UNCHANGED returned /\ (file' = file \/ file' = None)
  BY <1>1
<1>2. CASE WakeUp \/ OpenDir \/ OpenDirFails \/ CloseDir
  BY <1>2 DEF WakeUp, OpenDir, OpenDirFails, CloseDir, NextFolder
<1>3. ASSUME NEW g \in Files, ReadDir(g)
      PROVE  (file # None => file \in returned)'
  BY <1>3 DEF ReadDir
<1>4. CASE Restart
  BY <1>4 DEF Restart
<1> QED
  <2>1. CASE UNCHANGED vars \/ ReadError
    BY <1>1, <2>1 DEF vars, ReadError, dirp
  <2>2. CASE \/ ReadOldDigest \/ FillOld \/ HashFile \/ HashFileFails \/ Compare
             \/ CheckOpenFails \/ CheckOpenBusy \/ CheckOpenIdle
    BY <1>1, <2>2 DEF ReadOldDigest, FillOld, HashFile, HashFileFails, Compare,
       CheckOpenFails, CheckOpenBusy, CheckOpenIdle, Continue, dirp
  <2>3. CASE \/ GenMD5 \/ GenMD5Fails \/ Rehashed
             \/ TruncateSidecar \/ TruncateFails \/ FlushSidecar \/ FlushFails
             \/ ScriptStart \/ ScriptNotStarted \/ Script
    BY <1>1, <2>3 DEF GenMD5, GenMD5Fails, Rehashed, TruncateSidecar,
       TruncateFails, FlushSidecar, FlushFails, ScriptStart, ScriptNotStarted,
       Script, ScriptEnds, ScriptExitsNonZero, Continue, dirp
  <2>4. CASE \E f \in Files :
               \/ OpenFile(f) \/ CloseFile(f) \/ RemoveSidecar(f)
               \/ \E c \in Contents \cup {Absent} :
                    WriteFile(f, c) \/ ReplaceFile(f, c)
    BY <1>1, <2>4 DEF OpenFile, CloseFile, RemoveSidecar, WriteFile,
       ReplaceFile, dirp
  <2> QED
    BY <1>2, <1>3, <1>4, <2>1, <2>2, <2>3, <2>4
    DEF Next, Daemon, Environment

LEMMA NextTwiceInv == TwiceInv /\ [Next]_vars => TwiceInv'
<1> SUFFICES ASSUME TwiceInv, [Next]_vars PROVE TwiceInv'
  OBVIOUS
<1>1. LeakInv' /\ (file # None => file \in returned)'
  BY NextLeakInv, NextReturned DEF TwiceInv, LeakInv
<1>2. ASSUME NEW f \in Files \ ReadOnly PROVE Twice(f)'
  <2>1. CASE UNCHANGED vars \/ ReadError
    BY <2>1, UntouchedTwice
    DEF vars, ReadError, world, dirp, buffers, history, TwiceInv, Twice
  <2> QED
    BY <2>1, ScanTwice, FileTwice, OtherFileTwice, EnvironmentTwice
    DEF Next, Daemon, Script
<1> QED
  BY <1>1, <1>2 DEF TwiceInv, Twice

\* The script runs at most twice for one version of a file, wherever its sidecar
\* can be written.
THEOREM NoVersionRunsThrice == Spec => []AtMostTwice
<1>1. TwiceInv => AtMostTwice
  BY DEF TwiceInv, AtMostTwice
<1> QED
  BY <1>1, InitTwiceInv, NextTwiceInv, PTL DEF Spec

(***************************************************************************)
(* Two watchers: what the one promises of a digest it has stored, two      *)
(* promise together, though either may store an older digest over a newer  *)
(* one.                                                                    *)
(***************************************************************************)

\* The calls made inside the body of scanDirectory's loop, and those of genMD5
\* between the start of its read and the end of its write.
Place(p) == p \in {"readold", "fread", "hash", "hashing", "lsof", "gen", "rehashing", "store",
                     "flush", "script", "running"}
Reads(p) == p \in {"rehashing", "store", "flush"}

\* Nothing newer than the file is stored or about to be.  (FileWatch has recVer <= snap
\* for one watcher, which another one's store in the meantime breaks.)
Ordered ==
  /\ ver \in [Files -> Nat] /\ recVer \in [Files -> Nat]
  /\ runVer \in [Files -> Nat] /\ runVerB \in [Files -> Nat]
  /\ lost \in [Files -> BOOLEAN] /\ lostB \in [Files -> BOOLEAN]
  /\ \A f \in Files : recVer[f] <= ver[f]
  /\ Place(pc) => file \in Files
  /\ Place(pcB) => fileB \in Files
  /\ Reads(pc) => snap \in Nat /\ snap <= ver[file]
  /\ Reads(pcB) => snapB \in Nat /\ snapB <= ver[fileB]

TwoInv == Ordered /\ OneOfThemSaw

LEMMA InitTwo == TwoInit => TwoInv
  BY DEF TwoInit, Init, B!Init, TwoInv, Ordered, Place, Reads, OneOfThemSaw

\* What a step of watcher A leaves in order: nothing of the other watcher changes.
LEMMA OrderedByA ==
  ASSUME Ordered, StepA
  PROVE  Ordered'
<1> USE DEF Ordered, Place, Reads, ownB
<1>0. UNCHANGED ownB
  BY DEF StepA
<1>1. CASE /\ UNCHANGED <<ver, recVer, lost, runVer>> /\ ~ Reads(pc')
           /\ Place(pc') => file' = file /\ Place(pc)
  BY <1>0, <1>1
<1>2. CASE \E f \in Files : ReadDir(f)
  BY <1>0, <1>2 DEF ReadDir, world, history
<1>3. CASE GenMD5
  BY <1>0, <1>3 DEF GenMD5, BeginRead, world, dirp, history
<1>4. CASE Rehashed
  BY <1>0, <1>4 DEF Rehashed, world, dirp, history
<1>5. CASE TruncateSidecar
  BY <1>0, <1>5 DEF TruncateSidecar, world, dirp, buffers, history
<1>6. CASE FlushSidecar
  BY <1>0, <1>6 DEF FlushSidecar, WriteOut, world, dirp
<1>7. CASE ScriptStart
  BY <1>0, <1>7 DEF ScriptStart, world, dirp, buffers
<1>8. CASE ScriptNotStarted \/ ScriptExitsNonZero
  BY <1>0, <1>8 DEF ScriptNotStarted, ScriptExitsNonZero, Continue, world
<1>9. CASE Restart
  BY <1>0, <1>9 DEF Restart, world
<1>10. CASE ReadError
  BY <1>0, <1>10 DEF ReadError, vars, world, buffers, history
<1> QED
  <2>1. CASE WakeUp \/ OpenDir \/ OpenDirFails \/ CloseDir
    BY <1>1, <2>1 DEF WakeUp, OpenDir, OpenDirFails, CloseDir,
       NextFolder, world, history
  <2>2. CASE \/ ReadOldDigest \/ FillOld \/ HashFile \/ HashFileFails \/ Compare
             \/ CheckOpenFails \/ CheckOpenBusy \/ CheckOpenIdle
    BY <1>1, <2>2 DEF ReadOldDigest, FillOld, HashFile, HashFileFails, Compare,
       CheckOpenFails, CheckOpenBusy, CheckOpenIdle, Continue, world, history
  <2>3. CASE GenMD5Fails \/ TruncateFails \/ FlushFails \/ ScriptEnds
    BY <1>1, <2>3 DEF GenMD5Fails, TruncateFails, FlushFails, ScriptEnds,
       Continue, world, history
  <2> QED
    BY <1>2, <1>3, <1>4, <1>5, <1>6, <1>7, <1>8, <1>9, <1>10, <2>1, <2>2, <2>3
    DEF StepA, Daemon, Script

\* Nor does it leave a stored digest that nobody has seen or owes a run for.
LEMMA SawByA ==
  ASSUME Ordered, OneOfThemSaw, StepA
  PROVE  OneOfThemSaw'
<1> USE DEF Ordered, Place, Reads, OneOfThemSaw, ownB
<1>0. UNCHANGED ownB
  BY DEF StepA
<1>1. CASE UNCHANGED <<recVer, runVer, lost>> /\ pc # "script"
  BY <1>0, <1>1
<1>2. CASE UNCHANGED <<recVer, runVer, lost, pc, file>>
  BY <1>0, <1>2
<1>3. CASE FlushSidecar
  BY <1>0, <1>3 DEF FlushSidecar, WriteOut
<1>4. CASE ScriptStart
  BY <1>0, <1>4 DEF ScriptStart, world
<1>5. CASE ScriptNotStarted
  BY <1>0, <1>5 DEF ScriptNotStarted, Continue
<1>6. CASE ScriptExitsNonZero
  BY <1>0, <1>6 DEF ScriptExitsNonZero, Continue
<1>7. CASE Restart
  BY <1>0, <1>7 DEF Restart
<1> QED
  <2>1. CASE \/ WakeUp \/ OpenDir \/ OpenDirFails \/ CloseDir
             \/ \E f \in Files : ReadDir(f)
    BY <1>1, <2>1 DEF WakeUp, OpenDir, OpenDirFails, CloseDir, ReadDir, history
  <2>2. CASE \/ ReadOldDigest \/ FillOld \/ HashFile \/ HashFileFails \/ Compare
             \/ CheckOpenFails \/ CheckOpenBusy \/ CheckOpenIdle
    BY <1>1, <2>2 DEF ReadOldDigest, FillOld, HashFile, HashFileFails, Compare,
       CheckOpenFails, CheckOpenBusy, CheckOpenIdle, history
  <2>3. CASE ReadError
    BY <1>2, <2>3 DEF ReadError, vars, history
  <2>4. CASE \/ GenMD5 \/ GenMD5Fails \/ Rehashed
             \/ TruncateSidecar \/ TruncateFails \/ FlushFails \/ ScriptEnds
    BY <1>1, <2>4 DEF GenMD5, GenMD5Fails, Rehashed, TruncateSidecar,
       TruncateFails, FlushFails, ScriptEnds, history
  <2> QED
    BY <1>3, <1>4, <1>5, <1>6, <1>7, <2>1, <2>2, <2>3, <2>4
    DEF StepA, Daemon, Script

\* What a step of watcher B leaves in order: nothing of the other watcher changes.
LEMMA OrderedByB ==
  ASSUME Ordered, StepB
  PROVE  Ordered'
<1> USE DEF Ordered, Place, Reads, ownA
<1>0. UNCHANGED ownA
  BY DEF StepB
<1>1. CASE UNCHANGED <<ver, recVer, lostB,
   runVerB>> /\ ~ Reads(pcB') /\ (Place(pcB') => fileB' = fileB /\ Place(pcB))
  BY <1>0, <1>1
<1>2. CASE \E f \in Files : B!ReadDir(f)
  BY <1>0, <1>2 DEF B!ReadDir, B!world, B!history
<1>3. CASE B!GenMD5
  BY <1>0, <1>3 DEF B!GenMD5, B!BeginRead, B!world, B!dirp, B!history
<1>4. CASE B!Rehashed
  BY <1>0, <1>4 DEF B!Rehashed, B!world, B!dirp, B!history
<1>5. CASE B!TruncateSidecar
  BY <1>0, <1>5 DEF B!TruncateSidecar, B!world, B!dirp, B!buffers, B!history
<1>6. CASE B!FlushSidecar
  BY <1>0, <1>6 DEF B!FlushSidecar, B!WriteOut, B!world, B!dirp
<1>7. CASE B!ScriptStart
  BY <1>0, <1>7 DEF B!ScriptStart, B!world, B!dirp, B!buffers
<1>8. CASE B!ScriptNotStarted \/ B!ScriptExitsNonZero
  BY <1>0, <1>8 DEF B!ScriptNotStarted, B!ScriptExitsNonZero, B!Continue, B!world
<1>9. CASE B!Restart
  BY <1>0, <1>9 DEF B!Restart, B!world
<1>10. CASE B!ReadError
  BY <1>0, <1>10 DEF B!ReadError, B!vars, B!world, B!buffers, B!history
<1> QED
  <2>1. CASE B!WakeUp \/ B!OpenDir \/ B!OpenDirFails \/ B!CloseDir
    BY <1>1, <2>1 DEF B!WakeUp, B!OpenDir, B!OpenDirFails, B!CloseDir,
       B!NextFolder, B!world, B!history
  <2>2. CASE \/ B!ReadOldDigest \/ B!FillOld \/ B!HashFile \/ B!HashFileFails \/ B!Compare
             \/ B!CheckOpenFails \/ B!CheckOpenBusy \/ B!CheckOpenIdle
    BY <1>1, <2>2 DEF B!ReadOldDigest, B!FillOld, B!HashFile, B!HashFileFails, B!Compare,
       B!CheckOpenFails, B!CheckOpenBusy, B!CheckOpenIdle, B!Continue, B!world, B!history
  <2>3. CASE B!GenMD5Fails \/ B!TruncateFails \/ B!FlushFails \/ B!ScriptEnds
    BY <1>1, <2>3 DEF B!GenMD5Fails, B!TruncateFails, B!FlushFails, B!ScriptEnds,
       B!Continue, B!world, B!history
  <2> QED
    BY <1>2, <1>3, <1>4, <1>5, <1>6, <1>7, <1>8, <1>9, <1>10, <2>1, <2>2, <2>3
    DEF StepB, B!Daemon, B!Script

\* Nor does it leave a stored digest that nobody has seen or owes a run for.
LEMMA SawByB ==
  ASSUME Ordered, OneOfThemSaw, StepB
  PROVE  OneOfThemSaw'
<1> USE DEF Ordered, Place, Reads, OneOfThemSaw, ownA
<1>0. UNCHANGED ownA
  BY DEF StepB
<1>1. CASE UNCHANGED <<recVer, runVerB, lostB>> /\ pcB # "script"
  BY <1>0, <1>1
<1>2. CASE UNCHANGED <<recVer, runVerB, lostB, pcB, fileB>>
  BY <1>0, <1>2
<1>3. CASE B!FlushSidecar
  BY <1>0, <1>3 DEF B!FlushSidecar, B!WriteOut
<1>4. CASE B!ScriptStart
  BY <1>0, <1>4 DEF B!ScriptStart, B!world
<1>5. CASE B!ScriptNotStarted
  BY <1>0, <1>5 DEF B!ScriptNotStarted, B!Continue
<1>6. CASE B!ScriptExitsNonZero
  BY <1>0, <1>6 DEF B!ScriptExitsNonZero, B!Continue
<1>7. CASE B!Restart
  BY <1>0, <1>7 DEF B!Restart
<1> QED
  <2>1. CASE \/ B!WakeUp \/ B!OpenDir \/ B!OpenDirFails \/ B!CloseDir
             \/ \E f \in Files : B!ReadDir(f)
    BY <1>1, <2>1 DEF B!WakeUp, B!OpenDir, B!OpenDirFails, B!CloseDir, B!ReadDir, B!history
  <2>2. CASE \/ B!ReadOldDigest \/ B!FillOld \/ B!HashFile \/ B!HashFileFails \/ B!Compare
             \/ B!CheckOpenFails \/ B!CheckOpenBusy \/ B!CheckOpenIdle
    BY <1>1, <2>2 DEF B!ReadOldDigest, B!FillOld, B!HashFile, B!HashFileFails, B!Compare,
       B!CheckOpenFails, B!CheckOpenBusy, B!CheckOpenIdle, B!history
  <2>3. CASE B!ReadError
    BY <1>2, <2>3 DEF B!ReadError, B!vars, B!history
  <2>4. CASE \/ B!GenMD5 \/ B!GenMD5Fails \/ B!Rehashed
             \/ B!TruncateSidecar \/ B!TruncateFails \/ B!FlushFails \/ B!ScriptEnds
    BY <1>1, <2>4 DEF B!GenMD5, B!GenMD5Fails, B!Rehashed, B!TruncateSidecar,
       B!TruncateFails, B!FlushFails, B!ScriptEnds, B!history
  <2> QED
    BY <1>3, <1>4, <1>5, <1>6, <1>7, <2>1, <2>2, <2>3, <2>4
    DEF StepB, B!Daemon, B!Script

\* A write, and the opening and closing of files, which meet both watchers
LEMMA TwoByOthers ==
  ASSUME TwoInv, NEW f \in Files,
         \/ OpenOrClose(f)
         \/ \E c \in Contents \cup {Absent} : Write(f, c) \/ Replace(f, c)
  PROVE  TwoInv'
<1> USE DEF TwoInv, Ordered, Place, Reads, OneOfThemSaw
<1>1. CASE OpenOrClose(f)
  BY <1>1 DEF OpenOrClose, OpenFile, CloseFile, B!OpenFile, B!CloseFile,
     dirp, buffers, history, B!dirp, B!buffers, B!history
<1>2. ASSUME NEW c \in Contents \cup {Absent}, Write(f, c) PROVE TwoInv'
  BY <1>2 DEF Write, WriteFile, NewVersion, B!WriteFile, B!NewVersion, dirp, B!dirp
<1>3. ASSUME NEW c \in Contents \cup {Absent}, Replace(f, c) PROVE TwoInv'
  BY <1>3 DEF Replace, ReplaceFile, NewVersion, B!ReplaceFile, B!NewVersion,
     dirp, buffers, B!dirp, B!buffers
<1> QED
  BY <1>1, <1>2, <1>3

LEMMA NextTwo == TwoInv /\ [TwoNext]_bothVars => TwoInv'
<1> SUFFICES ASSUME TwoInv, [TwoNext]_bothVars PROVE TwoInv'
  OBVIOUS
<1>1. CASE StepA
  BY <1>1, OrderedByA, SawByA DEF TwoInv
<1>2. CASE StepB
  BY <1>2, OrderedByB, SawByB DEF TwoInv
<1>3. CASE UNCHANGED bothVars
  BY <1>3 DEF bothVars, shared, ownA, ownB, TwoInv, Ordered, Place, Reads, OneOfThemSaw
<1> QED
  BY <1>1, <1>2, <1>3, TwoByOthers DEF TwoNext

\* Whichever of two watchers stored a digest last, one of them has been started on that
\* version or a later one, is about to be, or has it on record as lost.
THEOREM NeitherSwallows == TwoSpec => []OneOfThemSaw
<1>1. TwoInv => OneOfThemSaw
  BY DEF TwoInv
<1> QED
  BY <1>1, InitTwo, NextTwo, PTL DEF TwoSpec
=============================================================================
