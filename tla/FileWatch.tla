------------------------------ MODULE FileWatch ------------------------------
(***************************************************************************)
(* The watcher of filewatch.c: the endless sweep of main() over the        *)
(* configured folders, scanDirectory() with the helpers it calls           *)
(* (md5fileop, MD5File, checkOpen, genMD5, doScript), and the programs     *)
(* that share the file system with it.  Every library or system call that  *)
(* reads or changes something another process can see is a step of its     *)
(* own, so the steps of writers fall between any two of them.              *)
(*                                                                         *)
(* A file's history is a sequence of versions; version v holds one of      *)
(* Bodies[v].  MD5 is the function Digest from contents to strings of hex  *)
(* digits.  The ".md5" file beside a watched file is its sidecar.          *)
(***************************************************************************)
EXTENDS Naturals

CONSTANTS
  Files,        \* the directory entries that some configured pattern matches
  Dirs,         \* those of them that are directories
  ReadOnly,     \* those whose sidecar cannot be opened for writing
  Contents,     \* what a file may hold
  Mixed,        \* the content a reader sees when it overlaps a writer
  Absent,       \* the "content" of a file that does not exist
  Bodies,       \* Bodies[v]: what version v of a file may be
  Digest,       \* MD5 of a content, as a string of hex digits
  NumFolders,   \* the length of the "folders" list of the configuration
  Match,        \* Match[i]: the entries of folder i that fnmatch accepts
  Missing,      \* the folders that opendir cannot open
  GrepHits,     \* GrepHits[f]: files whose line in lsof's output greps as f
  NoSidecar,    \* no ".md5" file
  Empty,        \* a ".md5" file of length zero
  None,         \* no value
  FreeFds,      \* descriptors the process may still open once it has started
  MaxVer,       \* bound: versions of one file
  MaxMishaps    \* bound: crashes, failing calls and removed sidecars together

\* bound: runs[f] counts up to here
MaxRuns == 3

Digests == {Digest[c] : c \in Contents}
Folders == 1..NumFolders

ASSUME FilesAssumption ==
  /\ Dirs \subseteq Files
  /\ None \notin Files
  /\ Match \in [Folders -> SUBSET Files]
  /\ GrepHits \in [Files -> SUBSET Files]
  /\ \A f \in Files : f \in GrepHits[f]

ASSUME ContentsAssumption ==
  /\ Absent \notin Contents
  /\ Mixed \in Contents
  /\ Bodies \in [1..MaxVer -> SUBSET (Contents \cup {Absent})]
  /\ {NoSidecar, Empty, None} \cap Digests = {}
  /\ NoSidecar # Empty

ASSUME NumbersAssumption ==
  /\ NumFolders \in Nat \ {0}
  /\ FreeFds \in Nat /\ FreeFds >= 3
  /\ MaxVer \in Nat \ {0}
  /\ MaxMishaps \in Nat

VARIABLES
  \* the file system, and the programs that hold files open
  content,      \* content[f]
  ver,          \* ver[f]: how many versions f has had
  opened,       \* opened[f]: some other program has f open
  sidecar,      \* sidecar[f]: a digest, Empty or NoSidecar
  \* the process
  pc,           \* the next call it makes
  entry,        \* main's i: the folder being scanned
  pending,      \* the names in the directory when opendir was called
  returned,     \* the names readdir has returned since
  file,         \* szFile
  old,          \* scanDirectory's szMD5Old
  new,          \* genMD5's szMD5New
  held,         \* the contents the inode MD5File is reading has had meanwhile
  leaked,       \* popen streams that checkOpen never closed
  \* history
  snap,         \* the version MD5File began to read
  recVer,       \* recVer[f]: the version whose digest was last stored
  runVer,       \* runVer[f]: the version at the start of the last script run
  runs,         \* runs[f]: script runs since f or its sidecar was touched
  lost,         \* lost[f]: the run owed to f was never started, or it failed
  mishaps

world   == <<content, ver, opened>>
dirp    == <<entry, pending, returned>>
buffers == <<old, new, held, snap>>
history == <<recVer, runVer, runs, lost>>

vars == <<world, sidecar, pc, dirp, file, buffers, leaked, history, mishaps>>

Present(f) == content[f] # Absent

\* The process holds the directory stream while it scans, and the streams
\* checkOpen left behind; n more descriptors fit.
CanOpen(n) == leaked + 1 + n <= FreeFds

\* popen needs a pipe, two descriptors: with fewer, checkOpen fails for good.
Exhausted == ~ CanOpen(2)

Reading(f) == pc \in {"hashing", "rehashing"} /\ file = f

\* Mutant: the sense of strncmp's result inverted.
DifferUpTo(n, a, b) == \E i \in 1..n : a[i] # b[i]

\* strncmp(a, b, n) = 0
SameUpTo(n, a, b) == \A i \in 1..n : a[i] = b[i]

Init ==
  /\ content \in [Files -> Bodies[1]]
  /\ ver = [f \in Files |-> 1]
  /\ opened = [f \in Files |-> FALSE]
  /\ sidecar = [f \in Files |-> NoSidecar]
  /\ pc = "sleep"
  /\ entry = 1 /\ pending = {} /\ returned = {}
  /\ file = None /\ old = None /\ new = None /\ held = {}
  /\ leaked = 0
  /\ snap = 0
  /\ recVer = [f \in Files |-> 0]
  /\ runVer = [f \in Files |-> 0]
  /\ runs = [f \in Files |-> 0]
  /\ lost = [f \in Files |-> FALSE]
  /\ mishaps = 0

-----------------------------------------------------------------------------
(* main(): the loop over the folders.                                      *)

WakeUp ==
  /\ pc = "sleep"
  /\ pc' = "opendir" /\ entry' = 1
  /\ UNCHANGED <<world, sidecar, pending, returned, file, buffers, leaked,
                 history, mishaps>>

\* Mutant: "i <= num_watch_files".
NextFolderOneTooMany ==
  /\ IF entry <= NumFolders
       THEN pc' = "opendir" /\ entry' = entry + 1
       ELSE pc' = "sleep" /\ entry' = 1
  /\ pending' = {} /\ returned' = {}

\* scanDirectory returns: the next folder, or sleep(sleep_time).
NextFolder ==
  /\ IF entry < NumFolders
       THEN pc' = "opendir" /\ entry' = entry + 1
       ELSE pc' = "sleep" /\ entry' = 1
  /\ pending' = {} /\ returned' = {}

(* scanDirectory(): the directory stream.  A name that appears or goes     *)
(* away while the stream is open may or may not be returned.               *)

OpenDir ==
  /\ pc = "opendir"
  /\ entry \notin Missing /\ CanOpen(0)
  /\ pc' = "readdir"
  /\ pending' = {f \in Match[entry] : Present(f)}
  /\ UNCHANGED <<world, sidecar, entry, returned, file, buffers, leaked,
                 history, mishaps>>

OpenDirFails ==
  /\ pc = "opendir"
  /\ entry \in Missing \/ ~ CanOpen(0)
  /\ NextFolder
  /\ UNCHANGED <<world, sidecar, file, buffers, leaked, history, mishaps>>

ReadDir(f) ==
  /\ pc = "readdir"
  /\ f \in Match[entry] \ returned
  /\ f \in pending \/ Present(f)
  /\ returned' = returned \cup {f}
  /\ file' = f
  /\ pc' = "readold"
  /\ UNCHANGED <<world, sidecar, entry, pending, buffers, leaked, history,
                 mishaps>>

CloseDir ==
  /\ pc = "readdir"
  /\ \A f \in pending \ returned : ~ Present(f)
  /\ NextFolder
  /\ UNCHANGED <<world, sidecar, file, buffers, leaked, history, mishaps>>

\* Done with this name: back to the readdir loop.
Continue == pc' = "readdir" /\ file' = None

-----------------------------------------------------------------------------
(* Has the file changed since its digest was stored?                       *)

\* Mutant: "md5len > 32", which a digest of 32 digits does not pass.
ReadOldDigestTooStrict ==
  /\ pc = "readold"
  /\ pc' = "lsof" /\ old' = None
  /\ UNCHANGED <<world, sidecar, dirp, file, new, held, snap, leaked, history,
                 mishaps>>

\* md5fileop(OPCODE_READ): only a sidecar whose length, which ftell tells, is positive
\* counts.
ReadOldDigest ==
  /\ pc = "readold"
  /\ IF sidecar[file] \in Digests /\ CanOpen(1)
       THEN pc' = "fread" /\ old' = sidecar[file]
       ELSE pc' = "lsof" /\ old' = None
  /\ UNCHANGED <<world, sidecar, dirp, file, new, held, snap, leaked, history,
                 mishaps>>

\* What szMD5Old holds after fread.  A sidecar that was removed can still be read.  Of
\* one that another watcher has truncated meanwhile nothing is read, and the buffer holds
\* what some earlier call or sweep left there.
OldDigests ==
  CASE sidecar[file] = NoSidecar -> {old}
    [] sidecar[file] = Empty -> Digests
    [] OTHER -> {sidecar[file]}

\* Mutant: no fclose after reading the sidecar.
FillOldNoClose ==
  /\ pc = "fread"
  /\ old' \in OldDigests
  /\ leaked' = leaked + 1
  /\ pc' = "hash"
  /\ UNCHANGED <<world, sidecar, dirp, file, new, held, snap, history, mishaps>>

\* ... fread and fclose.
FillOld ==
  /\ pc = "fread"
  /\ old' \in OldDigests
  /\ pc' = "hash"
  /\ UNCHANGED <<world, sidecar, dirp, file, new, held, snap, leaked, history,
                 mishaps>>

\* fopen in MD5File succeeds: the read begins.
BeginRead ==
  /\ Present(file) /\ CanOpen(1)
  /\ held' = {content[file]} /\ snap' = ver[file]

\* What MD5File computes: the digest of the file if it kept still during the
\* read, else that of one of the contents it had or of a mixture of them.
Hashed(d) ==
  \/ \E c \in held : d = Digest[c]
  \/ d = Digest[Mixed] /\ \E c1, c2 \in held : c1 # c2

\* Mutant: MD5File returns 0 when it succeeds.
MD5FileResultZero == 0

\* MD5File returns 1 when it has stored a digest, and scanDirectory compares as
\* many characters as MD5File returns.
MD5FileResult == 1

HashFile ==
  /\ pc = "hash"
  /\ BeginRead
  /\ pc' = "hashing"
  /\ UNCHANGED <<world, sidecar, dirp, file, old, new, leaked, history,
                 mishaps>>

\* MD5File cannot open the file and returns 0: strncmp compares no character
\* and finds no difference.
HashFileFails ==
  /\ pc = "hash"
  /\ ~ (Present(file) /\ CanOpen(1))
  /\ Continue
  /\ old' = None
  /\ UNCHANGED <<world, sidecar, dirp, new, held, snap, leaked, history,
                 mishaps>>

Compare ==
  /\ pc = "hashing" /\ file \notin Dirs
  /\ \E d \in Digests :
       /\ Hashed(d)
       /\ IF SameUpTo(MD5FileResult, d, old)
            THEN Continue
            ELSE pc' = "lsof" /\ file' = file
  /\ old' = None /\ held' = {} /\ snap' = 0
  /\ UNCHANGED <<world, sidecar, dirp, new, leaked, history, mishaps>>

\* Mutant: MD5File gives up when fread fails.
ReadErrorGivesUp ==
  /\ pc \in {"hashing", "rehashing"} /\ file \in Dirs
  /\ Continue
  /\ old' = None /\ held' = {} /\ snap' = 0
  /\ UNCHANGED <<world, sidecar, dirp, new, leaked, history, mishaps>>

\* On a directory fread fails without reaching the end of file, and the loop
\* of MD5File, which ends only at the end of file, reads again.
ReadError ==
  /\ pc \in {"hashing", "rehashing"} /\ file \in Dirs
  /\ UNCHANGED vars

-----------------------------------------------------------------------------
(* checkOpen(): "/usr/bin/lsof |grep <file>".                              *)

Busy(f) == \E g \in GrepHits[f] : opened[g]

\* Mutant: no pipe counts as "nobody has it open".
CheckOpenFailsIdle ==
  /\ pc = "lsof"
  /\ \/ ~ CanOpen(2) /\ UNCHANGED mishaps
     \/ mishaps < MaxMishaps /\ mishaps' = mishaps + 1
  /\ pc' = "gen"
  /\ UNCHANGED <<world, sidecar, dirp, file, buffers, leaked, history>>

\* popen has no descriptors for its pipe, or cannot fork: "open".
CheckOpenFails ==
  /\ pc = "lsof"
  /\ \/ ~ CanOpen(2) /\ UNCHANGED mishaps
     \/ mishaps < MaxMishaps /\ mishaps' = mishaps + 1
  /\ Continue
  /\ UNCHANGED <<world, sidecar, dirp, buffers, leaked, history>>

\* A line was read: return 1, without pclose.
CheckOpenBusy ==
  /\ pc = "lsof"
  /\ CanOpen(2) /\ Busy(file)
  /\ leaked' = leaked + 1
  /\ Continue
  /\ UNCHANGED <<world, sidecar, dirp, buffers, history, mishaps>>

\* Mutant: "return pclose(fp)", which is grep's exit status: 1 for no match.
CheckOpenIdleInverted ==
  /\ pc = "lsof"
  /\ CanOpen(2) /\ ~ Busy(file)
  /\ Continue
  /\ UNCHANGED <<world, sidecar, dirp, buffers, leaked, history, mishaps>>

CheckOpenIdle ==
  /\ pc = "lsof"
  /\ CanOpen(2) /\ ~ Busy(file)
  /\ pc' = "gen"
  /\ UNCHANGED <<world, sidecar, dirp, file, buffers, leaked, history,
                 mishaps>>

-----------------------------------------------------------------------------
(* genMD5(): hash the file again and store the digest.  Its result is      *)
(* ignored, so doScript follows however it ended.                          *)

GenMD5 ==
  /\ pc = "gen"
  /\ BeginRead
  /\ pc' = "rehashing"
  /\ UNCHANGED <<world, sidecar, dirp, file, old, new, leaked, history,
                 mishaps>>

GenMD5Fails ==
  /\ pc = "gen"
  /\ ~ (Present(file) /\ CanOpen(1))
  /\ pc' = "script"
  /\ UNCHANGED <<world, sidecar, dirp, file, buffers, leaked, history,
                 mishaps>>

Rehashed ==
  /\ pc = "rehashing" /\ file \notin Dirs
  /\ \E d \in Digests : Hashed(d) /\ new' = d
  /\ held' = {}
  /\ pc' = "store"
  /\ UNCHANGED <<world, sidecar, dirp, file, old, snap, leaked, history,
                 mishaps>>

\* md5fileop(OPCODE_WRITE): fopen "wb" truncates the sidecar ...
TruncateSidecar ==
  /\ pc = "store"
  /\ file \notin ReadOnly /\ CanOpen(1)
  /\ sidecar' = [sidecar EXCEPT ![file] = Empty]
  /\ pc' = "flush"
  /\ UNCHANGED <<world, dirp, file, buffers, leaked, history, mishaps>>

\* Mutant: doScript only if genMD5 succeeded.
TruncateFailsNoScript ==
  /\ pc = "store"
  /\ file \in ReadOnly \/ ~ CanOpen(1)
  /\ Continue
  /\ new' = None /\ snap' = 0
  /\ UNCHANGED <<world, sidecar, dirp, old, held, leaked, history, mishaps>>

TruncateFails ==
  /\ pc = "store"
  /\ file \in ReadOnly \/ ~ CanOpen(1)
  /\ pc' = "script"
  /\ new' = None /\ snap' = 0
  /\ UNCHANGED <<world, sidecar, dirp, file, old, held, leaked, history,
                 mishaps>>

\* The data go to the file that was opened: if it has been removed since, nowhere.
WriteOut ==
  IF sidecar[file] = NoSidecar
    THEN UNCHANGED <<sidecar, recVer>>
    ELSE /\ sidecar' = [sidecar EXCEPT ![file] = new]
         /\ recVer' = [recVer EXCEPT ![file] = snap]

\* Mutant: doScript only if genMD5 did not succeed.
FlushSidecarNoScript ==
  /\ pc = "flush"
  /\ WriteOut
  /\ Continue
  /\ new' = None /\ snap' = 0
  /\ UNCHANGED <<world, dirp, old, held, leaked, runVer, runs, lost, mishaps>>

\* ... and fclose writes the buffered digest out.
FlushSidecar ==
  /\ pc = "flush"
  /\ WriteOut
  /\ pc' = "script"
  /\ new' = None /\ snap' = 0
  /\ UNCHANGED <<world, dirp, file, old, held, leaked, runVer, runs, lost,
                 mishaps>>

\* The disk is full: nobody looks at what fwrite and fclose return.
FlushFails ==
  /\ pc = "flush"
  /\ mishaps < MaxMishaps /\ mishaps' = mishaps + 1
  /\ pc' = "script"
  /\ new' = None /\ snap' = 0
  /\ runs' = [runs EXCEPT ![file] = 0]
  /\ UNCHANGED <<world, sidecar, dirp, file, old, held, leaked, recVer,
                 runVer, lost>>

-----------------------------------------------------------------------------
(* doScript(): system() starts the script and waits for it.                *)

ScriptStart ==
  /\ pc = "script"
  /\ runVer' = [runVer EXCEPT ![file] = ver[file]]
  /\ runs' = [runs EXCEPT ![file] = IF @ < MaxRuns THEN @ + 1 ELSE @]
  /\ lost' = [lost EXCEPT ![file] = FALSE]
  /\ pc' = "running"
  /\ UNCHANGED <<world, sidecar, dirp, file, buffers, leaked, recVer, mishaps>>

\* system() returns -1: logged, and scanDirectory ignores it.
ScriptNotStarted ==
  /\ pc = "script"
  /\ mishaps < MaxMishaps /\ mishaps' = mishaps + 1
  /\ lost' = [lost EXCEPT ![file] = TRUE]
  /\ Continue
  /\ UNCHANGED <<world, sidecar, dirp, buffers, leaked, recVer, runVer, runs>>

ScriptEnds ==
  /\ pc = "running"
  /\ Continue
  /\ UNCHANGED <<world, sidecar, dirp, buffers, leaked, history, mishaps>>

\* The script's exit status is ignored too.
ScriptExitsNonZero ==
  /\ pc = "running"
  /\ mishaps < MaxMishaps /\ mishaps' = mishaps + 1
  /\ lost' = [lost EXCEPT ![file] = TRUE]
  /\ Continue
  /\ UNCHANGED <<world, sidecar, dirp, buffers, leaked, recVer, runVer, runs>>

-----------------------------------------------------------------------------
(* The rest of the machine.                                                *)

\* The process dies and is started again: its descriptors are closed, the
\* sidecars stay as they are.  A script that was running goes on by itself.
Restart ==
  /\ mishaps < MaxMishaps /\ mishaps' = mishaps + 1
  /\ pc' = "sleep"
  /\ entry' = 1 /\ pending' = {} /\ returned' = {}
  /\ file' = None /\ old' = None /\ new' = None /\ held' = {} /\ snap' = 0
  /\ leaked' = 0
  /\ lost' = [f \in Files |-> lost[f] \/ (pc = "script" /\ file = f)]
  /\ runs' = [f \in Files |-> 0]
  /\ UNCHANGED <<world, sidecar, recVer, runVer>>

OpenFile(f) ==
  /\ f \notin Dirs /\ Present(f) /\ ~ opened[f]
  /\ opened' = [opened EXCEPT ![f] = TRUE]
  /\ UNCHANGED <<content, ver, sidecar, pc, dirp, file, buffers, leaked,
                 history, mishaps>>

CloseFile(f) ==
  /\ opened[f]
  /\ opened' = [opened EXCEPT ![f] = FALSE]
  /\ UNCHANGED <<content, ver, sidecar, pc, dirp, file, buffers, leaked,
                 history, mishaps>>

\* f gets its next version.
NewVersion(f, c) ==
  /\ ver[f] < MaxVer
  /\ c \in Bodies[ver[f] + 1]
  /\ content' = [content EXCEPT ![f] = c]
  /\ ver' = [ver EXCEPT ![f] = @ + 1]
  /\ runs' = [runs EXCEPT ![f] = 0]

\* A program that has the file open changes it in place, under the eyes of
\* anyone who is reading it.
WriteFile(f, c) ==
  /\ opened[f] /\ c # Absent
  /\ NewVersion(f, c)
  /\ held' = IF Reading(f) THEN held \cup {c} ELSE held
  /\ UNCHANGED <<opened, sidecar, pc, dirp, file, old, new, snap, leaked,
                 recVer, runVer, lost, mishaps>>

\* The file or directory is created, removed, or replaced by rename; whoever is
\* reading it keeps the old inode.
ReplaceFile(f, c) ==
  /\ ~ opened[f] /\ (Present(f) \/ c # Absent)
  /\ NewVersion(f, c)
  /\ UNCHANGED <<opened, sidecar, pc, dirp, file, buffers, leaked, recVer,
                 runVer, lost, mishaps>>

\* "rm *.md5", as the Makefile's test targets do.
RemoveSidecar(f) ==
  /\ sidecar[f] # NoSidecar
  /\ mishaps < MaxMishaps /\ mishaps' = mishaps + 1
  /\ sidecar' = [sidecar EXCEPT ![f] = NoSidecar]
  /\ runs' = [runs EXCEPT ![f] = 0]
  /\ UNCHANGED <<world, pc, dirp, file, buffers, leaked, recVer, runVer, lost>>

-----------------------------------------------------------------------------
Daemon ==
  \/ WakeUp
  \/ OpenDir \/ OpenDirFails \/ CloseDir
  \/ \E f \in Files : ReadDir(f)
  \/ ReadOldDigest \/ FillOld
  \/ HashFile \/ HashFileFails \/ Compare \/ ReadError
  \/ CheckOpenFails \/ CheckOpenBusy \/ CheckOpenIdle
  \/ GenMD5 \/ GenMD5Fails \/ Rehashed
  \/ TruncateSidecar \/ TruncateFails \/ FlushSidecar \/ FlushFails
  \/ ScriptStart \/ ScriptNotStarted

Script == ScriptEnds \/ ScriptExitsNonZero

Environment ==
  \/ Restart
  \/ \E f \in Files :
       \/ OpenFile(f) \/ CloseFile(f) \/ RemoveSidecar(f)
       \/ \E c \in Contents \cup {Absent} : WriteFile(f, c) \/ ReplaceFile(f, c)

Next == Daemon \/ Script \/ Environment

Spec == Init /\ [][Next]_vars

\* The process is scheduled; a script may run for ever.
FairSpec == Spec /\ WF_vars(Daemon)
-----------------------------------------------------------------------------
(* Properties.                                                             *)

Labels == {"sleep", "opendir", "readdir", "readold", "fread", "hash", "hashing",
           "lsof", "gen", "rehashing", "store", "flush", "script", "running"}

\* The places where scanDirectory works on one name.
AtFile == Labels \ {"sleep", "opendir", "readdir"}

\* Every variable has its type, and a file is being worked on exactly where
\* scanDirectory is inside the body of its readdir loop.
TypeOK ==
  /\ content \in [Files -> Contents \cup {Absent}]
  /\ ver \in [Files -> 1..MaxVer]
  /\ opened \in [Files -> BOOLEAN]
  /\ sidecar \in [Files -> Digests \cup {Empty, NoSidecar}]
  /\ pc \in Labels
  /\ entry \in Folders
  /\ pending \in SUBSET Files /\ returned \in SUBSET Files
  /\ file \in Files \cup {None}
  /\ (file \in Files) <=> (pc \in AtFile)
  /\ old \in Digests \cup {None}
  /\ pc \in {"fread", "hash", "hashing"} => old \in Digests
  /\ new \in Digests \cup {None}
  /\ pc \in {"store", "flush"} => new \in Digests
  /\ held \in SUBSET Contents
  /\ leaked \in 0..FreeFds
  /\ snap \in 0..MaxVer
  /\ recVer \in [Files -> 0..MaxVer]
  /\ runVer \in [Files -> 0..MaxVer]
  /\ runs \in [Files -> 0..MaxRuns]
  /\ lost \in [Files -> BOOLEAN]
  /\ mishaps \in 0..MaxMishaps

\* A digest on disk silences the watcher, so it must never be newer than what
\* a script has seen: if the digest of a version was stored, then a script was
\* started on that version or a later one, or its start is the next thing the
\* process does, or that start failed (or was cut off by a crash).  This is
\* what the order "genMD5, then doScript" is for.
NoChangeSwallowed ==
  \A f \in Files :
    recVer[f] > runVer[f] => lost[f] \/ (pc = "script" /\ file = f)

\* checkOpen leaks a stream each time it finds a file open.  The leak stops
\* while opendir and fopen still find a descriptor each ...
LeakStopsShort == CanOpen(1)

\* ... but from then on the watcher is mute: it goes on scanning and hashing,
\* and takes no file past checkOpen until it is restarted.
ExhaustedIsMute ==
  Exhausted => pc \notin {"gen", "rehashing", "store", "flush", "script",
                          "running"}

\* A version is handed to the script at most twice: a second time only when the
\* first run began after its digest had been taken.  (Not where the sidecar
\* cannot be written; and a crash, a full disk or a removed sidecar starts the
\* count again.)
AtMostTwice == \A f \in Files \ ReadOnly : runs[f] <= 2

\* system() has no timeout: a script that does not end stops the sweep of every
\* folder.  What follows says that nothing else does.
ScriptHangs == <>[](pc = "running")

\* Once nobody has f or a name that greps like it open any more, the script ends
\* up having been started on the last version of f, unless f is gone, a start or
\* run failed, or the descriptors are used up.
Handled(f) == runVer[f] = ver[f] \/ ~ Present(f) \/ lost[f] \/ Exhausted

LastVersionHandled ==
  \A f \in UNION {Match[i] : i \in Folders \ Missing} :
    <>[](~ Busy(f)) => ScriptHangs \/ <>[]Handled(f)

\* No file keeps the watcher running its script again and again.
FallsSilent ==
  \A f \in Files \ ReadOnly : ScriptHangs \/ <>[](~ (pc = "running" /\ file = f))

\* Where the sidecar cannot be written the script runs again in every sweep, for
\* as long as the file is there and nobody has it open.
RunsEverySweep ==
  \A f \in ReadOnly :
    <>[](Present(f) /\ ~ Busy(f)) =>
      \/ ScriptHangs
      \/ []<>(pc = "running" /\ file = f)
      \/ <>[]Exhausted

\* The watcher implements the abstract notifier: a run is due exactly when
\* doScript is the next thing it calls.
Due == IF pc = "script" THEN {file} ELSE {}

Abstract == INSTANCE Notifier WITH owed <- Due

ImplementsNotifier == Abstract!Spec

\* filewatch.c:335, "new md5 means file changed": a file whose digest differs
\* from the stored one is treated as changed.
NewDigestNoticed ==
  [][pc = "hashing" /\ pc' = "readdir" => Hashed(old)]_vars
=============================================================================
