------------------------------ MODULE Sidecars ------------------------------
(***************************************************************************)
(* scanDirectory of filewatch.c where the pattern matches the sidecars it  *)
(* writes, as "f*" does: the digest of f is stored in f.md5, which is then *)
(* a file to watch itself, with the sidecar f.md5.md5, and so on.  Name k  *)
(* is f with k times ".md5" appended, so that what is stored for name k is *)
(* what name k + 1 holds.  The calls are those of FileWatch, here for one  *)
(* folder; a call that fails may fail at any time.                         *)
(***************************************************************************)
EXTENDS Naturals

CONSTANTS
  MaxLevel,   \* bound: the longest name that fits szFile
  Contents,   \* what a name may hold, digests among them
  Mixed,      \* the content a reader sees when it overlaps a writer
  Empty,      \* what a file of length zero holds
  Absent,     \* the "content" of a name that does not exist
  Bodies,     \* what f may be
  Digest,     \* MD5 of a content
  First,      \* the first digit of a digest, all that strncmp compares
  None,       \* no value
  MaxVer,     \* bound: versions of f
  MaxMishaps  \* bound: failures and removals, of every name

Levels == 0..MaxLevel

ASSUME SidecarsAssumption ==
  /\ MaxLevel \in Nat \ {0} /\ MaxVer \in Nat \ {0} /\ MaxMishaps \in Nat
  /\ Absent \notin Contents /\ {Mixed, Empty} \subseteq Contents
  /\ None \notin Levels
  /\ Bodies \subseteq Contents \cup {Absent}
  /\ Digest \in [Contents -> Contents \ {Empty}]

VARIABLES
  content,    \* content[k]: what name k holds
  ver,        \* how many versions f has had
  pc,         \* the next call
  returned,   \* the names readdir has returned
  file,       \* szFile: the name in hand
  old, new,   \* szMD5Old of scanDirectory, szMD5New of genMD5
  held,       \* the contents the inode MD5File is reading has had meanwhile
  \* history, of this sweep
  first,      \* the names there were at opendir
  touched,    \* the names written or removed since
  hindered,   \* something failed, a file was in use, or a name went away
  \* history, of all sweeps
  handled,    \* handled[k]: how often checkOpen let name k pass
  mishaps     \* mishaps[k]: failures and removals that make name k be handled again

buffers == <<old, new, held>>
dirp == <<returned, first, touched>>
vars == <<content, ver, pc, dirp, file, buffers, hindered, handled, mishaps>>

Present(k) == content[k] # Absent

Init ==
  /\ content \in {[k \in Levels |-> IF k = 0 THEN c ELSE Absent] : c \in Bodies}
  /\ ver = 1 /\ pc = "sleep" /\ file = None
  /\ old = None /\ new = None /\ held = {}
  /\ returned = {} /\ first = {} /\ touched = {} /\ hindered = FALSE
  /\ handled = [k \in Levels |-> 0] /\ mishaps = [k \in Levels |-> 0]

\* Something makes name k be handled again.
Mishap(k) == mishaps[k] < MaxMishaps /\ mishaps' = [mishaps EXCEPT ![k] = @ + 1]

-----------------------------------------------------------------------------
(* The directory stream.  A name that is created while it is open may or   *)
(* may not be returned.                                                    *)

\* The model ends where the longest name exists.
OpenDir ==
  /\ pc = "sleep" /\ ~ Present(MaxLevel)
  /\ pc' = "readdir"
  /\ first' = {k \in Levels : Present(k)}
  /\ returned' = {} /\ touched' = {} /\ hindered' = FALSE
  /\ UNCHANGED <<content, ver, file, buffers, handled, mishaps>>

ReadDir(k) ==
  /\ pc = "readdir"
  /\ k < MaxLevel /\ k \notin returned
  /\ k \in first \/ Present(k)
  /\ returned' = returned \cup {k} /\ file' = k
  /\ pc' = "readold"
  /\ UNCHANGED <<content, ver, first, touched, buffers, hindered, handled, mishaps>>

\* Every name that was there at opendir and still is has been returned.
SweepOver == pc = "readdir" /\ \A k \in first \ returned : ~ Present(k)

CloseDir ==
  /\ SweepOver
  /\ pc' = "sleep"
  /\ UNCHANGED <<content, ver, dirp, file, buffers, hindered, handled, mishaps>>

Continue == pc' = "readdir" /\ file' = None

-----------------------------------------------------------------------------
(* Does name k hold another content than the one its sidecar tells of?     *)

ReadOldDigest ==
  /\ pc = "readold"
  /\ IF content[file + 1] \in {Absent, Empty}
       THEN pc' = "lsof" /\ old' = None
       ELSE pc' = "hash" /\ old' = content[file + 1]
  /\ UNCHANGED <<content, ver, dirp, file, new, held, hindered, handled, mishaps>>

\* A sidecar that cannot be opened counts as none.
ReadOldFails ==
  /\ pc = "readold"
  /\ Mishap(file)
  /\ pc' = "lsof"
  /\ UNCHANGED <<content, ver, dirp, file, buffers, hindered, handled>>

HashFile ==
  /\ pc = "hash" /\ Present(file)
  /\ held' = {content[file]}
  /\ pc' = "hashing"
  /\ UNCHANGED <<content, ver, dirp, file, old, new, hindered, handled, mishaps>>

\* MD5File cannot open the file: no character is compared.
HashFails ==
  /\ pc = "hash"
  /\ Continue
  /\ old' = None /\ hindered' = TRUE
  /\ UNCHANGED <<content, ver, dirp, new, held, handled, mishaps>>

\* The digest of a content the file had during the read, or of a mixture.
Hashed(d) ==
  \/ \E c \in held : d = Digest[c]
  \/ d = Digest[Mixed] /\ \E c1, c2 \in held : c1 # c2

\* Mutant: "strncmp(...) != 0".
CompareInverted ==
  /\ pc = "hashing"
  /\ \E d \in Contents :
       /\ Hashed(d)
       /\ IF First[d] # First[old] THEN Continue ELSE pc' = "lsof" /\ file' = file
  /\ old' = None /\ held' = {}
  /\ UNCHANGED <<content, ver, dirp, new, hindered, handled, mishaps>>

Compare ==
  /\ pc = "hashing"
  /\ \E d \in Contents :
       /\ Hashed(d)
       /\ IF First[d] = First[old] THEN Continue ELSE pc' = "lsof" /\ file' = file
  /\ old' = None /\ held' = {}
  /\ UNCHANGED <<content, ver, dirp, new, hindered, handled, mishaps>>

-----------------------------------------------------------------------------
(* checkOpen, genMD5 and doScript.                                         *)

\* Somebody has a file open whose line greps as this name, or there is no pipe.
CheckOpenNotIdle ==
  /\ pc = "lsof"
  /\ Continue
  /\ hindered' = TRUE
  /\ UNCHANGED <<content, ver, dirp, buffers, handled, mishaps>>

\* Mutant: "return pclose(fp)", which is grep's exit status: 1 for no match.
CheckOpenIdleInverted ==
  /\ pc = "lsof"
  /\ Continue
  /\ UNCHANGED <<content, ver, dirp, buffers, hindered, handled, mishaps>>

CheckOpenIdle ==
  /\ pc = "lsof"
  /\ handled' = [handled EXCEPT ![file] = @ + 1]
  /\ pc' = "gen"
  /\ UNCHANGED <<content, ver, dirp, file, buffers, hindered, mishaps>>

GenMD5 ==
  /\ pc = "gen" /\ Present(file)
  /\ held' = {content[file]}
  /\ pc' = "rehashing"
  /\ UNCHANGED <<content, ver, dirp, file, old, new, hindered, handled, mishaps>>

\* MD5File cannot open the file, which is gone or for another cause; the script runs.
GenMD5Fails ==
  /\ pc = "gen"
  /\ IF Present(file) THEN Mishap(file) ELSE UNCHANGED mishaps
  /\ pc' = "script" /\ hindered' = TRUE
  /\ UNCHANGED <<content, ver, dirp, file, buffers, handled>>

Rehashed ==
  /\ pc = "rehashing"
  /\ \E d \in Contents : Hashed(d) /\ new' = d
  /\ held' = {}
  /\ pc' = "store"
  /\ UNCHANGED <<content, ver, dirp, file, old, hindered, handled, mishaps>>

\* fopen "wb" creates or truncates the sidecar ...
TruncateSidecar ==
  /\ pc = "store"
  /\ content' = [content EXCEPT ![file + 1] = Empty]
  /\ touched' = touched \cup {file + 1}
  /\ pc' = "flush"
  /\ UNCHANGED <<ver, returned, first, file, buffers, hindered, handled, mishaps>>

\* ... and fclose writes the digest to it, unless it has been removed meanwhile.
FlushSidecar ==
  /\ pc = "flush"
  /\ content' = [content EXCEPT ![file + 1] = IF @ = Absent THEN Absent ELSE new]
  /\ pc' = "script" /\ new' = None
  /\ UNCHANGED <<ver, dirp, file, old, held, hindered, handled, mishaps>>

\* The sidecar cannot be opened for writing, or the disk is full: the script runs.
StoreFails ==
  /\ pc \in {"store", "flush"}
  /\ Mishap(file)
  /\ pc' = "script" /\ new' = None /\ hindered' = TRUE
  /\ UNCHANGED <<content, ver, dirp, file, old, held, handled>>

DoScript ==
  /\ pc = "script"
  /\ Continue
  /\ UNCHANGED <<content, ver, dirp, buffers, hindered, handled, mishaps>>

-----------------------------------------------------------------------------
(* The rest of the machine.                                                *)

\* The process dies and is started again.  That costs a run where it dies before the
\* digest is stored.
Restart ==
  /\ IF pc \in {"gen", "rehashing", "store", "flush"} THEN Mishap(file)
                                                      ELSE UNCHANGED mishaps
  /\ pc' = "sleep" /\ file' = None
  /\ old' = None /\ new' = None /\ held' = {}
  /\ UNCHANGED <<content, ver, dirp, hindered, handled>>

\* f is written in place, and a reader may see it; or created, removed or replaced.
Change(c) ==
  /\ ver < MaxVer /\ ver' = ver + 1
  /\ content' = [content EXCEPT ![0] = c]
  /\ touched' = touched \cup {0}
  /\ \/ held' = held
     \/ file = 0 /\ held # {} /\ c # Absent /\ held' = held \cup {c}
  /\ UNCHANGED <<pc, returned, first, file, old, new, hindered, handled, mishaps>>

\* "rm *.md5", as the Makefile's test targets do, of one sidecar.
RemoveSidecar(k) ==
  /\ k < MaxLevel /\ Present(k + 1)
  /\ Mishap(k)
  /\ content' = [content EXCEPT ![k + 1] = Absent]
  /\ touched' = touched \cup {k + 1} /\ hindered' = TRUE
  /\ UNCHANGED <<ver, pc, returned, first, file, buffers, handled>>

-----------------------------------------------------------------------------
Next ==
  \/ OpenDir \/ CloseDir
  \/ ReadOldDigest \/ ReadOldFails \/ HashFile \/ HashFails \/ Compare
  \/ CheckOpenNotIdle \/ CheckOpenIdle
  \/ GenMD5 \/ GenMD5Fails \/ Rehashed
  \/ TruncateSidecar \/ FlushSidecar \/ StoreFails \/ DoScript
  \/ Restart
  \/ \E k \in Levels : ReadDir(k) \/ RemoveSidecar(k)
  \/ \E c \in Bodies : Change(c)

Spec == Init /\ [][Next]_vars
-----------------------------------------------------------------------------
(* Properties.                                                             *)

InHand == {"readold", "hash", "hashing", "lsof", "gen", "rehashing", "store", "flush",
           "script"}

TypeOK ==
  /\ content \in [Levels -> Contents \cup {Absent}]
  /\ ver \in Nat /\ pc \in InHand \cup {"sleep", "readdir"}
  /\ IF pc \in InHand THEN file \in 0..(MaxLevel - 1) ELSE file = None
  /\ old \in Contents \cup {None} /\ new \in Contents \cup {None}
  /\ pc \in {"hash", "hashing"} => old \in Contents
  /\ pc \in {"store", "flush"} => new \in Contents
  /\ held \in SUBSET Contents
  /\ (pc \in {"hashing", "rehashing"}) <=> (held # {})
  /\ returned \in SUBSET Levels /\ first \in SUBSET Levels /\ touched \in SUBSET Levels
  /\ hindered \in BOOLEAN
  /\ handled \in [Levels -> Nat] /\ mishaps \in [Levels -> Nat]

\* The sidecar of name k tells of what name k holds, as far as strncmp looks.
Agrees(k) == First[content[k + 1]] = First[Digest[content[k]]]

\* Unless something failed, a file was in use or a sidecar was removed, a sweep leaves
\* each name it met with a sidecar, which agrees with it unless that name was written
\* since the sweep began, as it is when a shorter name is handled after it.  So every
\* such sweep adds a name, without end (filewatch.c:314-364).
GrowsEverySweep ==
  SweepOver /\ ~ hindered =>
    /\ \A k \in first \cap returned : Present(k + 1) /\ (k \in touched \/ Agrees(k))
    /\ first \cap returned # {} => \E k \in Levels \ first : Present(k)

\* A change of f travels up name by name, for each digest stored changes the name that
\* holds it.  But f is handled no more often than it has had versions, and a name no
\* more often than the one below it, apart from the failures and removals it met
\* (filewatch.c:341-359).
CascadeBounded ==
  \A k \in Levels : handled[k] <= (IF k = 0 THEN ver ELSE handled[k - 1]) + mishaps[k]
=============================================================================
