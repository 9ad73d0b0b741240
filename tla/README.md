# filewatch in TLA+

filewatch is a daemon.  Every `sleep_time` seconds it looks at the files that
match a pattern in each of some folders, and runs a script on each file whose
MD5 digest is not the one stored beside it in a `.md5` file, the file's
*sidecar*.  Its configuration is read by libconfig 1.4.8, whose source is in the
tree and is most of its code.  This directory models both, checks the models
with TLC, and proves their main properties with TLAPS.

Line numbers are those of `src/filewatch.c` unless a file is named; libconfig's
files are in `src/libconfig-1.4.8/lib/`.

## 1. The system

| part | where | state | operations |
|---|---|---|---|
| sweep | `main` 144-182, `scanDirectory` 297-371 | folder index, directory stream, current name, digests read and computed | next folder, opendir, readdir, closedir, compare, sleep |
| sidecar | `md5fileop` 223-263, `genMD5` 282-295 | the `.md5` files | read, truncate, write out |
| open-file test | `checkOpen` 185-209 | popen streams left open | ask `lsof \| grep` |
| script runner | `doScript` 265-280 | - | run and wait |
| file digest | `md5c.c` `MD5File` 327-384 | read position, MD5 context | read, update, finish |
| MD5 buffering | `md5c.c` 103-192, `Encode` 294-307 | count of bits, 64-byte buffer, state | init, update, final |
| MD5 rounds | `md5c.c` `MD5Transform` 197-288 | four words | mix one block in |
| start-up | `main` 50-142 | configuration, working directory, session, descriptors | parse, fork, setsid, chdir, close, look up |
| ini reader | `inifile.c` | read position, line buffer | find section, find parameter; in no build rule |
| settings | `libconfig.c` | tree of structures on the heap | add, set, get, remove, destroy |
| values | `libconfig.c` | type, value, format | setters, getters, conversions |
| lookups | `libconfig.c` 1139-1168 | position in path and tree | walk a path |
| scanner | `scanner.c` (from `scanner.l`) | buffers, start condition, include stack | match, refill, include |
| parser | `grammar.c` (from `grammar.y`) | state and value stacks, the tree so far | shift, reduce, act |
| writer | `libconfig.c` | - | a configuration to text |
| files | `libconfig.c`, `scanctx.c` | streams, file names, error fields, options | read, include, write |
| C++ library | `libconfigcpp.c++` | objects that hang on settings as hooks | wrap, cast, assign, add, remove |
| locale | `libconfig.c` 90-125 | the thread's locale | override, restore |
| logging | `locallog` 212-221 | - | syslog, printf |
| event printer | `print_event` 380-399 | - | only with `INOTIFY`, never called |
| tests | `tests/`, Makefile | two folders whose scripts feed each other | run by hand |

The daemon is one thread, and everything it shares with others is in the file
system: the watched files, which other programs create, write, rename and
remove at any time; and the sidecars, which survive the process.
`scanDirectory` calls, for each name: `md5fileop` (read the sidecar),
`MD5File`, and when the digests differ or there is none `checkOpen`, `genMD5`
(`MD5File` once more, then `md5fileop` to store), `doScript`.  It ignores what
`genMD5` and `doScript` return.  `main` reads the configuration once, and looks
its strings up again in every sweep.

In libconfig, `config_read` hands a buffer to the parser, which calls the
scanner for each token and adds settings to the tree as it reduces.  The
scanner opens included files in the middle of that.  The C++ library hangs an
object on each setting it has shown to the program, and has the C library call
it back when the setting goes.

What makes it hard:

* Between any two calls of `scanDirectory` the file may change, be opened, or go
  away; lsof's answer, the digest stored and what the script sees can be about
  three different versions.
* The digest is stored before the script runs.  A crash or a failure between
  the two, or inside the store, is seen only by the next sweep, or by another
  watcher that shares the sidecar without a lock.
* A file that is written while it is read digests as neither version.
* `checkOpen` leaks a stream for each file it finds open (202), so a long run
  of ordinary events changes what later calls do.
* `MD5File` returns 1, and 1 is the number of characters compared (325); its
  loop ends at end of file only (`md5c.c`:354).
* A token may lie across the end of a buffer, of a file, or of a read.
* A read that fails does so with files open, strings allocated and a tree half
  built, several includes deep.
* Nothing records how long a vector of settings is; hooks, names and parents
  are pointers that every removal has to keep true.
* Numbers of four types are converted into each other, with and without being
  asked.

`PROJECT.json` lists the hazards at their lines with the properties about them.

## 2. Modules

| module | models | run |
|---|---|---|
| `FileWatch` | sweep, sidecar, open-file test, script runner, and their environment | `core`, `live` |
| `Notifier` | what the watcher promises, without folders, descriptors and sweeps | `core` |
| `TwoWatchers` | extends `FileWatch` by a second instance over the same files | `two` |
| `MD5Stream` | `MD5File`'s read loop over `MD5Init`, `MD5Update`, `MD5Final` | `md5` |
| `MD5Words` | `MD5Transform`, `Decode`, `Encode`, bit by bit | `md5` |
| `Startup` | `main` around the scan | `daemon` |
| `Sidecars` | the sweep where the pattern matches sidecars too | `daemon` |
| `IniFile` | `ReadIniArg` | `daemon` |
| `Daemon` | extends `Sidecars`, beside `Startup` and `IniFile` | `daemon` |
| `Settings` | the heap of settings | `settings` |
| `ConfigTree` | the tree of paths the heap implements | `settings` |
| `Scalars` | setters, getters, conversions, formats | `values` |
| `CppValues` | extends `Scalars`: casts, assignments, lookups of C++ | `values` |
| `Lookup` | `config_lookup_from` and the typed lookups | `values` |
| `CppWrapper` | extends `Settings`: the C++ objects | `objects` |
| `ConfigFiles` | reads and writes, includes, file names, errors, options | `files` |
| `ThreadLocale` | the locale of a call among threads | `files` |
| `FilesAndLocales` | extends `ConfigFiles`, beside `ThreadLocale` | `files` |
| `ScannerTables`, `ScannerRules`, `Scanner` | flex's automaton, the rules it was made of, buffers, actions, includes | `reading` |
| `ParserTables`, `Parser` | bison's tables, the language of the manual, engine and actions | `reading` |
| `Writer` | `config_write` | `reading` |
| `RoundTrip` | `Writer`, then `Scanner` and `Parser` composed | `reading` |
| `MC*` | constants, and where a run has several parts the choice between them | |
| `*Proofs` | theorems about the module of that name and those it extends or composes; `SettingsProofs` has those about `CppWrapper`, `ValuesProofs` those about `Scalars`, `CppValues` and `Lookup`, `FileWatchProofs` those about `TwoWatchers` | |

A module that says `INSTANCE` of several specifications in one run (`Daemon`,
`FilesAndLocales`, `MCMD5`, `MCReading`), or extends two (`MCValues`, `MCReading`), picks one of them in its
initial states by a variable that never changes (`part`, `half`, `what`); the
variables of the others rest.  Their state spaces are added, not multiplied.

### FileWatch

One step is one library or system call whose effect another process can see or
whose answer it can change; a writer's step fits between any two.  `pc` names
the next call.

| C | TLA+ |
|---|---|
| `i`, `dp`, `szFile` | `entry`, `pending` and `returned`, `file` |
| `szMD5Old`, genMD5's `szMD5New` | `old`, `new` |
| `szMD5New` of scanDirectory | the digest chosen in `Compare` |
| the `.md5` files | `sidecar` |
| streams `checkOpen` did not close | `leaked` |
| `MD5File` in progress | `pc = "hashing"` (in scanDirectory) or `"rehashing"` (in genMD5), `held` |
| main's loop 144-179 | `WakeUp`, `NextFolder` |
| opendir, readdir, closedir 309-371 | `OpenDir`, `OpenDirFails`, `ReadDir`, `CloseDir` |
| md5fileop(READ) 229-245 | `ReadOldDigest`, `FillOld` |
| MD5File and strncmp 324-326 | `HashFile`, `HashFileFails`, `Compare`, `ReadError` |
| checkOpen 185-209 | `CheckOpenFails`, `CheckOpenBusy`, `CheckOpenIdle` |
| genMD5 282-295 | `GenMD5`, `GenMD5Fails`, `Rehashed` |
| md5fileop(WRITE) 246-260 | `TruncateSidecar`, `TruncateFails`, `FlushSidecar`, `FlushFails` |
| doScript 265-280 | `ScriptStart`, `ScriptNotStarted`, `ScriptEnds`, `ScriptExitsNonZero` |

The environment opens and closes files, writes them in place, replaces, creates
and removes them, and directories (`ReplaceFile`), removes sidecars as the Makefile's test
targets do, and kills and restarts the daemon.

A file has *versions*, numbered; `Bodies[v]` says what version v may hold.
`snap`, `recVer`, `runVer`, `runs`, `lost` are history: which version `MD5File`
began to read, whose digest was stored last, which one the last script was
started on, how often a script was started since the file or its sidecar was
touched, and whether the run last owed was not started or failed.  No action's
guard reads them.

Abstractions: a content is a model value and MD5 is a constant function
`Digest` from contents to sequences of digits; a read that overlaps a write
yields the digest of one of the contents or of one further content, `Mixed`;
fnmatch is the constant `Match`, and which lines of lsof's output a name greps
in is `GrepHits`.  lsof looks at all files at one instant.  Sidecars are written
by watchers alone and hold a digest, nothing, or are missing.  Calls fail for
the reasons named in the model (missing, unwritable, no descriptors, disk full,
no process) and for no others.  `ReadError` is the read of a matched directory,
which `MD5File`'s loop never leaves.

`Notifier` has five actions over the versions: a file changes; a digest is
stored and a run becomes due; a run becomes due without one; the due run
starts; it is dropped, or fails, on record.  In `FileWatch` a run is due when
`pc = "script"`.

`TwoWatchers` takes each step from one of two instances, of which the first is
`FileWatch` with its own variables; a write or an open is
one step of both.

A sidecar that another watcher truncates between the `ftell` and the `fread` of
md5fileop gives nothing, and what the buffer held stays in it: `FillOld` has a
step of its own for that reason.  A sidecar removed between `fopen` and `fclose`
stays removed (`WriteOut`).

### Sidecars, Daemon

`Sidecars` has the same calls for one folder whose pattern matches sidecars:
name k is the file with `.md5` appended k times, so what is stored for name k is
what name k + 1 holds, and to store it is to write a file the sweep itself may
be about to read.  Each call is a step.  `checkOpen` may find any name open or
have no pipe, hashes and stores may fail and go on to the script as in the code,
the process may die anywhere, sidecars go, f is written while it is read.
Descriptors are not counted here: the leak is one of the reasons for which
`CheckOpenNotIdle` may happen.  The model stops before a sweep that meets the
longest name (`MaxLevel`).  `first`, `touched`, `hindered`, `handled` and
`mishaps` are history: what was there at opendir, what was written since,
whether anything got in the way of this sweep, how often a name was let pass by
`checkOpen`, and how often something happened for which it will be again.  In
`Daemon` this stands beside `Startup` and `IniFile`.

### MD5Stream and MD5Words

In `MD5Stream` the four words of the state are the sequence of blocks that went
into them, so what is checked is exactly what `MD5Transform` is given.  Arrays
are functions from 0; `Copy` is memcpy; the loop over whole blocks (147) is
written with the number of its rounds.  `ReadChunk` is a full fread,
`ReadCutShort` one that failed part-way.  `Word` is the modulus of `UINT4`.

`MD5Words` is the block function with words as sets of bits: `Sum` carries,
`RotateLeft` shifts left by n and right by 32 - n whatever the width is, and
`Lines` is the table of the 64 steps.  `WordBits` is 32 where `unsigned long`
has four bytes and 64 where it has eight.

### Startup, IniFile

`Startup` has `main`'s order of parsing, forking, `setsid`, `chdir`, closing 0
to 2 and looking up `path`, `file`, `script` (`Look`); `fds` is the descriptor
table with the lowest free one handed out next, and `written` collects what the
program's output went to.  `IniFile` takes one `fgets` per step; a line is what
`strstr` and the comparison of keys can tell of it.

### Settings, CppWrapper

| C | TLA+ |
|---|---|
| `config_setting_t` | a record of `heap`, by address |
| `config_list_t` `elements`, `length`, allocated size | `elems`, its length, `cap` |
| `setting->hook`, `config->destructor` | `hook`, `destructor`; `disposed` is history |
| `__config_list_add`, `_remove`, `_search` | `ListAdd`, `ListRemove`, `MemberOf` |
| `config_setting_add`, `set_*_elem`, `set_*` | `Add`, `AppendElem`, `SetValue` |
| `config_setting_remove`, `remove_elem` | `RemoveMember`, `RemoveElem` |
| `config_destroy`, `config_init` | `Reinitialise` |

`ConfigTree` is a function from paths of indices to names and types: put a
child last, give a type, delete a child with all below it, whose younger
siblings move up with all below them, clear.  A heap stands for the tree in
which each setting's path is that of its parent with its own index in the
parent's vector behind it (`PathsOf`, `TreeOf`).
`CppWrapper` adds the objects: `wrapper` maps each to the setting and the type
it keeps.  `PathOf` is `getPath`, `LookedUp` what `config_lookup` finds on such
a path.  A read is `StartRead`, `Parse` for each setting, `EndRead`; one that
fails behind a name leaves a member without a type, the last thing it adds.
Members of groups have names: `config_setting_add` would take NULL for one, which
the manual allows for elements of arrays and lists only (texi:971).

### Scalars, CppValues, Lookup

Numbers are written in halves, so that odd ones are doubles between integers,
over ranges that keep the order of the real ones: a float holds fewer integers
than an int (`Exact`, `Grain`), an int fewer than a long long, a double more
than both.  A conversion out of range is undefined in C and any result here.
`told` and `converted` are history.  `CppValues` keeps in `last` what the last
cast, lookup or assignment was and gave.  `Lookup` walks character by
character, `SkipTokens`, `FindElem` or `FindMember`, `Walk`, `LookupReturn`;
`ReadValue` is the getter of the type that was asked for, which takes the types
in `Gotten`: its own, for an integer both kinds, and with auto-conversion any
number for a number.

### Scanner, Parser, Writer, RoundTrip

`ScannerTables` holds flex's compressed tables, entry for entry; `Row`
unpacks them by the rule the generated code uses.  `ScannerRules` has the rules
of `scanner.l`, the source of those tables, as patterns: each alternative a
sequence of pieces, some characters once, at most once or repeated.  `Reach`
says which beginnings of a text they match, and `Knowledge` what each state of the
automaton knows of them.  `Scan` is one turn of
`yylex`'s loop: the states of the match (`after`) up to where it stops
(`stop`), back to the last that accepts (`Found`), then the rule's action,
which may open an included file, or at the end of the buffer its refilling
(`Refill`, `yy_get_next_buffer`, which moves what is left and grows the
buffer).  The conversion of a number's digits
to its value is left out.

`ParserTables` holds bison's tables, entry for entry, and `ShiftOn` and `GotoOn`
unpack them.  `Can` is the language of `libconfig.texi`, by what may stand next
to what between the brackets of which kind.  `Parser` runs bison's engine on the
tables; `Lex` reads a lookahead when a
state needs one, `Step` shifts, reduces with the semantic action, grows the
stacks, or fails.  `owned` are the strings of tokens nobody has freed or taken.

`Writer` writes a tree of paths as characters, with the indentation and the
formats of `config_write`; what printf's `%.10g` makes of a double is external.
`RoundTrip` builds a configuration, writes it, and lets `Scanner` and `Parser`
read it, one token handed over at a time.

### ConfigFiles, ThreadLocale

`ConfigFiles` reads texts whose items are settings, include directives and
errors, one per step, and keeps what the characters do not matter to: the
stack of open files (`scan.frames`, `streams`), the array of file names
(`names`, `slots`) and who points into it, the error fields, the options a read
puts back, the exit and the crashes of the code.  In `ThreadLocale` two threads
call the library, make and install locales, and change the process's.

## 3. Runs

| run | instance | shows |
|---|---|---|
| `core` | 1 file under 2 overlapping entries, a directory under the second that comes and goes, a third entry whose folder is missing, 3 versions with recurring contents, 2 mishaps | `NoChangeSwallowed`, `AtMostTwice`, `LeakStopsShort`, `ExhaustedIsMute`, `ImplementsNotifier` |
| `live` | 2 files, f1 greps as f2, f2's sidecar cannot be written, 2 versions, 1 mishap, fair | `LastVersionHandled`, `FallsSilent`, `RunsEverySweep` |
| `two` | 2 watchers, 1 file, 2 versions, fair | `OneOfThemSaw`, `SilentUnlessProvoked` |
| `md5` | files up to 600 bytes, where a count word counts 4096 bits; four messages of RFC 1321's test suite on 32-bit words | `MessageDigested`, `LengthAppended`, `DigestIsMD5` |
| `daemon` | a file and 3 sidecars above it, 3 versions, 1 mishap of each name; 24 configurations, 5 sweeps and 7 descriptors; ini files of 3 lines | `GrowsEverySweep`, `CascadeBounded`, `OutputStaysOut`, `StaleIsPredecessor`, `ResultFromFile` |
| `settings` | 3 settings and the root, 3 names, 1 scalar type, 1 hook, chunks of 2 | `RoomForAll`, `Tree`, `NamesUnique`, `HooksAlive`, `ImplementsTree` |
| `objects` | 3 settings and the root, 2 names, 2 scalar types, 4 objects | `WrappersMatch`, `PathsLeadBack`, `Homogeneous` |
| `values` | ranges of -3..2, -4..3 and -6..6 in steps of a half; every path of 5 characters out of 7, for each type of value, with and without auto-conversion | `Faithful`, `KeptTypeTrue`, `CastsFaithful`, `FindsWhatIsNamed` |
| `files` | 10 file systems, 2 levels of includes, 3 calls; 2 threads, 4 locale objects | `NamesOwned`, `StreamsClosed`, `FailureReported`, `ReadsWhatItIncludes`, `LocaleOfTheCall` |
| `reading` | texts of 4 pieces, in a buffer of 2 characters that grows, read by twos from a file or a terminal or given as a string, 4 files to include; 9 tokens of 12 kinds with 2 names, on stacks of 4 that grow to 11; 8 tokens of 16 kinds with 1 name; configurations of 2 settings with many values and 3 with much nesting | `LongestMatch`, `InputKept`, `BuildsTheTree`, `RefusesForCause`, `WrittenIsReadBack` |
| `doc_newmd5` | as `core`, digests that share a digit | `NewDigestNoticed` fails: "new md5 means file changed" (335) |
| `doc_words` | as `md5`, 64-bit words | `DigestIsMD5` fails: "UINT4 defines a four byte word" (`md5.h`:33) |

What the properties say:

* `NoChangeSwallowed`: if the digest of a version was stored, a script was
  started on that version or a later one, or is about to be, or the failure is
  on record.  This is the point of `genMD5` before `doScript`.
* `ImplementsNotifier`: the watcher refines `Notifier`.
* `AtMostTwice`: one version reaches the script twice at most (the second time
  when it appeared between the second hash and the script).
* `LeakStopsShort`, `ExhaustedIsMute`: the leak ends when popen's pipe no longer
  fits; one descriptor is left, so scanning and hashing go on and nothing else
  does, until a restart.  All of these hold beside a directory that the pattern
  matches, too, and there the daemon stays in `MD5File` (`ReadError`) until it
  is restarted, so no liveness property does.
* `LastVersionHandled`: once nobody has a matching file open any more, the last
  version reaches the script, unless a run was lost, a script hangs, or the leak
  came first.  `FallsSilent`: no file keeps the script running for ever.
  `RunsEverySweep`: except where the sidecar cannot be written; there the
  script runs in each sweep, since genMD5's result is ignored.
* `OneOfThemSaw`: a digest either watcher stored has been seen, is about to be
  seen, or has failed with one of them.  `SilentUnlessProvoked`: a watcher falls
  silent once the other stores no more.  It cannot be more: two watchers can
  keep each other busy without end, each meeting the sidecar the other has
  truncated and not yet written, taking the file for new, and truncating it
  in its turn.
* `MessageDigested`, `LengthAppended`: the blocks are those RFC 1321 defines.
  `LengthAppended` speaks of words of four bytes; what an eight-byte word does
  with the count is in section 5.
  `DigestIsMD5`: mixed into 32-bit words, they give the digests it prints.
* `GrowsEverySweep`: where the pattern matches sidecars, a sweep in which
  nothing failed, no file was in use and no sidecar was removed leaves each name it
  met with a sidecar.  That agrees with its file, unless the file was
  written later in the same sweep; and there is a name that was not there before.
  `CascadeBounded`: a change of f sets off a run on each name above it, but no
  more than one: f is handled once per version at most and each name no more
  often than the one below it, apart from the mishaps counted for it (a hash or a
  store that fails, a crash before the digest is stored, a sidecar that
  cannot be read or is removed).  A sidecar that can never be written is
  a mishap in every sweep, which is `RunsEverySweep` in `FileWatch`; a version that
  reaches the script twice (`AtMostTwice`) does so in the place of one that
  did not.
* `OutputStaysOut`: though a daemon's descriptors 0 to 2 are handed out again,
  nothing it prints reaches a directory stream, a sidecar or the log's socket.
* `StaleIsPredecessor`: a folder that lacks a string is scanned with the one of
  the nearest folder before it that has one, round the end of the list; only
  where there was none with an uninitialised pointer.
* `ResultFromFile`: what `ReadIniArg` returns is the value of the first line
  with that key behind the first line that mentions the section, or nothing.
* `RoomForAll`: realloc has made room for every element, whatever was added and
  removed, though nothing records how long a vector is.  `Tree`: each setting is
  in its parent's vector, once, and in no other.  `NamesUnique`, `HooksAlive`:
  a path leads to one setting; a hook is disposed of with its setting only.
  `ImplementsTree`: the heap refines `ConfigTree`.
* `WrappersMatch`: objects and settings point at each other, one to one, with
  the same type.  `PathsLeadBack`: `getPath` of a setting looks it up.
  `Homogeneous`: arrays get elements of one type through C++.
* `Faithful`: without auto-conversion a number is held as given, rounded as a
  float once where the code goes through one, or was a long long an int took as
  0.  `KeptTypeTrue`, `CastsFaithful`: the type a C++ object keeps is its
  setting's, and a cast gives the number held wherever the C++ type has it.
* `FindsWhatIsNamed`: a well-formed path finds the setting it names or nothing,
  and the lookup of a value finds it if it has that type or one that is converted.
* `NamesOwned`, `StreamsClosed`, `FailureReported`: wherever a nest of includes
  fails, no pointer to a freed name is left, what was opened is closed once, and
  the error fields tell of the last call.  `ReadsWhatItIncludes`: what is read
  is the text with its includes put in, and the file blamed has the first error.
* `LocaleOfTheCall`: during a call the thread converts with a point, and the
  locale object of the call, and no other, is freed.
* `LongestMatch`: the tables match what scanner.l's rules, longest and first,
  match on the whole text, wherever reads cut it.  `InputKept`: no character is
  lost or repeated across refills, backing up and includes; lines are counted
  per file; buffers are those of open files.
* `BuildsTheTree`, `RefusesForCause`: bison's tables, lookaheads and actions
  build the tree the tokens spell, and refuse at the first token that the
  manual's grammar has no place for (`Language`), at a name used twice, or at an
  element of another type, and never else.
* `WrittenIsReadBack`: what `config_write` writes is read back as it was, unless
  it holds what the language has no text for (a keyword as a name, a setting
  without a type).

`LastVersionHandled` is about contents that do not come back, and digests that
differ in the first digit: a file rewritten with what it held before is no
change to the watcher, and `doc_newmd5` shows what the one-digit comparison
does.

Bounds.  `MaxVer` is 3 in `core`, so that a version can be hashed, a second one
stored and a third one seen by the script; 2 where there are two files or two
watchers.  `MaxMishaps` bounds crashes, failed calls and removed sidecars: two
are enough for a crash inside the store followed by a failure of its repeat.
`FreeFds` is 4 to 6, so the leak runs out within the run after 2 to 4 busy
answers.  `runs` counts to 3, one more than its bound.  In `md5` the file
lengths lie on each side of 55/56 and 64 bytes, and the count words are small so
that 512 bytes wrap one.  `MaxLevel` is 3 in `daemon`: a sidecar that is read,
written and watched in one sweep has a name below and a name above it, and the
model ends when the longest name exists.  One mishap of each name is enough for
one to be handled twice while the name above it is handled once.  The first
digits of the small digests are such that a torn read and an empty file look
like a digest that may be on disk.  `two` has no mishaps; that they do no harm to
`OneOfThemSaw` is `NeitherSwallows`, section 4.  In `settings` three children are one more than
a chunk, so a vector grows, shrinks and grows again.  In `values` an int has
values a float rounds (`Exact` 3, in halves) and long longs lie outside it by
one on each side; the assumption on the ranges keeps their order.  In `files`
two levels suffice for an include that fails inside an include and for the
limit on depth, and three calls for a failure followed by a call that must not
show it.  In `reading` the scanner's buffer starts with room for less than one token, so that every
token is cut at every place, and the three alphabets of pieces (numbers and
names; strings and comments; includes) have a character of each kind their
rules tell apart; nine tokens hold a group in a group and an error
behind it; `MaxDepth` leaves the stacks to grow twice.  Permutations of model
values are symmetries only in runs without liveness.

Deadlock is checked wherever the program has no end: not in `md5`, `daemon` and
`values`, where a digest is done, a process ends, or a lookup returns; in the
others a finished behaviour repeats (`Done`, `Stopped`).

Fairness.  `FairSpec` of `FileWatch` has weak fairness for the daemon's own
steps, which a process on a time-sharing system gets.  Nothing is assumed of
scripts, which `system` waits for without a limit, nor of the environment: the
liveness properties name the script that hangs as an exception (`ScriptHangs`).
`TwoFairSpec` of `TwoWatchers` has the same for each watcher, and there the scripts
end.

## 4. Proofs

For every value of the constants that satisfies the named assumptions: at least
three free descriptors at start, some content that stands for torn reads,
distinct markers, each name grepping as itself (`FileWatch`); a word that is a
multiple of 512 and counts a chunk's bits (`MD5Stream`); at least one sidecar
and digests that are contents, none of them empty (`Sidecars`), one sweep and descriptors 0 to 6 (`Startup`), a line's key that
is not the mark of none (`IniFile`); a chunk of at least one, paths that begin
with names (`Settings`); the order of the numeric ranges (`Scalars`); finite
texts as sequences of items (`ConfigFiles`); marks that are not locale objects
(`ThreadLocale`); only aggregates with elements, members of a group with
different names, and no name with a character that ends one (`Lookup`, where the
setters and the scanner see to it); texts as sequences of characters, and a
buffer and a read of at least one (`Scanner`); tokens of the kinds the tables
know, stacks with room for more than their first state, and a mark of no setting that
is no path (`Parser`).  What `ScannerTables`, `ScannerRules` and `ParserTables` assume
of flex's and bison's tables, of the patterns and of the language are facts about
constants: TLC evaluates them in `reading`, for every state and character class
and for every state and kind of token.

| theorem | says | argument |
|---|---|---|
| `TypeCorrect` | `[]TypeOK` of `FileWatch` | inductive; `TypeOK` says in which places there is a current file and which buffers are valid |
| `ChangesAreNotSwallowed` | `[]NoChangeSwallowed` | with `VersionsOrdered`: recVer <= ver, and while genMD5 works recVer <= snap <= ver, so the run that follows is late enough |
| `WatcherImplementsNotifier` | `Spec => ImplementsNotifier` | step by step, from the same invariant: `Store` needs recVer <= snap |
| `LeakLeavesOne`, `ExhaustedWatcherIsMute` | the two leak invariants | together inductive: a stream is left only where three descriptors were free |
| `NoVersionRunsThrice` | `[]AtMostTwice` | `TwiceInv`: after one run of an untouched file what is hashed and stored is its content; after two the compare finds no difference; a file that vanished before its script is not met again |
| `NeitherSwallows` | `[]OneOfThemSaw` of two watchers | `Ordered`: nothing newer than the file is stored, nor about to be.  One watcher's recVer <= snap is gone, for the other may store in between; then it is the other that saw, or will |
| `FileIsDigestedWhole` | `[]MessageDigested` | `Represents`: blocks and buffer hold the first n bytes and the count is 8n modulo the word; `UpdateRepresents` keeps it for any input; `FinalPads` applies it to padding and length |
| `BitsAreAppended` | `Word = FourBytes => (Spec => []LengthAppended)` | from the same invariant, by the arithmetic of quotients: the two words are the low and the high digit of 8n, their bytes its digits.  With the eight bytes of the other build it is false, as `doc_words` shows |
| `EverySweepGrows` | `[]GrowsEverySweep` | `GrowthInv`: while nothing hinders the sweep, each name returned but the one in hand is `Done`, and what is known of the one in hand grows with `pc`; a sidecar stored for a name is a change of the next, so a name that was done may be touched again, never left without.  The sidecar of the largest name returned is the new one |
| `CascadesAreBounded` | `[]CascadeBounded` | `CascadeInv`: a name that differs from its sidecar is `Owed` a handling, and handled plus owed is within the `Limit`.  Owed is more than different: a digest may be stored before a change of the file and compared after it, a read may be torn, so what the name in hand will make of its buffers counts |
| `OutputOfADaemon` | `[]OutputStaysOut` | `OpenInv`: the log's socket is descriptor 3, for it is opened while 0 to 2 are taken; a directory or a sidecar is open only in the calls that do not print |
| `StringsAreInherited` | `[]StaleIsPredecessor` | `ArgsInv`: what the strings are at each place of the loop, as the `Nearest` in the list of folders looked up; `NearestShifts`: a list longer by one folder in front |
| `ValueOfTheParameter` | `[]ResultFromFile` | `IniInv`: no line up to here mentions the section; then a first one does, and none behind it sets the parameter |
| `SettingTypes`, `VectorsHaveRoom`, `SettingsAreATree`, `NamesAreUnique`, `HooksStayAlive` | the four invariants of `settings` | one invariant, `IInv`: the heap is well `Shaped` (typed, roomy, a tree with unique names), hooks differ and are alive.  `Subtree` is closed and nothing outside points into it, so a removal keeps the shape |
| `HeapImplementsTree` | `Spec => ImplementsTree` | `IInv` and `Reached`: each setting is the end of a *trail*, a walk down from the root; see below |
| `ObjectTypes`, `ObjectsMatchSettings`, `ArraysStayHomogeneous` | `[]WrappersMatch`, `[]Homogeneous` | `WInv`: `Shaped` of the heap, and `Matching`; the objects of a removed subtree are the hooks the destructor is given |
| `PathsLeadBackToSettings` | `[]PathsLeadBack` | `RInv`: `WInv` and `Reached`; see below |
| `ScalarTypes`, `NumbersAreFaithful`, `HexIsForIntegers`, `TypesStay`, `GettersMeet` | `[]Faithful`; types never change; the getters agree | `IInv`: a value `Fits` its type, is faithful, and only integers are hexadecimal |
| `ObjectsAreTyped`, `KeptTypesAreTrue`, `FormatsAreTold`, `CastsAreFaithful` | `[]KeptTypeTrue`, `[]CastsFaithful` | `CInv`: `IInv` of `Scalars` and what the object and `last` say, one lemma per kind of cast |
| `PathsAreFollowed` | `[]FindsWhatIsNamed` | `TrailInv`: whenever tokens have been skipped, a segment begins, and the path up to there leads to the setting reached and to no other.  See below |
| `FilesTyped`, `NamesAreOwned`, `StreamsAreClosed`, `FailuresAreReported`, `OptionsAreKept` | the invariants of `files` | `FInv`: types; inside a read no error yet (`InRead`); whatever is pointed at is among the names alive, all different; the streams are those of the include stack and of the file asked for; options |
| `ReadsAreWhole` | the action property `ReadsWhatItIncludes` | `Whole`: what a read has taken, then what is left of the texts on the include stack, the innermost first, is the file with its includes put in.  See below |
| `InputIsKept` | `[]InputKept` of the scanner, texts, buffers and includes of any size | `SInv`: each buffer `Holds`, from its place on, what was read of its text and not matched, and is `Told` how many lines that makes; buffers have the numbers 1 to the depth (`Nest`).  See below |
| `MatchIsLongest` | `[]LongestMatch` of the scanner: its tables match what the rules of `scanner.l` say, on texts, buffers and includes of any size | `SInv` and `Ends`; the places in the patterns a match may have come to are what its state knows.  See below |
| `ParsesTheLanguage` | `[]Language`, of `RefusesForCause`, for any tokens, at any nesting, with stacks of any size | `StackInv`: each state stands for a stretch of the tokens, of which one that is no token's leaves the brackets as they were; states and brackets, and states and neighbouring tokens, go together as the tables let them.  See below |
| `TreeIsTheText` | `[]BuildsTheTree`: what is accepted is the configuration its text describes | `TreeInv`: the configuration is at every step that of the first d tokens, and what lies between those and the last one consumed is a string being put together or a token whose action is due.  See below |
| `RefusalsHaveCauses` | `[]RefusesForCause`, both ways and in every state | `TreeInv` and `StackInv`: the settings of one group have names of their own and those of one array one type because those of the first d tokens have |
| `StacksHaveRoom`, `StringsAreFreed` | no push is behind the end of the stacks; of the strings tokens came with, at most the last token's is not freed, and none when the text is accepted | `OwnInv`: while the parser runs there is room for one more state (`Roomy`); a string is held exactly while its token is the lookahead or on top, for it is joined before anything else is read (`Holding`) |
| `LocalesAreTheCalls` | `[]LocaleOfTheCall` | `LocInv`: a locale object that is allocated has one thread that owns it or has it installed for a call, and that of a call holds the C locale |

`AtMostTwice` is not inductive because the count alone does not say what is on
disk.  `NoChangeSwallowed` is not because nothing in it says that a store is of
a version that exists.  `Tree` is not without `NamesUnique` and the types, nor
`HooksAlive` without different hooks; `StreamsClosed` is not without knowing
that a frame has a stream exactly while it is on the stack.  `TwiceInv` and
`SwallowInv` were checked by TLC on small instances before they were proved.

Trails.  `Tree` says that settings and parents agree, which a ring of settings
off the root would, too; the path of such a setting would have no end.  So the
refinement needs `Reached`.  A setting has one trail (`OneTrail`), whose indices
are its path (`PathsAre`), so the tree a heap stands for is that of its trails
(`TreeIs`).  A creation adds one trail (`CreatedTree`).  A removal leaves the
trails that avoid the setting removed, and lowers by one the index at which a
younger sibling's trail leaves the parent, which is `Without` (`LeftTrails`,
`LeftIndices`, `RemovedTree`).  For `PathsLeadBack`, `getPath` of the end of a
trail is the names or indices along it (`PathTells`), from where
`config_lookup` walks the same trail (`SegmentLeads`, `LookupWalks`); that a
segment leads to one setting is `NamesUnique`.  What `PathOf`, `PathsOf` and
`LookedUp` compute, recursive functions all three, is shown by giving the
function and proving that it is the only one: the induction is over the length
of a trail, with the set of lengths for which the claim holds
(`SetInduction`, from the well-foundedness of < on the naturals).  `Reached`
is about sequences of any length, which TLC cannot enumerate; that
`ImplementsTree` can be evaluated in every state of `settings`, which takes the
path of every setting, says the same of the small instance.

Paths.  What a path leads to is defined segment by segment (`LeadsTo`); the code
goes character by character and knows no segments.  In a well-formed path no two
segments end at one place (`OneSegmentEnds`) and one begins wherever one may
(`SegmentAt`); a segment holds no character that ends a name (`NoTokens`), so
`Walk` stops right behind it, and a name that compares as equal at its beginning
is all of it (`SameNameIs`).  When it names nothing, nothing behind it leads
anywhere (`NowhereToTheEnd`), and NULL is right; the pointer is not at the end
then because an index has a digit and a bracket behind `[`, which a path such as
`ab.[` (section 5) has not.  `LeadsTo` and `Number`, recursive functions, are
treated as above.  TLC checked `TrailInv` in `values` before it was proved.

Scanner.  `Left` characters are left in the buffer when a match begins, two
NULs behind them.  From every state that goes on, a NUL at the end leads to the state
that accepts rule 42, and nothing else does (`TransitionsAssumption`), so a
match of rule 42 has taken exactly what is left and one NUL (`MatchFound`):
hence `Refill` moves what it must.  Any other match ends before (`MatchText`).
The newlines counted are those matched because a match of a rule the tables
mark as free of newlines never passed through the states behind one, and that of rule
39, which gives its newline back, passed through none but at its end
(`MatchPassesNewlines`).  That the states are those of a function defined by
recursion (`AfterGoes`) is proved as for trails.

The match is the longest (`MatchIsLongest`) by what the automaton knows.  A place
is a pattern and how many of its pieces are behind; a match of n characters may have come to
some places (`Places`), and these follow from those of n - 1 characters and the
class of the next (`PlacesNext`, from `ReachOne` for one piece).  `Knowledge` pairs
each state with the sets of places it may stand for, found by exploring from the
start states.  TLC evaluates that it is closed under every class, that a state
accepts the first rule among those complete at its places, or none, and that
from a state that stops no place leads on (`KnowledgeAssumption`).  So by
induction over the text the places of a match are known by its state
(`StatesKnow`): the rule found is the first of those that match as much, what was passed
on the way back accepted nothing, and behind a state that stops nothing matches
however much text follows (`NothingBehind`).  What is left is the end of the buffer:
a match is cut off there only when nothing of the text is to be read any more,
which is `Ends`, an invariant with `SInv`: a buffer that met its end, or that
is not to be filled, holds the text to its end.

Parser.  The states on the stack cut what was consumed into stretches (`Covers`):
a state that a token leads to stands for that token, any other for tokens between
which every bracket that opens is closed (`Linked`).  Neighbours on the stack
are `Edges` of the automaton, a state and the innermost bracket open
where its stretch ends are in `Around`, and the state on top, the token behind it
and the lookahead are in `Situations`: three finite sets, each found from the
tables by exploring until nothing is new.  TLC evaluates that they are
closed, that a reduction always finds on the stack what it pops
(`EdgesAssumption`), with no bracket in it or one from beginning to end
(`BracketsAssumption`), and that what is known of a state and
the brackets around it decides as `Can` does when the state shifts or refuses
(`SituationsAssumption`).  So a reduction, which uncovers a state of any age, goes on
from one in the same brackets (`Popped`, `Balanced`, `ReduceStack`), and the
brackets of the text, of which the automaton's states remember one at a time and
the stack the others, are the ones `Language` speaks of.

The tree.  `BuildsTheTree` speaks of an accepted text only, and of a tree that an
action adds to one setting at a time; what holds on the way is `TreeInv`.  For some d
the tree is that of the first d tokens (`TreeUpTo`): it has the paths of the
settings they bring and no others, each setting is the one its tokens describe, or has a
name and no type yet where those tokens are still to come, and those of one group differ in
name, those of one array agree in type (`Peers`).  The parser stands where it should
(`At`): `parent` is the setting of the innermost bracket open behind the d-th token,
and `setting` the one named last while its value is awaited.  The tokens consumed
behind the d-th are strings being joined and, if the state on top is one that acts, the
token it acts on (`Running`).  That the actions are so close behind is bison's
doing: the state a token leads to reduces its rule without a lookahead wherever the
rule has an action, except that a string waits for what is no string
(`ActionsAssumption`).  So an action's token is the one read last (`TopToken`,
`Acts`), which is why `NameText` is that of the name; a string in an array or list
is given the line of the token behind it.  Each kind of token has a lemma that says what it
does to the tree of the tokens before it: nothing (`PassToken`), a setting
without a type (`NameToken`), its value or a new element (`ValueToken`, `ElementToken`,
whose index is the number of elements before it plus one because the tree has those
and no others), or the way up (`CloseToken`).  Each action is then the lemma of its
token, and each reduction without one leaves d where it is.  A name that is taken is in the
group because a token before brought it there (`TakenIsTwin`), and an element that
does not fit differs from the first (`MisfitIsOdd`).  At the end d is all there is
(`Complete`).  Paths are defined by recursion over the text; what is proved of them is
proved of any function that satisfies the recursion (`Paths`), of which there is one
(`PathsAre`).  TLC checked `TreeInv`, with `pathOf` for that function and d read off
the stack, on the token sequences of `reading` before it was proved.

Reads.  `Expanded` is the file with its includes put in: for each level at which
includes are still allowed, what each file stands for, given the level below.
What is left of a text j-th from the bottom of the include stack stands for its
items with `Depth` + 1 - j levels to go (`Stands`), and the stack for those one
after the other (`Pending`).  `Set` moves one item from what is left to what is
taken (`TakenMore`); `Include` puts for the directive the file it names one
level further down, which is what the directive stands for (`ExpandedIs`);
`PopInclude` drops a text with nothing left.  So `Whole` is inductive, where
the property alone speaks of the last step only, and a read that ends has taken
everything or stops at the item that is left first (`TellsWhole`).  `FlattenSeq` and
`Expanded` are recursive functions: what they compute is proved as for trails.
TLC checked `Whole` in `files` before it was proved.

Only model-checked: the liveness properties `LastVersionHandled`, `FallsSilent`,
`RunsEverySweep` and `SilentUnlessProvoked`; `DigestIsMD5`, which is about four
strings; `WrittenIsReadBack`, whose claim is recursive in the data; and whatever
the violation runs show.

## 5. Where code and documents disagree

Two have runs, `doc_newmd5` and `doc_words`.  The committed sidecars of the
tree hold what `doc_words` finds: digests of a 64-bit build, which are not the
files' MD5.  The others were met while modelling, and the models do what the
code does.  `libconfig.texi` is in `src/libconfig-1.4.8/doc/`.

| the document says | the code does |
|---|---|
| `md5.h`:39 "number of bits, modulo 2^64" | `md5c.c`:132, 173: with eight-byte words nothing is carried, and 32 bits of each word are appended: the low half of the length from 2^29 bytes on |
| 340 "if it's open, do nothing" | 341-345: lsof is asked once, before the file is hashed again and the script started |
| 350 "did not exist" | 321: an empty sidecar, left between 248 and 256, takes the same branch |
| `inifile.c`:44 "skip to the appropriate section" | 58: to the first line that contains the section's name, be it a comment, a value or a longer name |
| texi:485 elements of an array have one type | `libconfig.c`:1521-1543: `config_setting_add` does not ask `__config_vector_checktype` |
| texi:984 config_setting_remove removes "the setting named name" | `libconfig.c`:426: asked for `a.x` it destroys `a` |
| texi:864 a setter returns false "if the setting does not match the type" | `libconfig.c`:1015: a long long for an int setting is taken, as 0 if it does not fit |
| texi:837 config_lookup returns "NULL if the setting was not found" | `libconfig.c`:1154, 1167: `ab.[` finds `ab`, for the bracket was stepped over |
| texi:1100 the line at which the setting was read | `grammar.c`:1743: a string in a list has the line, and after an include the file, of the token behind it |
| texi:580 "All text beginning with a #" is ignored | `scanner.l`:95: not on a last line without a newline |
| texi:689 config_read_file returns false on failure | `scanner.c`:794: a file whose first read fails, such as a directory, ends the program |
| texi:717 config_write_file returns true "on success" | `libconfig.c`:698: and on a full disk |
| texi:757 "If include_dir is NULL, the default behavior is reinstated" | `libconfig.c`:1494: strdup(NULL) |
| texi:792 the default format "will be used" | `libconfig.c`:568: until the next read, which does not put it back |
| texi:1481 an invalid assignment throws | `libconfigcpp.c++`:757: an int for an Int64 setting under auto-conversion is dropped without one |
| texi:1727 getFormat gets the format | `libconfig.h++`:213: the one the setting had when its object was made, or the default of that moment |
| texi:1576 lookupValue does "not throw exceptions" | `libconfigcpp.c++`:938: a string setting without a value is NULL, assigned to a std::string |
| texi:1694 getParent of the root throws SettingNotFoundException | `libconfigcpp.c++`:997, 172: whose constructor passes NULL to strdup |
| texi:1644 add throws "if type is invalid" | `libconfigcpp.c++`:1098: not for TypeNone in a list, which is written as `???` |
| texi:235 the locale is changed temporarily | `libconfig.c`:119: the thread is left with the process's, whatever it had |
| texi:235 its LC_NUMERIC category is changed | `libconfig.c`:95: all categories are, and are the C locale's |

Also: a string or comment that the end of the text leaves open is accepted by
the scanner; a relative path of the configuration is looked up in `/` by a
daemon, which has changed there (133) after reading it.

## 6. What is not modelled

* Logging and `print_event`, which change no state that anything reads.
* The test scripts, the earlier versions of the program, libconfig's tests and
  examples, `tinytest`: drivers without state of their own.
* libconfig's Ruby binding: built by nothing here, and its behaviour is that of
  an interpreter that is not in the repository.
* Allocation failures: libconfig checks no malloc and the watcher has none.
* How a number's digits become its value, and what `%.10g` makes of a double.
* Scripts that write watched files, as those of `tests/` do: the environment of
  `FileWatch` writes whenever it likes, but not in answer to a run.

## 7. What could follow

1. `ChainedTests`: the two folders of `tests/test3.cfg`, whose scripts move and
   append to one file, against `tests/plan.txt`.
2. A theorem that the two watchers implement a notifier of their own, and
   `OneOfThemSaw`, proved for two, for any number of them.
3. The content-level statement that a script has seen what the file holds
   whenever the digest of that content is on disk.
4. The composition of `ConfigFiles` with `RoundTrip`, so that a text that is
   written is read from the file it went to.
