----------------------------- MODULE ConfigFiles -----------------------------
(***************************************************************************)
(* The life of a config_t around files: config_read_file,                  *)
(* config_read_string, config_write_file and the option setters of         *)
(* libconfig.c, with the include stack and the file names of scanctx.c.    *)
(*                                                                         *)
(* A text is a sequence of items: a setting ([kind |-> "set"]), an include *)
(* directive or a syntax error.  How items are recognised in characters is *)
(* the Scanner and the Parser; here an item is one step, so the order of   *)
(* opening, reading and closing files is what the code does.               *)
(*                                                                         *)
(* A path is <<directory, name>>; the directory is NoDir when the name is  *)
(* opened relative to the working directory.                               *)
(***************************************************************************)
EXTENDS Integers, FiniteSets, SequencesExt

CONSTANTS
  Names,        \* file names
  Dirs,         \* include directories
  NoDir, NoName,\* the NULL of include_dir and of a file name
  Keys,         \* names of settings
  Texts,        \* texts handed to config_read_string
  Disks,        \* contents of the file system at the start
  Depth,        \* MAX_INCLUDE_DEPTH
  Chunk,        \* CHUNK_SIZE of the file name array
  MaxOps        \* bound on the calls of the application

Paths == (Dirs \cup {NoDir}) \X Names

Items == [kind: {"set"}, key: Keys] \cup [kind: {"include"}, name: Names]
           \cup {[kind |-> "bad"]}

(* A file with its items, no file, or a directory: fopen(.., "rt") opens a *)
(* directory, and only reading from it fails.                              *)
Missing == [kind |-> "missing", items |-> <<>>]
Directory == [kind |-> "directory", items |-> <<>>]
File(items) == [kind |-> "file", items |-> items]

Contents == [kind: {"missing", "directory", "file"}, items: Seq(Items)]

ASSUME FilesAssumption ==
  /\ Depth \in Nat /\ Chunk \in Nat \ {0} /\ MaxOps \in Nat
  /\ NoDir \notin Dirs /\ NoName \notin Names
  /\ \A t \in Texts : t \in Seq(Items)
  /\ Disks \subseteq [Paths -> Contents]

VARIABLES
  disk,     \* the file system
  opt,      \* include_dir, flags and default_format of the config_t
  config,   \* its settings, file names and error fields
  scan,     \* the scan_context of the call in progress
  streams,  \* files opened by the library and not closed
  op,       \* what the library is doing: idle, reading, writing
  target,   \* the path being written
  result,   \* what the last call returned
  status,   \* running; exited by yy_fatal_error; crashed
  wanted,   \* the options the application asked for (history)
  calls     \* number of calls so far

vars == <<disk, opt, config, scan, streams, op, target, result, status,
          wanted, calls>>

NoError == [type |-> "none", text |-> "none", file |-> NoName]
EmptyConfig == [settings |-> <<>>, filenames |-> <<>>, error |-> NoError]

(* frames: the text being read, the innermost include last; a frame that   *)
(* is opened but not read yet has loaded = FALSE.  The frames below the    *)
(* last are ctx->buffers.  slots is the size of the file name array.       *)
NoScan == [names |-> <<>>, slots |-> 0, frames |-> <<>>]

NoOptions == [include_dir |-> NoDir, auto |-> FALSE, hex |-> FALSE]

Init ==
  /\ disk \in Disks
  /\ opt = NoOptions /\ wanted = NoOptions
  /\ config = EmptyConfig /\ scan = NoScan
  /\ streams = 0 /\ op = "idle" /\ target = <<NoDir, NoName>>
  /\ result = "none" /\ status = "running" /\ calls = 0

------------------------------------------------------------------------------
(* __scanctx_add_filename: a name is kept once; the array grows by a chunk *)
(* when the count is a multiple of it.                                     *)
AddName(ctx, name) ==
  IF name \in ToSet(ctx.names) THEN ctx
  ELSE [ctx EXCEPT !.names = Append(@, name),
                   !.slots = IF Len(ctx.names) % Chunk = 0
                               THEN Len(ctx.names) + Chunk ELSE @]

Frame(name, path) == [name |-> name, path |-> path, rest |-> <<>>,
                      loaded |-> FALSE]

(* scanctx_current_filename: NULL for a text that comes from no file.      *)
CurrentName == Last(scan.frames).name

IncludeDepth == Len(scan.frames) - 1

(* config_destroy and config_init inside __config_read: the settings, the  *)
(* file names and the error go; include_dir, tab_width, flags (and the     *)
(* destructor) are put back, the default format is not.                    *)
Reinitialised(o) == [o EXCEPT !.hex = FALSE]

Call == status = "running" /\ op = "idle" /\ calls < MaxOps
        /\ calls' = calls + 1

(* A read starts: the configuration is emptied before anything is parsed.  *)
StartReading(ctx) ==
  /\ opt' = Reinitialised(opt)
  /\ config' = EmptyConfig
  /\ scan' = ctx
  /\ op' = "reading"
  /\ UNCHANGED <<disk, target, result, status, wanted>>

IOError ==
  /\ config' = [config EXCEPT !.error.type = "io", !.error.text = "io"]
  /\ result' = "false"
  /\ UNCHANGED <<disk, opt, scan, streams, op, target, status, wanted>>

(* config_read_file: an unopenable file leaves the old settings in place.  *)
ReadFile(name) ==
  LET path == <<NoDir, name>> IN
  /\ Call
  /\ \/ /\ disk[path].kind = "missing"
        /\ IOError
     \/ /\ disk[path].kind # "missing"
        /\ streams' = streams + 1
        /\ StartReading([AddName(NoScan, name)
                           EXCEPT !.frames = <<Frame(name, path)>>])

(* config_read_string, and config_read on a stream the caller owns.        *)
ReadText(text) ==
  /\ Call
  /\ StartReading([NoScan EXCEPT !.frames =
       <<[name |-> NoName, path |-> <<NoDir, NoName>>, rest |-> text,
          loaded |-> TRUE]>>])
  /\ UNCHANGED streams

(* config_write_file truncates the file it can open ...                    *)
WriteFile(name) ==
  LET path == <<NoDir, name>> IN
  /\ Call
  /\ \/ /\ disk[path].kind = "directory"
        /\ IOError
     \/ /\ disk[path].kind # "directory"
        /\ disk' = [disk EXCEPT ![path] = File(<<>>)]
        /\ streams' = streams + 1
        /\ op' = "writing" /\ target' = path
        /\ UNCHANGED <<opt, config, scan, result, status, wanted>>

SetIncludeDir(dir) ==
  /\ Call
  /\ wanted' = [wanted EXCEPT !.include_dir = dir]
  /\ \/ /\ dir \in Dirs
        /\ opt' = [opt EXCEPT !.include_dir = dir]
        /\ UNCHANGED status
     \/ \* strdup(NULL)
        /\ dir = NoDir
        /\ status' = "crashed"
        /\ UNCHANGED opt
  /\ UNCHANGED <<disk, config, scan, streams, op, target, result>>

SetOptions(auto, hex) ==
  /\ Call
  /\ opt' = [opt EXCEPT !.auto = auto, !.hex = hex]
  /\ wanted' = [wanted EXCEPT !.auto = auto, !.hex = hex]
  /\ UNCHANGED <<disk, config, scan, streams, op, target, result, status>>

------------------------------------------------------------------------------
Reading == status = "running" /\ op = "reading"

(* Reading has come to the next item of the innermost text.                *)
NextItem(kind) ==
  /\ Reading
  /\ Last(scan.frames).loaded
  /\ Last(scan.frames).rest # <<>>
  /\ Head(Last(scan.frames).rest).kind = kind

Item == Head(Last(scan.frames).rest)

(* The first read of an opened file; YY_INPUT calls yy_fatal_error when it *)
(* fails, which ends the process.                                          *)
Fill ==
  LET top == Last(scan.frames) IN
  /\ Reading
  /\ ~top.loaded
  /\ \/ /\ disk[top.path].kind = "directory"
        /\ status' = "exited"
        /\ UNCHANGED scan
     \/ /\ disk[top.path].kind # "directory"
        /\ scan' = [scan EXCEPT !.frames[Len(scan.frames)] =
                      [top EXCEPT !.rest = disk[top.path].items,
                                  !.loaded = TRUE]]
        /\ UNCHANGED status
  /\ UNCHANGED <<disk, opt, config, streams, op, target, result, wanted,
                 calls>>

Skip(frames) == [frames EXCEPT ![Len(frames)].rest = Tail(@)]

(* Mutant: the include stack is not unwound.                               *)
OwnStreamsTopOnly == IF scan.frames[1].name = NoName THEN 0 ELSE 1

(* The streams of the include stack, and the one config_read_file opened.  *)
OwnStreams == IncludeDepth + (IF scan.frames[1].name = NoName THEN 0 ELSE 1)

(* Mutant: the file names are not handed over.                             *)
FinishWithoutNames(r, conf) ==
  /\ config' = conf
  /\ streams' = streams - OwnStreams
  /\ scan' = NoScan
  /\ op' = "idle"
  /\ result' = r
  /\ UNCHANGED <<disk, opt, target, status, wanted, calls>>

(* The end of __config_read: the file names move to the configuration.     *)
Finish(r, conf) ==
  /\ config' = [conf EXCEPT !.filenames = scan.names]
  /\ streams' = streams - OwnStreams
  /\ scan' = NoScan
  /\ op' = "idle"
  /\ result' = r
  /\ UNCHANGED <<disk, opt, target, status, wanted, calls>>

(* Mutant: the type of the error is not set.                               *)
FailUntyped(text) ==
  Finish("false", [config EXCEPT !.error =
    [type |-> "none", text |-> text, file |-> CurrentName]])

(* yyparse returned an error: the file is the innermost one, the include   *)
(* stack is unwound and its files are closed.                              *)
Fail(text) ==
  Finish("false", [config EXCEPT !.error =
    [type |-> "parse", text |-> text, file |-> CurrentName]])

KeysOf(settings) == {settings[i].key : i \in DOMAIN settings}

Set ==
  /\ NextItem("set")
  /\ Item.key \notin KeysOf(config.settings)
  /\ config' = [config EXCEPT !.settings =
                  Append(@, [key |-> Item.key, file |-> CurrentName])]
  /\ scan' = [scan EXCEPT !.frames = Skip(@)]
  /\ UNCHANGED <<disk, opt, streams, op, target, result, status, wanted,
                 calls>>

Duplicate ==
  /\ NextItem("set")
  /\ Item.key \in KeysOf(config.settings)
  /\ Fail("duplicate setting name")

SyntaxError == NextItem("bad") /\ Fail("syntax error")

(* Mutant: include_dir is not looked at.                                   *)
IncludedPathHere == <<NoDir, Item.name>>

IncludedPath == <<opt.include_dir, Item.name>>

(* scanctx_push_include                                                    *)
Include ==
  /\ NextItem("include")
  /\ IncludeDepth < Depth
  /\ disk[IncludedPath].kind # "missing"
  /\ scan' = [AddName(scan, Item.name) EXCEPT !.frames =
                Append(Skip(@), Frame(Item.name, IncludedPath))]
  /\ streams' = streams + 1
  /\ UNCHANGED <<disk, opt, config, op, target, result, status, wanted,
                 calls>>

FailInclude ==
  /\ NextItem("include")
  /\ \/ IncludeDepth = Depth
        /\ Fail("include file nesting too deep")
     \/ IncludeDepth < Depth
        /\ disk[IncludedPath].kind = "missing"
        /\ Fail("cannot open include file")

AtEnd ==
  /\ Reading
  /\ Last(scan.frames).loaded
  /\ Last(scan.frames).rest = <<>>

(* <<EOF>> in an included file: scanctx_pop_include                        *)
PopInclude ==
  /\ AtEnd /\ IncludeDepth > 0
  /\ scan' = [scan EXCEPT !.frames = Front(@)]
  /\ streams' = streams - 1
  /\ UNCHANGED <<disk, opt, config, op, target, result, status, wanted,
                 calls>>

EndOfText == AtEnd /\ IncludeDepth = 0 /\ Finish("true", config)

------------------------------------------------------------------------------
(* config_write: one item a setting; include directives are not kept.      *)
Written(settings) ==
  [i \in DOMAIN settings |-> [kind |-> "set", key |-> settings[i].key]]

(* ... and writes and closes it.  Nothing looks at what fprintf, fputs and *)
(* fclose return: on a full disk the file holds a beginning of the text,   *)
(* possibly cut inside a setting, and the call succeeds all the same.      *)
FlushAndClose(k, cut) ==
  LET items == Written(config.settings) IN
  /\ status = "running" /\ op = "writing"
  /\ k = Len(items) => ~cut
  /\ disk' = [disk EXCEPT ![target] =
       File(SubSeq(items, 1, k)
              \o (IF cut THEN <<[kind |-> "bad"]>> ELSE <<>>))]
  /\ config' = [config EXCEPT !.error.type = "none"]
  /\ streams' = streams - 1
  /\ op' = "idle" /\ result' = "true"
  /\ UNCHANGED <<opt, scan, target, status, wanted, calls>>

Library ==
  \/ Fill \/ Set \/ Duplicate \/ SyntaxError
  \/ Include \/ FailInclude \/ PopInclude \/ EndOfText
  \/ \E k \in 0 .. Len(config.settings), cut \in BOOLEAN : FlushAndClose(k, cut)

Application ==
  \/ \E n \in Names : ReadFile(n) \/ WriteFile(n)
  \/ \E t \in Texts : ReadText(t)
  \/ \E d \in Dirs \cup {NoDir} : SetIncludeDir(d)
  \/ \E auto, hex \in BOOLEAN : SetOptions(auto, hex)

Done == /\ status # "running" \/ (op = "idle" /\ calls = MaxOps)
        /\ UNCHANGED vars

Next == Library \/ Application \/ Done

Spec == Init /\ [][Next]_vars

------------------------------------------------------------------------------
TypeOK ==
  /\ disk \in [Paths -> Contents]
  /\ opt \in [include_dir: Dirs \cup {NoDir}, auto: BOOLEAN, hex: BOOLEAN]
  /\ wanted \in [include_dir: Dirs \cup {NoDir}, auto: BOOLEAN, hex: BOOLEAN]
  /\ config.settings \in Seq([key: Keys, file: Names \cup {NoName}])
  /\ config.filenames \in Seq(Names)
  /\ config.error.type \in {"none", "io", "parse"}
  /\ config.error.file \in Names \cup {NoName}
  /\ scan.names \in Seq(Names) /\ scan.slots \in Nat
  /\ scan.frames \in Seq([name: Names \cup {NoName},
                          path: Paths \cup {<<NoDir, NoName>>},
                          rest: Seq(Items), loaded: BOOLEAN])
  /\ streams \in Nat /\ calls \in 0 .. MaxOps
  /\ op \in {"idle", "reading", "writing"}
  /\ target \in Paths \cup {<<NoDir, NoName>>}
  /\ result \in {"none", "true", "false"}
  /\ status \in {"running", "exited", "crashed"}

(* setting->file and error_file are pointers into the list of file names,  *)
(* which config_destroy frees: at every moment each of them is a name of   *)
(* the list that is alive (the scan context's while a read is in progress, *)
(* the configuration's afterwards), or NULL; the list never holds a name   *)
(* twice, and it fits in its array.                                        *)
NamesOwned ==
  LET alive == IF op = "reading" THEN scan.names ELSE config.filenames IN
  /\ \A i \in DOMAIN config.settings :
       config.settings[i].file \in ToSet(alive) \cup {NoName}
  /\ config.error.file \in ToSet(alive) \cup {NoName}
  /\ IsInjective(alive)
  /\ Len(scan.names) <= scan.slots

(* The library never loses or double-closes a stream: while it reads, the  *)
(* open ones are those of the include stack and of the file it was asked   *)
(* for, and between two calls none is open, however the last one ended.    *)
StreamsClosed ==
  status = "running" =>
    streams = CASE op = "idle" -> 0
                [] op = "writing" -> 1
                [] op = "reading" -> OwnStreams

(* Reference: what an item of a file stands for, given what each file that *)
(* may be included stands for; what stops the read stands as "bad".        *)
ItemInPlace(item, name, dir, included) ==
  LET path == <<dir, item.name>> IN
  CASE item.kind = "set" -> <<[kind |-> "set", key |-> item.key, file |-> name]>>
    [] item.kind = "include" /\ path \in DOMAIN included -> included[path]
    [] OTHER -> <<[kind |-> "bad", key |-> NoName, file |-> name]>>

InPlace(items, name, dir, included) ==
  FlattenSeq([i \in DOMAIN items |-> ItemInPlace(items[i], name, dir, included)])

(* Each file with its includes put in, d levels of them still allowed.     *)
Expanded(files, dir) ==
  LET ex[d \in 0 .. Depth] ==
        LET openable == {q \in Paths : d > 0 /\ files[q].kind # "missing"}
            included == [q \in openable |-> ex[d - 1][q]]
        IN  [p \in Paths |-> InPlace(files[p].items, p[2], dir, included)]
  IN  ex

(* A read takes the settings of the file and of all it includes, in the    *)
(* order a single file with the includes written out would have: all of    *)
(* them when it succeeds, those before the first error when it fails; and  *)
(* it blames the file the first error is in.                               *)
ReadsWhatItIncludes ==
  [][op = "reading" /\ op' = "idle" /\ scan.frames[1].name # NoName =>
       LET all == Expanded(disk, opt.include_dir)[Depth][scan.frames[1].path]
           n == Len(config'.settings)
           seen(i) == {all[j].key : j \in 1 .. i - 1}
       IN /\ n <= Len(all)
          /\ \A i \in 1 .. n :
               all[i] = [kind |-> "set", key |-> config'.settings[i].key,
                         file |-> config'.settings[i].file]
          /\ result' = "true" <=> n = Len(all)
          /\ result' = "false" =>
               /\ all[n + 1].kind = "bad" \/ all[n + 1].key \in seen(n + 1)
               /\ config'.error.file = all[n + 1].file]_vars

(* A call that returned CONFIG_FALSE left its reason in the error fields,  *)
(* and no reason of an earlier call survives one that succeeded: callers   *)
(* (config_error_type, the C++ handleError) look at nothing else.          *)
FailureReported ==
  status = "running" /\ op = "idle" /\ result # "none" =>
    /\ result = "false" <=> config.error.type # "none"
    /\ config.error.type = "parse" =>
         config.error.text \notin {"none", "io"}

(* Reading a configuration destroys and re-initialises the config_t; the   *)
(* include directory and the conversion flag the application has set are   *)
(* carried over, so the next read resolves its includes as asked.          *)
OptionsKept ==
  status = "running" =>
    /\ opt.include_dir = wanted.include_dir
    /\ opt.auto = wanted.auto
==============================================================================
