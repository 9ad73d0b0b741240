-------------------------- MODULE ConfigFilesProofs --------------------------
(***************************************************************************)
(* Proofs about the files, file names and options of a config_t, for any   *)
(* file system, include depth and number of calls.  The pointers a         *)
(* configuration keeps into its list of file names are safe because a name *)
(* enters the scan context's list before its text is read, and the whole   *)
(* list is handed over however the read ends.  What a read takes is what   *)
(* the file stands for with its includes put in: at every moment that is   *)
(* what has been taken, then what is left of the texts on the include      *)
(* stack, from the innermost outwards.  At the end, the locales of the     *)
(* threads that call the library (ThreadLocale).                           *)
(***************************************************************************)
EXTENDS FilesAndLocales, SequenceTheorems, WellFoundedInduction, TLAPS

FrameType == [name: Names \cup {NoName}, path: Paths \cup {<<NoDir, NoName>>},
              rest: Seq(Items), loaded: BOOLEAN]

ScanType == [names: Seq(Names), slots: Nat, frames: Seq(FrameType)]

ErrorType ==
  [type: {"none", "io", "parse"},
   text: {"none", "io", "syntax error", "duplicate setting name",
          "include file nesting too deep", "cannot open include file"},
   file: Names \cup {NoName}]

ConfigType ==
  [settings: Seq([key: Keys, file: Names \cup {NoName}]),
   filenames: Seq(Names), error: ErrorType]

OptionType == [include_dir: Dirs \cup {NoDir}, auto: BOOLEAN, hex: BOOLEAN]

\* The list of file names of a scan context: no name twice, and room for all.
ListOK(ctx) ==
  /\ ctx \in ScanType
  /\ IsInjective(ctx.names)
  /\ ctx.slots % Chunk = 0 /\ Len(ctx.names) <= ctx.slots

\* Every text being read has its name in the list, and a path if it is yet to be read.
FramesOK(ctx) ==
  \A i \in DOMAIN ctx.frames :
    /\ ctx.frames[i].name \in ToSet(ctx.names) \cup {NoName}
    /\ ctx.frames[i].loaded \/ ctx.frames[i].path \in Paths

\* A setting and the error point to names of this list, or nowhere.
PointsInto(conf, names) ==
  /\ \A i \in DOMAIN conf.settings :
       conf.settings[i].file \in ToSet(names) \cup {NoName}
  /\ conf.error.file \in ToSet(names) \cup {NoName}

LEMMA Parameters ==
  /\ Depth \in Nat /\ Chunk \in Nat /\ Chunk > 0 /\ MaxOps \in Nat
  /\ NoDir \notin Dirs /\ NoName \notin Names
  /\ Texts \subseteq Seq(Items) /\ Disks \subseteq [Paths -> Contents]
BY FilesAssumption

LEMMA NoScanOK == ListOK(NoScan) /\ FramesOK(NoScan)
<1>1. NoScan \in ScanType
  BY DEF NoScan, ScanType
<1>2. IsInjective(NoScan.names) /\ NoScan.slots = 0 /\ Len(NoScan.names) = 0
  BY DEF NoScan, IsInjective
<1>3. 0 % Chunk = 0
  BY Parameters
<1> QED
  BY <1>1, <1>2, <1>3 DEF ListOK, FramesOK, NoScan

LEMMA NextMultiple ==
  ASSUME NEW m \in Nat, m % Chunk = 0
  PROVE  (m + Chunk) % Chunk = 0
<1> DEFINE q == m \div Chunk
<1>1. q \in Nat /\ m = Chunk * q
  BY Parameters
<1>2. m + Chunk = Chunk * (q + 1) /\ q + 1 \in Nat
  <2> HIDE DEF q
  <2> QED
    BY <1>1, Parameters
<1>3. \A k \in Nat : (Chunk * k) % Chunk = 0
  BY Parameters
<1> HIDE DEF q
<1> QED
  BY <1>2, <1>3

\* Adding a name keeps the list free of doubles and within its array, which is full
\* only when it grows.
LEMMA AddNameOK ==
  ASSUME NEW ctx, ListOK(ctx), NEW name \in Names
  PROVE  /\ ListOK(AddName(ctx, name))
         /\ AddName(ctx, name).frames = ctx.frames
         /\ ToSet(AddName(ctx, name).names) = ToSet(ctx.names) \cup {name}
<1> DEFINE n == Len(ctx.names)
<1>1. ctx \in ScanType /\ n \in Nat /\ ctx.slots \in Nat /\ n <= ctx.slots
  BY DEF ListOK, ScanType
<1>2. CASE name \in ToSet(ctx.names)
  BY <1>2 DEF AddName
<1>3. CASE name \notin ToSet(ctx.names)
  <2>1. DOMAIN ctx.names = 1 .. n /\ ctx.names \in Seq(Names)
    BY <1>1 DEF ScanType
  <2>2. \A i \in 1 .. n : ctx.names[i] # name
    BY <1>3, <2>1 DEF ToSet
  <2> DEFINE more == Append(ctx.names, name)
             slots == IF n % Chunk = 0 THEN n + Chunk ELSE ctx.slots
  <2>3. /\ more \in Seq(Names) /\ Len(more) = n + 1
        /\ DOMAIN more = 1 .. n + 1
        /\ \A i \in 1 .. n : more[i] = ctx.names[i]
        /\ more[n + 1] = name
    BY <1>1, <2>1
  <2>4. AddName(ctx, name) = [ctx EXCEPT !.names = more, !.slots = slots]
    BY <1>3 DEF AddName
  <2>5. slots \in Nat /\ slots % Chunk = 0 /\ n + 1 <= slots
    <3>1. CASE n % Chunk = 0
      <4>1. (n + Chunk) % Chunk = 0
        BY <1>1, <3>1, NextMultiple
      <4>2. slots = n + Chunk
        BY <3>1
      <4> HIDE DEF n, slots
      <4> QED
        BY <1>1, <4>1, <4>2, Parameters
    <3>2. CASE n % Chunk # 0
      <4>1. n # ctx.slots
        BY <3>2 DEF ListOK
      <4> QED
        BY <1>1, <3>2, <4>1 DEF ListOK
    <3> QED
      BY <3>1, <3>2
  <2> HIDE DEF more, slots, n
  <2>6. /\ AddName(ctx, name) \in ScanType
        /\ AddName(ctx, name).names = more /\ AddName(ctx, name).slots = slots
        /\ AddName(ctx, name).frames = ctx.frames
    BY <1>1, <2>3, <2>4, <2>5 DEF ScanType
  <2>7. IsInjective(ctx.names)
    BY DEF ListOK
  <2>8. IsInjective(more)
    BY <1>1, <2>1, <2>2, <2>3, <2>7 DEF IsInjective
  <2>9. ToSet(more) = ToSet(ctx.names) \cup {name}
    <3>1. \A x : x \in ToSet(more) <=> \E i \in 1 .. n + 1 : x = more[i]
      BY <2>3 DEF ToSet
    <3>2. \A x : x \in ToSet(ctx.names) <=> \E i \in 1 .. n : x = ctx.names[i]
      BY <2>1 DEF ToSet
    <3> QED
      BY <1>1, <2>3, <3>1, <3>2
  <2> QED
    BY <2>3, <2>5, <2>6, <2>8, <2>9 DEF ListOK
<1> QED
  BY <1>2, <1>3
-----------------------------------------------------------------------------
\* A context in the middle of a read, and what it owns
InRead(ctx) == ListOK(ctx) /\ FramesOK(ctx) /\ ctx.frames # <<>>

Outermost(ctx) == IF ctx.frames[1].name = NoName THEN 0 ELSE 1

Own(ctx) == Len(ctx.frames) - 1 + Outermost(ctx)

LEMMA InReadFacts ==
  ASSUME NEW ctx, InRead(ctx)
  PROVE  /\ ctx \in ScanType
         /\ Len(ctx.frames) \in Nat /\ Len(ctx.frames) >= 1
         /\ DOMAIN ctx.frames = 1 .. Len(ctx.frames)
         /\ \A i \in 1 .. Len(ctx.frames) : ctx.frames[i] \in FrameType
         /\ Last(ctx.frames) = ctx.frames[Len(ctx.frames)]
         /\ Last(ctx.frames) \in FrameType
         /\ Last(ctx.frames).name \in ToSet(ctx.names) \cup {NoName}
         /\ Own(ctx) \in Nat
<1>1. ctx \in ScanType /\ ctx.frames \in Seq(FrameType) /\ ctx.frames # <<>>
  BY DEF InRead, ListOK, ScanType
<1>2. /\ Len(ctx.frames) \in Nat /\ Len(ctx.frames) >= 1
      /\ DOMAIN ctx.frames = 1 .. Len(ctx.frames)
      /\ \A i \in 1 .. Len(ctx.frames) : ctx.frames[i] \in FrameType
  BY <1>1
<1>3. Len(ctx.frames) \in 1 .. Len(ctx.frames)
  BY <1>2
<1>4. Last(ctx.frames) = ctx.frames[Len(ctx.frames)]
  BY DEF Last
<1>5. Last(ctx.frames).name \in ToSet(ctx.names) \cup {NoName}
  BY <1>2, <1>3, <1>4 DEF InRead, FramesOK
<1>6. Own(ctx) \in Nat
  <2>1. Outermost(ctx) \in {0, 1}
    BY DEF Outermost
  <2> QED
    BY <1>2, <2>1 DEF Own
<1> QED
  BY <1>1, <1>2, <1>3, <1>4, <1>5, <1>6

\* The innermost text moves on: nothing else of the context changes.
LEMMA TopMoves ==
  ASSUME NEW ctx, InRead(ctx), NEW f \in FrameType,
         f.name = Last(ctx.frames).name, f.loaded \/ f.path \in Paths
  PROVE  LET new == [ctx EXCEPT !.frames = [ctx.frames EXCEPT ![Len(ctx.frames)] = f]] IN
         InRead(new) /\ new.names = ctx.names /\ Own(new) = Own(ctx)
<1> DEFINE n == Len(ctx.frames)
           fs == [ctx.frames EXCEPT ![n] = f]
           new == [ctx EXCEPT !.frames = fs]
<1>1. /\ ctx \in ScanType /\ n \in Nat /\ n >= 1 /\ DOMAIN ctx.frames = 1 .. n
      /\ ctx.frames \in Seq(FrameType) /\ Last(ctx.frames) = ctx.frames[n]
  BY InReadFacts DEF ScanType
<1>2. n \in 1 .. Len(ctx.frames)
  BY <1>1
<1>3. /\ fs \in Seq(FrameType) /\ Len(fs) = n /\ DOMAIN fs = 1 .. n
      /\ \A i \in 1 .. n : fs[i] = IF i = n THEN f ELSE ctx.frames[i]
  BY <1>1, <1>2, ExceptSeq
<1> HIDE DEF fs
<1>4. /\ new \in ScanType /\ new.names = ctx.names /\ new.slots = ctx.slots
      /\ new.frames = fs
  BY <1>1, <1>3 DEF ScanType
<1> HIDE DEF new, n
<1>5. ListOK(new)
  BY <1>4 DEF ListOK, InRead
<1>6. FramesOK(new)
  <2> SUFFICES ASSUME NEW i \in 1 .. n
               PROVE  /\ fs[i].name \in ToSet(ctx.names) \cup {NoName}
                      /\ fs[i].loaded \/ fs[i].path \in Paths
    BY <1>3, <1>4 DEF FramesOK
  <2>1. ctx.frames[i].name \in ToSet(ctx.names) \cup {NoName}
    BY <1>1 DEF InRead, FramesOK
  <2>2. ctx.frames[i].loaded \/ ctx.frames[i].path \in Paths
    BY <1>1 DEF InRead, FramesOK
  <2>3. CASE i = n
    BY <1>1, <1>3, <2>1, <2>3
  <2>4. CASE i # n
    BY <1>3, <2>1, <2>2, <2>4
  <2> QED
    BY <2>3, <2>4
<1>7. fs[1].name = ctx.frames[1].name
  BY <1>1, <1>3
<1>8. Own(new) = Own(ctx)
  BY <1>1, <1>3, <1>4, <1>7 DEF Own, Outermost, n
<1>9. fs # <<>>
  BY <1>1, <1>3
<1> QED
  BY <1>4, <1>5, <1>6, <1>8, <1>9 DEF InRead, new, fs, n

\* A text is opened on top of the others, its name in the list.
LEMMA TopOpens ==
  ASSUME NEW ctx, InRead(ctx), NEW f \in FrameType,
         f.name \in ToSet(ctx.names), f.path \in Paths
  PROVE  LET new == [ctx EXCEPT !.frames = Append(ctx.frames, f)] IN
         InRead(new) /\ new.names = ctx.names /\ Own(new) = Own(ctx) + 1
<1> DEFINE n == Len(ctx.frames)
           fs == Append(ctx.frames, f)
           new == [ctx EXCEPT !.frames = fs]
<1>1. /\ ctx \in ScanType /\ n \in Nat /\ n >= 1 /\ DOMAIN ctx.frames = 1 .. n
      /\ ctx.frames \in Seq(FrameType)
  BY InReadFacts DEF ScanType
<1>2. /\ fs \in Seq(FrameType) /\ Len(fs) = n + 1 /\ DOMAIN fs = 1 .. n + 1
      /\ \A i \in 1 .. n : fs[i] = ctx.frames[i]
      /\ fs[n + 1] = f
  BY <1>1
<1> HIDE DEF fs
<1>3. /\ new \in ScanType /\ new.names = ctx.names /\ new.slots = ctx.slots
      /\ new.frames = fs
  BY <1>1, <1>2 DEF ScanType
<1> HIDE DEF new, n
<1>4. ListOK(new)
  BY <1>3 DEF ListOK, InRead
<1>5. FramesOK(new)
  <2> SUFFICES ASSUME NEW i \in 1 .. n + 1
               PROVE  /\ fs[i].name \in ToSet(ctx.names) \cup {NoName}
                      /\ fs[i].loaded \/ fs[i].path \in Paths
    BY <1>2, <1>3 DEF FramesOK
  <2>1. CASE i \in 1 .. n
    BY <1>1, <1>2, <2>1 DEF InRead, FramesOK
  <2>2. CASE i = n + 1
    BY <1>2, <2>2
  <2> QED
    BY <1>1, <2>1, <2>2
<1>6. Own(new) = Own(ctx) + 1
  <2>1. new.frames[1] = ctx.frames[1]
    BY <1>1, <1>2, <1>3
  <2>2. Outermost(new) = Outermost(ctx) /\ Outermost(ctx) \in {0, 1}
    BY <2>1 DEF Outermost
  <2>3. Len(new.frames) = Len(ctx.frames) + 1
    BY <1>2, <1>3 DEF n
  <2> QED
    BY <1>1, <2>2, <2>3 DEF Own, n
<1>7. fs # <<>>
  BY <1>1, <1>2
<1> QED
  BY <1>3, <1>4, <1>5, <1>6, <1>7 DEF InRead, new, fs

\* The innermost text is done with.
LEMMA TopCloses ==
  ASSUME NEW ctx, InRead(ctx), Len(ctx.frames) > 1
  PROVE  LET new == [ctx EXCEPT !.frames = Front(ctx.frames)] IN
         InRead(new) /\ new.names = ctx.names /\ Own(new) = Own(ctx) - 1
<1> DEFINE n == Len(ctx.frames)
           fs == Front(ctx.frames)
           new == [ctx EXCEPT !.frames = fs]
<1>1. /\ ctx \in ScanType /\ n \in Nat /\ n > 1 /\ DOMAIN ctx.frames = 1 .. n
      /\ ctx.frames \in Seq(FrameType)
  BY InReadFacts DEF ScanType
<1>2. /\ fs \in Seq(FrameType) /\ Len(fs) = n - 1 /\ DOMAIN fs = 1 .. n - 1
      /\ \A i \in 1 .. n - 1 : fs[i] = ctx.frames[i]
  BY <1>1 DEF Front
<1> HIDE DEF fs
<1>3. /\ new \in ScanType /\ new.names = ctx.names /\ new.slots = ctx.slots
      /\ new.frames = fs
  BY <1>1, <1>2 DEF ScanType
<1> HIDE DEF new, n
<1>4. ListOK(new)
  BY <1>3 DEF ListOK, InRead
<1>5. FramesOK(new)
  <2> SUFFICES ASSUME NEW i \in 1 .. n - 1
               PROVE  /\ fs[i].name \in ToSet(ctx.names) \cup {NoName}
                      /\ fs[i].loaded \/ fs[i].path \in Paths
    BY <1>2, <1>3 DEF FramesOK
  <2> QED
    BY <1>1, <1>2 DEF InRead, FramesOK
<1>6. Own(new) = Own(ctx) - 1
  <2>1. new.frames[1] = ctx.frames[1]
    BY <1>1, <1>2, <1>3
  <2>2. Outermost(new) = Outermost(ctx) /\ Outermost(ctx) \in {0, 1}
    BY <2>1 DEF Outermost
  <2>3. Len(new.frames) = Len(ctx.frames) - 1
    BY <1>2, <1>3 DEF n
  <2> QED
    BY <1>1, <2>2, <2>3 DEF Own, n
<1>7. fs # <<>>
  BY <1>1, <1>2
<1> QED
  BY <1>3, <1>4, <1>5, <1>6, <1>7 DEF InRead, new, fs
-----------------------------------------------------------------------------
Typed ==
  /\ disk \in [Paths -> Contents]
  /\ opt \in OptionType /\ wanted \in OptionType
  /\ config \in ConfigType /\ ListOK(scan)
  /\ streams \in Nat /\ calls \in 0 .. MaxOps
  /\ op \in {"idle", "reading", "writing"}
  /\ target \in Paths \cup {<<NoDir, NoName>>}
  /\ result \in {"none", "true", "false"}
  /\ status \in {"running", "exited", "crashed"}

\* The list of file names that config_destroy or scanctx_cleanup will free
Alive == IF op = "reading" THEN scan.names ELSE config.filenames

\* The inductive invariant: what is true in the middle of a read as well.
FInv ==
  /\ Typed
  /\ op = "reading" => InRead(scan) /\ config.error = NoError
  /\ op = "writing" => target \in Paths
  /\ PointsInto(config, Alive) /\ IsInjective(Alive)
  /\ StreamsClosed /\ FailureReported /\ OptionsKept

LEMMA NoErrorOK == NoError \in ErrorType /\ NoError.file = NoName /\ NoError.type = "none"
BY DEF NoError, ErrorType

LEMMA EmptyConfigOK ==
  /\ EmptyConfig \in ConfigType /\ EmptyConfig.error = NoError
  /\ EmptyConfig.filenames = <<>> /\ IsInjective(<<>>)
  /\ \A names : PointsInto(EmptyConfig, names)
<1>1. EmptyConfig \in ConfigType
  BY NoErrorOK DEF EmptyConfig, ConfigType
<1> QED
  BY <1>1, NoErrorOK DEF EmptyConfig, PointsInto, IsInjective

LEMMA InitFInv == Init => FInv
<1> SUFFICES ASSUME Init PROVE FInv
  OBVIOUS
<1>1. opt \in OptionType /\ wanted \in OptionType
  BY DEF Init, NoOptions, OptionType
<1>2. disk \in [Paths -> Contents] /\ calls \in 0 .. MaxOps
  BY Parameters DEF Init
<1>3. Typed
  BY <1>1, <1>2, NoScanOK, EmptyConfigOK DEF Init, Typed
<1>4. PointsInto(config, Alive) /\ IsInjective(Alive)
  BY EmptyConfigOK DEF Init, Alive
<1> QED
  BY <1>3, <1>4 DEF Init, FInv, StreamsClosed, FailureReported, OptionsKept

\* A step within a read: more of the text is taken, or another text begun or ended.
LEMMA ReadingGoesOn ==
  ASSUME FInv, Reading, InRead(scan'), streams' = Own(scan'),
         config' \in ConfigType, config'.error = config.error,
         PointsInto(config', scan'.names), status' \in {"running", "exited"},
         UNCHANGED <<disk, opt, op, target, result, wanted, calls>>
  PROVE  FInv'
<1>1. op = "reading" /\ op' = "reading" /\ status = "running"
  BY DEF Reading
<1>2. streams' \in Nat /\ ListOK(scan')
  BY InReadFacts DEF InRead
<1>3. Typed'
  BY <1>2 DEF FInv, Typed
<1>4. Alive' = scan'.names
  BY <1>1 DEF Alive
<1>5. IsInjective(scan'.names)
  BY <1>2 DEF ListOK
<1>6. StreamsClosed'
  BY <1>1 DEF StreamsClosed, Own, Outermost, OwnStreams, IncludeDepth
<1>7. FailureReported' /\ OptionsKept'
  BY <1>1 DEF FInv, FailureReported, OptionsKept
<1> QED
  BY <1>1, <1>3, <1>4, <1>5, <1>6, <1>7 DEF FInv

\* The end of a read: the list and whatever points into it change hands together, and
\* all the library opened is closed.
LEMMA ReadEnds ==
  ASSUME FInv, Reading, NEW r \in {"true", "false"}, NEW conf \in ConfigType,
         Finish(r, conf), PointsInto(conf, scan.names),
         r = "false" <=> conf.error.type # "none",
         conf.error.type = "parse" => conf.error.text \notin {"none", "io"}
  PROVE  FInv'
<1>1. op = "reading" /\ status = "running" /\ op' = "idle" /\ status' = "running"
  BY DEF Reading, Finish
<1>2. scan.names \in Seq(Names) /\ IsInjective(scan.names) /\ InRead(scan)
  BY <1>1 DEF FInv, InRead, ListOK, ScanType
<1>3. streams = Own(scan) /\ Own(scan) = OwnStreams
  BY <1>1 DEF FInv, StreamsClosed, Own, Outermost, OwnStreams, IncludeDepth
<1>4. streams' = 0
  BY <1>2, <1>3, InReadFacts DEF Finish
<1>5. config' \in ConfigType /\ config'.filenames = scan.names
      /\ config'.settings = conf.settings /\ config'.error = conf.error
  BY <1>2 DEF Finish, ConfigType
<1>6. Typed'
  BY <1>1, <1>4, <1>5, NoScanOK DEF FInv, Typed, Finish
<1>7. Alive' = scan.names
  BY <1>1, <1>5 DEF Alive
<1>8. PointsInto(config', Alive')
  BY <1>5, <1>7 DEF PointsInto
<1>9. StreamsClosed' /\ OptionsKept'
  BY <1>1, <1>4 DEF FInv, StreamsClosed, OptionsKept, Finish
<1>10. FailureReported'
  BY <1>1, <1>5 DEF FailureReported, Finish
<1> QED
  BY <1>1, <1>2, <1>6, <1>7, <1>8, <1>9, <1>10 DEF FInv

LEMMA FailInv ==
  ASSUME FInv, Reading,
         NEW text \in {"syntax error", "duplicate setting name",
                       "include file nesting too deep", "cannot open include file"},
         Fail(text)
  PROVE  FInv'
<1> DEFINE err == [type |-> "parse", text |-> text, file |-> CurrentName]
           conf == [config EXCEPT !.error = err]
<1>1. InRead(scan) /\ config \in ConfigType /\ PointsInto(config, scan.names)
  BY DEF FInv, Typed, Reading, Alive
<1>2. CurrentName \in ToSet(scan.names) \cup {NoName} /\ CurrentName \in Names \cup {NoName}
  <2>1. Last(scan.frames) \in FrameType /\ Last(scan.frames).name \in ToSet(scan.names) \cup {NoName}
    BY <1>1, InReadFacts
  <2> QED
    BY <2>1 DEF CurrentName, FrameType
<1>3. err \in ErrorType
  BY <1>2 DEF ErrorType
<1>4. /\ conf \in ConfigType /\ conf.settings = config.settings
      /\ conf.error.type = "parse" /\ conf.error.text = text
      /\ conf.error.file = CurrentName
  <2>1. err.type = "parse" /\ err.text = text /\ err.file = CurrentName
    OBVIOUS
  <2> HIDE DEF err
  <2>2. conf \in ConfigType /\ conf.settings = config.settings /\ conf.error = err
    BY <1>1, <1>3 DEF ConfigType
  <2> QED
    BY <2>1, <2>2
<1>5. PointsInto(conf, scan.names)
  BY <1>1, <1>2, <1>4 DEF PointsInto
<1>6. Finish("false", conf)
  BY DEF Fail
<1> HIDE DEF conf
<1> QED
  BY <1>4, <1>5, <1>6, ReadEnds
-----------------------------------------------------------------------------
\* The innermost text in a read, and its next item
LEMMA Innermost ==
  ASSUME FInv, Reading
  PROVE  /\ InRead(scan) /\ config \in ConfigType /\ config.error = NoError
         /\ PointsInto(config, scan.names) /\ streams = Own(scan)
         /\ Last(scan.frames) \in FrameType /\ Last(scan.frames) = scan.frames[Len(scan.frames)]
         /\ Last(scan.frames).name \in ToSet(scan.names) \cup {NoName}
         /\ scan \in ScanType /\ scan.frames \in Seq(FrameType)
         /\ Len(scan.frames) \in 1 .. Len(scan.frames)
         /\ ~ Last(scan.frames).loaded => Last(scan.frames).path \in Paths
<1>1. op = "reading" /\ status = "running"
  BY DEF Reading
<1>2. InRead(scan) /\ scan \in ScanType /\ scan.frames \in Seq(FrameType)
  BY <1>1 DEF FInv, InRead, ListOK, ScanType
<1>3. streams = Own(scan)
  BY <1>1 DEF FInv, StreamsClosed, Own, Outermost, OwnStreams, IncludeDepth
<1>4. Len(scan.frames) \in 1 .. Len(scan.frames)
  BY <1>2, InReadFacts
<1>5. ~ Last(scan.frames).loaded => Last(scan.frames).path \in Paths
  BY <1>2, <1>4, InReadFacts DEF InRead, FramesOK
<1> QED
  BY <1>1, <1>2, <1>3, <1>4, <1>5, InReadFacts DEF FInv, Typed, Alive

LEMMA FillInv == ASSUME FInv, Fill PROVE FInv'
<1> DEFINE top == Last(scan.frames)
<1>1. Reading /\ ~ top.loaded
  BY DEF Fill
<1>2. CASE status' = "exited" /\ UNCHANGED scan
  BY <1>1, <1>2, Innermost, ReadingGoesOn DEF Fill
<1>3. CASE /\ scan' = [scan EXCEPT !.frames[Len(scan.frames)] =
                         [top EXCEPT !.rest = disk[top.path].items, !.loaded = TRUE]]
           /\ UNCHANGED status
  <2> DEFINE f == [top EXCEPT !.rest = disk[top.path].items, !.loaded = TRUE]
  <2>1. top \in FrameType /\ top.path \in Paths
    BY <1>1, Innermost
  <2>2. disk[top.path].items \in Seq(Items)
    BY <2>1 DEF FInv, Typed, Contents
  <2>3. f \in FrameType /\ f.name = top.name /\ f.loaded
    BY <2>1, <2>2 DEF FrameType
  <2>4. scan' = [scan EXCEPT !.frames = [scan.frames EXCEPT ![Len(scan.frames)] = f]]
    BY <1>3
  <2> HIDE DEF f
  <2>5. InRead(scan') /\ scan'.names = scan.names /\ Own(scan') = Own(scan)
    BY <1>1, <2>3, <2>4, Innermost, TopMoves
  <2>6. status' \in {"running", "exited"} /\ UNCHANGED <<config, streams>>
    BY <1>1, <1>3 DEF Fill, Reading
  <2> QED
    BY <1>1, <2>5, <2>6, Innermost, ReadingGoesOn DEF Fill
<1> QED
  BY <1>2, <1>3 DEF Fill

\* The next item is one of the text; taking it leaves a context that is in a read.
LEMMA ItemTaken ==
  ASSUME FInv, NEW kind, NextItem(kind), NEW ctx, InRead(ctx), ctx.frames = scan.frames
  PROVE  LET new == [ctx EXCEPT !.frames = Skip(@)] IN
         /\ Item \in Items /\ Item.kind = kind
         /\ InRead(new) /\ new.names = ctx.names /\ Own(new) = Own(ctx)
<1> DEFINE top == Last(scan.frames)
           f == [top EXCEPT !.rest = Tail(top.rest)]
           new == [ctx EXCEPT !.frames = Skip(ctx.frames)]
<1>1. Reading /\ top.loaded /\ top.rest # <<>> /\ Item = Head(top.rest) /\ Item.kind = kind
  BY DEF NextItem, Item
<1>2. top \in FrameType /\ top = scan.frames[Len(scan.frames)]
  BY <1>1, Innermost
<1>3. top.rest \in Seq(Items)
  BY <1>2 DEF FrameType
<1>4. Item \in Items /\ Tail(top.rest) \in Seq(Items)
  <2> DEFINE rest == top.rest
  <2>1. rest \in Seq(Items) /\ rest # <<>> /\ Item = Head(rest)
    BY <1>1, <1>3
  <2> HIDE DEF rest
  <2>2. Head(rest) \in Items /\ Tail(rest) \in Seq(Items)
    BY <2>1
  <2> QED
    BY <2>1, <2>2 DEF rest
<1>5. f \in FrameType /\ f.name = top.name /\ f.loaded
  BY <1>1, <1>2, <1>4 DEF FrameType
<1>6. Skip(ctx.frames) = [ctx.frames EXCEPT ![Len(ctx.frames)] = f]
  BY <1>2 DEF Skip
<1>7. new = [ctx EXCEPT !.frames = [ctx.frames EXCEPT ![Len(ctx.frames)] = f]]
  BY <1>6
<1>8. f.name = Last(ctx.frames).name
  BY <1>5
<1> HIDE DEF f, top
<1>9. InRead(new) /\ new.names = ctx.names /\ Own(new) = Own(ctx)
  BY <1>5, <1>7, <1>8, TopMoves
<1> QED
  BY <1>1, <1>4, <1>9

LEMMA SetInv == ASSUME FInv, Set PROVE FInv'
<1> DEFINE entry == [key |-> Item.key, file |-> CurrentName]
           settings == Append(config.settings, entry)
<1>1. Reading /\ NextItem("set")
  BY DEF Set, NextItem
<1>2. /\ Item \in Items /\ Item.kind = "set" /\ InRead(scan')
      /\ scan'.names = scan.names /\ Own(scan') = Own(scan)
  BY <1>1, Innermost, ItemTaken DEF Set
<1>3. Item.key \in Keys
  BY <1>2 DEF Items
<1>4. /\ CurrentName \in ToSet(scan.names) \cup {NoName}
      /\ CurrentName \in Names \cup {NoName}
  BY <1>1, Innermost DEF CurrentName, FrameType
<1>5. entry \in [key: Keys, file: Names \cup {NoName}]
  BY <1>3, <1>4
<1>6. /\ config.settings \in Seq([key: Keys, file: Names \cup {NoName}])
      /\ config \in ConfigType
  BY <1>1, Innermost DEF ConfigType
<1>7. entry.file = CurrentName
  OBVIOUS
<1> HIDE DEF entry
<1>8. /\ settings \in Seq([key: Keys, file: Names \cup {NoName}])
      /\ DOMAIN settings = 1 .. Len(config.settings) + 1
      /\ DOMAIN config.settings = 1 .. Len(config.settings)
      /\ Len(config.settings) \in Nat
      /\ \A i \in 1 .. Len(config.settings) : settings[i] = config.settings[i]
      /\ settings[Len(config.settings) + 1] = entry
  BY <1>5, <1>6
<1>9. config' = [config EXCEPT !.settings = settings]
  BY DEF Set, entry
<1> HIDE DEF settings
<1>10. /\ config' \in ConfigType /\ config'.error = config.error
       /\ config'.settings = settings
  BY <1>6, <1>8, <1>9 DEF ConfigType
<1>11. PointsInto(config', scan'.names)
  <2>1. PointsInto(config, scan.names)
    BY <1>1, Innermost
  <2>2. \A i \in DOMAIN settings : settings[i].file \in ToSet(scan.names) \cup {NoName}
    <3> TAKE i \in DOMAIN settings
    <3>1. CASE i \in 1 .. Len(config.settings)
      BY <1>8, <2>1, <3>1 DEF PointsInto
    <3>2. CASE i = Len(config.settings) + 1
      BY <1>4, <1>7, <1>8, <3>2
    <3> QED
      BY <1>8, <3>1, <3>2
  <2> QED
    BY <1>2, <1>10, <2>1, <2>2 DEF PointsInto
<1>12. status' \in {"running", "exited"} /\ streams' = Own(scan')
  BY <1>1, <1>2, Innermost DEF Set, Reading
<1> QED
  BY <1>1, <1>2, <1>10, <1>11, <1>12, ReadingGoesOn DEF Set

LEMMA ErrorsInv ==
  ASSUME FInv
  PROVE  Duplicate \/ SyntaxError \/ FailInclude => FInv'
<1>1. ASSUME Duplicate PROVE FInv'
  BY <1>1, FailInv DEF Duplicate, NextItem
<1>2. ASSUME SyntaxError PROVE FInv'
  BY <1>2, FailInv DEF SyntaxError, NextItem
<1>3. ASSUME FailInclude PROVE FInv'
  BY <1>3, FailInv DEF FailInclude, NextItem
<1> QED
  BY <1>1, <1>2, <1>3

LEMMA IncludeInv == ASSUME FInv, Include PROVE FInv'
<1> DEFINE name == Item.name
           ctx == AddName(scan, name)
           new == [ctx EXCEPT !.frames = Skip(@)]
           f == Frame(name, IncludedPath)
<1>1. NextItem("include") /\ Reading
  BY DEF Include, NextItem
<1>2. InRead(scan) /\ ListOK(scan) /\ FramesOK(scan)
  BY <1>1, Innermost DEF InRead
<1>3. Item \in Items /\ Item.kind = "include"
  BY <1>1, <1>2, ItemTaken
<1>4. name \in Names
  BY <1>3 DEF Items
<1>5. /\ ListOK(ctx) /\ ctx.frames = scan.frames
      /\ ToSet(ctx.names) = ToSet(scan.names) \cup {name}
  BY <1>2, <1>4, AddNameOK
<1>6. InRead(ctx) /\ Own(ctx) = Own(scan)
  BY <1>2, <1>5 DEF InRead, FramesOK, Own, Outermost
<1> HIDE DEF ctx
<1>7. InRead(new) /\ new.names = ctx.names /\ Own(new) = Own(ctx)
  BY <1>1, <1>5, <1>6, ItemTaken
<1>8. IncludedPath \in Paths
  BY <1>4 DEF FInv, Typed, OptionType, IncludedPath, Paths
<1>9. f \in FrameType /\ f.name = name /\ f.path = IncludedPath
  BY <1>4, <1>8 DEF Frame, FrameType
<1>10. ctx \in ScanType /\ new.frames = Skip(ctx.frames)
  BY <1>6 DEF InRead, ListOK, ScanType
<1>11. scan' = [new EXCEPT !.frames = Append(new.frames, f)]
  <2>1. scan' = [ctx EXCEPT !.frames = Append(Skip(@), f)]
    BY DEF Include, ctx
  <2>2. scan' = [ctx EXCEPT !.frames = Append(Skip(ctx.frames), f)]
    BY <2>1
  <2> QED
    BY <1>10, <2>2 DEF ScanType
<1> HIDE DEF new, f, name
<1>12. InRead(scan') /\ scan'.names = ctx.names /\ Own(scan') = Own(scan) + 1
  BY <1>5, <1>6, <1>7, <1>8, <1>9, <1>11, TopOpens
<1>13. PointsInto(config, scan'.names) /\ streams' = Own(scan')
  BY <1>1, <1>5, <1>12, Innermost DEF PointsInto, Include
<1>14. status' \in {"running", "exited"} /\ UNCHANGED config
  BY <1>1 DEF Include, Reading
<1> QED
  BY <1>1, <1>12, <1>13, <1>14, Innermost, ReadingGoesOn DEF Include

LEMMA PopIncludeInv == ASSUME FInv, PopInclude PROVE FInv'
<1>1. Reading /\ IncludeDepth > 0
  BY DEF PopInclude, AtEnd
<1>2. InRead(scan) /\ scan.frames \in Seq(FrameType)
  BY <1>1, Innermost
<1>3. Len(scan.frames) > 1
  BY <1>1, <1>2 DEF IncludeDepth
<1>4. scan' = [scan EXCEPT !.frames = Front(scan.frames)]
  BY DEF PopInclude
<1>5. InRead(scan') /\ scan'.names = scan.names /\ Own(scan') = Own(scan) - 1
  BY <1>2, <1>3, <1>4, TopCloses
<1>6. status' \in {"running", "exited"} /\ UNCHANGED config
  BY <1>1 DEF PopInclude, Reading
<1>7. streams' = Own(scan')
  BY <1>1, <1>5, Innermost DEF PopInclude
<1> QED
  BY <1>1, <1>5, <1>6, <1>7, Innermost, ReadingGoesOn DEF PopInclude

LEMMA EndOfTextInv == ASSUME FInv, EndOfText PROVE FInv'
<1>1. Reading /\ Finish("true", config)
  BY DEF EndOfText, AtEnd
<1>2. config \in ConfigType /\ config.error.type = "none" /\ PointsInto(config, scan.names)
  BY <1>1, Innermost, NoErrorOK
<1> QED
  BY <1>1, <1>2, ReadEnds

\* What is written is a beginning of the settings, perhaps cut.
LEMMA FlushAndCloseInv ==
  ASSUME FInv, NEW k \in 0 .. Len(config.settings), NEW cut \in BOOLEAN,
         FlushAndClose(k, cut)
  PROVE  FInv'
<1> DEFINE items == Written(config.settings)
           tail == IF cut THEN <<[kind |-> "bad"]>> ELSE <<>>
           text == SubSeq(items, 1, k) \o tail
<1>1. op = "writing" /\ status = "running" /\ target \in Paths /\ config \in ConfigType
  BY DEF FlushAndClose, FInv, Typed
<1>2. config.settings \in Seq([key: Keys, file: Names \cup {NoName}])
  BY <1>1 DEF ConfigType
<1>3. items \in Seq(Items) /\ Len(items) = Len(config.settings)
  <2> DEFINE ss == config.settings
             n == Len(ss)
  <2>1. n \in Nat /\ DOMAIN ss = 1 .. n /\ \A i \in 1 .. n : ss[i].key \in Keys
    <3>1. ss \in Seq([key: Keys, file: Names \cup {NoName}])
      BY <1>2
    <3> HIDE DEF ss
    <3>2. n \in Nat /\ DOMAIN ss = 1 .. n
      BY <3>1
    <3>3. \A i \in 1 .. n : ss[i] \in [key: Keys, file: Names \cup {NoName}]
      BY <3>1, ElementOfSeq
    <3> QED
      BY <3>2, <3>3
  <2>2. \A i \in 1 .. n : [kind |-> "set", key |-> ss[i].key] \in Items
    BY <2>1 DEF Items
  <2>3. items = [i \in 1 .. n |-> [kind |-> "set", key |-> ss[i].key]]
    BY <2>1 DEF Written
  <2> HIDE DEF ss, n
  <2>4. items \in [1 .. n -> Items]
    BY <2>2, <2>3
  <2>5. items \in Seq(Items) /\ Len(items) = n
    <3> HIDE DEF items
    <3>1. items \in Seq(Items)
      BY <2>1, <2>4, SeqDef
    <3>2. DOMAIN items = 1 .. n
      BY <2>4
    <3> QED
      BY <2>1, <3>1, <3>2, LenProperties
  <2> QED
    BY <2>5 DEF n, ss
<1>4. tail \in Seq(Items)
  BY DEF Items
<1> HIDE DEF items, tail
<1>5. SubSeq(items, 1, k) \in Seq(Items)
  BY <1>2, <1>3
<1>6. text \in Seq(Items)
  BY <1>4, <1>5, ConcatProperties
<1>7. disk' = [disk EXCEPT ![target] = File(text)]
  BY DEF FlushAndClose, items, tail
<1> HIDE DEF text
<1>8. disk' \in [Paths -> Contents]
  <2>1. File(text) \in Contents
    BY <1>6 DEF File, Contents
  <2> QED
    BY <1>1, <1>7, <2>1 DEF FInv, Typed
<1>9. /\ config' \in ConfigType /\ config'.settings = config.settings
      /\ config'.filenames = config.filenames
      /\ config'.error.type = "none" /\ config'.error.file = config.error.file
  <2>1. config.error \in ErrorType
    BY <1>1 DEF ConfigType
  <2>2. config' = [config EXCEPT !.error = [config.error EXCEPT !.type = "none"]]
    BY DEF FlushAndClose
  <2>3. [config.error EXCEPT !.type = "none"] \in ErrorType
    BY <2>1 DEF ErrorType
  <2> QED
    BY <1>1, <2>1, <2>2, <2>3 DEF ConfigType, ErrorType
<1>10. streams' = 0
  BY <1>1 DEF FInv, StreamsClosed, FlushAndClose
<1>11. Typed'
  BY <1>8, <1>9, <1>10 DEF FInv, Typed, FlushAndClose
<1>12. PointsInto(config', Alive') /\ IsInjective(Alive')
  BY <1>1, <1>9 DEF FInv, Alive, PointsInto, FlushAndClose
<1>13. StreamsClosed' /\ FailureReported' /\ OptionsKept'
  BY <1>1, <1>9, <1>10 DEF FInv, StreamsClosed, FailureReported, OptionsKept, FlushAndClose
<1> QED
  BY <1>11, <1>12, <1>13 DEF FInv, FlushAndClose

LEMMA LibraryInv == ASSUME FInv, Library PROVE FInv'
BY FillInv, SetInv, ErrorsInv, IncludeInv, PopIncludeInv, EndOfTextInv, FlushAndCloseInv
   DEF Library
-----------------------------------------------------------------------------
\* Nothing is open when the application calls, and every call is counted.
LEMMA CallFacts ==
  ASSUME FInv, Call
  PROVE  /\ status = "running" /\ op = "idle" /\ streams = 0
         /\ calls' \in 0 .. MaxOps
         /\ config \in ConfigType /\ Alive = config.filenames
BY Parameters DEF FInv, Typed, Call, StreamsClosed, Alive

LEMMA StartReadingInv ==
  ASSUME FInv, Call, NEW ctx, StartReading(ctx), InRead(ctx), streams' = Own(ctx)
  PROVE  FInv'
<1>1. /\ op' = "reading" /\ config' = EmptyConfig /\ scan' = ctx /\ status' = "running"
      /\ calls' \in 0 .. MaxOps
  BY CallFacts DEF StartReading
<1>2. /\ opt' \in OptionType
      /\ opt'.include_dir = opt.include_dir /\ opt'.auto = opt.auto
  BY DEF StartReading, Reinitialised, FInv, Typed, OptionType
<1>3. streams' \in Nat /\ ListOK(ctx)
  BY InReadFacts DEF InRead
<1>4. Typed'
  BY <1>1, <1>2, <1>3, EmptyConfigOK DEF StartReading, FInv, Typed
<1>5. PointsInto(config', Alive') /\ IsInjective(Alive')
  BY <1>1, <1>3, EmptyConfigOK DEF Alive, ListOK
<1>6. StreamsClosed'
  BY <1>1 DEF StreamsClosed, Own, Outermost, OwnStreams, IncludeDepth
<1>7. FailureReported' /\ OptionsKept'
  BY <1>1, <1>2, CallFacts DEF FailureReported, OptionsKept, FInv, StartReading
<1> QED
  BY <1>1, <1>4, <1>5, <1>6, <1>7, EmptyConfigOK DEF FInv

\* A context with one text, whose name is in its list
LEMMA OneText ==
  ASSUME NEW ctx, ListOK(ctx), NEW f \in FrameType,
         f.name \in ToSet(ctx.names) \cup {NoName}, f.loaded \/ f.path \in Paths
  PROVE  LET new == [ctx EXCEPT !.frames = <<f>>] IN
         InRead(new) /\ Own(new) = IF f.name = NoName THEN 0 ELSE 1
<1> DEFINE new == [ctx EXCEPT !.frames = <<f>>]
<1>1. /\ <<f>> \in Seq(FrameType) /\ Len(<<f>>) = 1 /\ DOMAIN <<f>> = 1 .. 1
      /\ <<f>>[1] = f /\ <<f>> # <<>>
  OBVIOUS
<1>2. /\ new \in ScanType /\ new.names = ctx.names /\ new.slots = ctx.slots
      /\ new.frames = <<f>>
  BY <1>1 DEF ListOK, ScanType
<1> HIDE DEF new
<1>3. ListOK(new) /\ FramesOK(new)
  BY <1>1, <1>2 DEF ListOK, FramesOK
<1>4. Outermost(new) \in {0, 1} /\ Outermost(new) = IF f.name = NoName THEN 0 ELSE 1
  BY <1>1, <1>2 DEF Outermost
<1>5. Own(new) = Outermost(new)
  BY <1>1, <1>2, <1>4 DEF Own
<1> QED
  BY <1>1, <1>2, <1>3, <1>4, <1>5 DEF InRead, new

LEMMA IOErrorInv == ASSUME FInv, Call, IOError PROVE FInv'
<1>1. /\ status = "running" /\ op = "idle" /\ config \in ConfigType
      /\ calls' \in 0 .. MaxOps /\ Alive = config.filenames
  BY CallFacts
<1>2. config.error \in ErrorType
  BY <1>1 DEF ConfigType
<1> DEFINE err == [config.error EXCEPT !.type = "io", !.text = "io"]
<1>3. err \in ErrorType /\ err.type = "io" /\ err.file = config.error.file
  BY <1>2 DEF ErrorType
<1>4. config' = [config EXCEPT !.error = err]
  <2>1. config' = [config EXCEPT !.error.type = "io", !.error.text = "io"]
    BY DEF IOError
  <2> QED
    BY <1>1, <2>1 DEF ConfigType
<1> HIDE DEF err
<1>5. /\ config' \in ConfigType /\ config'.error = err
      /\ config'.settings = config.settings /\ config'.filenames = config.filenames
  BY <1>1, <1>3, <1>4 DEF ConfigType
<1>6. Typed'
  BY <1>1, <1>5 DEF FInv, Typed, IOError
<1>7. PointsInto(config', Alive') /\ IsInjective(Alive')
  BY <1>1, <1>3, <1>5 DEF FInv, Alive, PointsInto, IOError
<1>8. StreamsClosed' /\ FailureReported' /\ OptionsKept'
  BY <1>1, <1>3, <1>5 DEF FInv, StreamsClosed, FailureReported, OptionsKept, IOError
<1> QED
  BY <1>1, <1>6, <1>7, <1>8 DEF FInv, IOError

LEMMA ReadFileInv == ASSUME FInv, NEW name \in Names, ReadFile(name) PROVE FInv'
<1> DEFINE path == <<NoDir, name>>
           f == Frame(name, path)
           ctx == AddName(NoScan, name)
           new == [ctx EXCEPT !.frames = <<f>>]
<1>1. Call
  BY DEF ReadFile
<1>2. CASE IOError
  BY <1>1, <1>2, IOErrorInv
<1>3. CASE streams' = streams + 1 /\ StartReading(new)
  <2>1. f \in FrameType /\ f.name = name /\ f.path \in Paths
    BY DEF Frame, FrameType, Paths
  <2>2. ListOK(ctx) /\ name \in ToSet(ctx.names)
    BY NoScanOK, AddNameOK
  <2>3. name # NoName
    BY Parameters
  <2> HIDE DEF f, ctx
  <2>4. InRead(new) /\ Own(new) = 1
    BY <2>1, <2>2, <2>3, OneText
  <2>5. streams' = 1
    BY <1>1, <1>3, CallFacts
  <2> HIDE DEF new
  <2> QED
    BY <1>1, <1>3, <2>4, <2>5, StartReadingInv
<1> QED
  BY <1>2, <1>3 DEF ReadFile

LEMMA ReadTextInv == ASSUME FInv, NEW text \in Texts, ReadText(text) PROVE FInv'
<1> DEFINE f == [name |-> NoName, path |-> <<NoDir, NoName>>, rest |-> text,
                 loaded |-> TRUE]
           new == [NoScan EXCEPT !.frames = <<f>>]
<1>1. Call /\ StartReading(new) /\ UNCHANGED streams
  BY DEF ReadText
<1>2. f \in FrameType /\ f.name = NoName /\ f.loaded
  BY Parameters DEF FrameType
<1> HIDE DEF f
<1>3. InRead(new) /\ Own(new) = 0
  BY <1>2, NoScanOK, OneText
<1>4. streams' = 0
  BY <1>1, CallFacts
<1> HIDE DEF new
<1> QED
  BY <1>1, <1>3, <1>4, StartReadingInv

LEMMA WriteFileInv == ASSUME FInv, NEW name \in Names, WriteFile(name) PROVE FInv'
<1> DEFINE path == <<NoDir, name>>
<1>1. Call
  BY DEF WriteFile
<1>2. CASE IOError
  BY <1>1, <1>2, IOErrorInv
<1>3. CASE /\ disk' = [disk EXCEPT ![path] = File(<<>>)]
           /\ streams' = streams + 1
           /\ op' = "writing" /\ target' = path
           /\ UNCHANGED <<opt, config, scan, result, status, wanted>>
  <2>1. path \in Paths /\ File(<<>>) \in Contents
    BY DEF Paths, File, Contents
  <2>2. disk' \in [Paths -> Contents]
    BY <1>3, <2>1 DEF FInv, Typed
  <2>3. streams' = 1 /\ status = "running" /\ calls' \in 0 .. MaxOps /\ op = "idle"
    BY <1>1, <1>3, CallFacts
  <2>4. Typed'
    BY <1>3, <2>1, <2>2, <2>3 DEF FInv, Typed
  <2>5. PointsInto(config', Alive') /\ IsInjective(Alive')
    BY <1>3, <2>3 DEF FInv, Alive, PointsInto
  <2>6. StreamsClosed' /\ FailureReported' /\ OptionsKept'
    BY <1>3, <2>3 DEF FInv, StreamsClosed, FailureReported, OptionsKept
  <2> QED
    BY <1>3, <2>1, <2>4, <2>5, <2>6 DEF FInv
<1> QED
  BY <1>2, <1>3 DEF WriteFile

\* The setters of options leave all but the options alone.
LEMMA OptionsInv ==
  ASSUME FInv, Call, UNCHANGED <<disk, config, scan, streams, op, target, result>>,
         opt' \in OptionType, wanted' \in OptionType,
         status' \in {"running", "crashed"}, OptionsKept'
  PROVE  FInv'
<1>1. calls' \in 0 .. MaxOps /\ status = "running" /\ op = "idle"
  BY CallFacts
<1>2. Typed'
  BY <1>1 DEF FInv, Typed
<1>3. PointsInto(config', Alive') /\ IsInjective(Alive')
  BY <1>1 DEF FInv, Alive, PointsInto
<1>4. StreamsClosed' /\ FailureReported'
  BY <1>1 DEF FInv, StreamsClosed, FailureReported
<1> QED
  BY <1>1, <1>2, <1>3, <1>4 DEF FInv

LEMMA SetIncludeDirInv ==
  ASSUME FInv, NEW dir \in Dirs \cup {NoDir}, SetIncludeDir(dir)
  PROVE  FInv'
<1>1. /\ Call /\ status = "running" /\ opt \in OptionType /\ wanted \in OptionType
      /\ OptionsKept
  BY CallFacts DEF SetIncludeDir, FInv, Typed
<1>2. wanted' = [wanted EXCEPT !.include_dir = dir]
  BY DEF SetIncludeDir
<1>3. CASE opt' = [opt EXCEPT !.include_dir = dir] /\ UNCHANGED status
  <2>1. opt' \in OptionType /\ wanted' \in OptionType
    BY <1>1, <1>2, <1>3 DEF OptionType
  <2>2. OptionsKept'
    BY <1>1, <1>2, <1>3 DEF OptionsKept, OptionType
  <2> QED
    BY <1>1, <1>3, <2>1, <2>2, OptionsInv DEF SetIncludeDir
<1>4. CASE status' = "crashed" /\ UNCHANGED opt
  <2>1. opt' \in OptionType /\ wanted' \in OptionType
    BY <1>1, <1>2, <1>4 DEF OptionType
  <2>2. OptionsKept'
    BY <1>4 DEF OptionsKept
  <2> QED
    BY <1>1, <1>4, <2>1, <2>2, OptionsInv DEF SetIncludeDir
<1> QED
  BY <1>3, <1>4 DEF SetIncludeDir

LEMMA SetOptionsInv ==
  ASSUME FInv, NEW auto \in BOOLEAN, NEW hex \in BOOLEAN, SetOptions(auto, hex)
  PROVE  FInv'
<1>1. /\ Call /\ status = "running" /\ opt \in OptionType /\ wanted \in OptionType
      /\ OptionsKept
  BY CallFacts DEF SetOptions, FInv, Typed
<1>2. /\ opt' = [opt EXCEPT !.auto = auto, !.hex = hex]
      /\ wanted' = [wanted EXCEPT !.auto = auto, !.hex = hex]
  BY DEF SetOptions
<1>3. opt' \in OptionType /\ wanted' \in OptionType
  BY <1>1, <1>2 DEF OptionType
<1>4. OptionsKept'
  BY <1>1, <1>2 DEF OptionsKept, OptionType
<1> QED
  BY <1>1, <1>3, <1>4, OptionsInv DEF SetOptions

LEMMA ApplicationInv == ASSUME FInv, Application PROVE FInv'
BY ReadFileInv, ReadTextInv, WriteFileInv, SetIncludeDirInv, SetOptionsInv DEF Application

LEMMA StutterInv == ASSUME FInv, UNCHANGED vars PROVE FInv'
<1>1. Typed' /\ Alive' = Alive
  BY DEF vars, FInv, Typed, Alive
<1>2. StreamsClosed' /\ FailureReported' /\ OptionsKept'
  BY DEF vars, FInv, StreamsClosed, FailureReported, OptionsKept, OwnStreams, IncludeDepth
<1> QED
  BY <1>1, <1>2 DEF vars, FInv

LEMMA NextFInv == FInv /\ [Next]_vars => FInv'
BY LibraryInv, ApplicationInv, StutterInv DEF Next, Done

LEMMA FInvHolds == Spec => []FInv
BY InitFInv, NextFInv, PTL DEF Spec
-----------------------------------------------------------------------------
\* The state is well typed for any file system, depth and number of calls.
THEOREM FilesTyped == Spec => []TypeOK
<1>1. FInv => TypeOK
  BY DEF FInv, Typed, TypeOK, ListOK, ScanType, FrameType, ConfigType, ErrorType,
         OptionType
<1> QED
  BY <1>1, FInvHolds, PTL

\* No setting and no error ever points to a file name that was freed or never kept,
\* and the names fit in their array, whatever calls are made in whatever order.
THEOREM NamesAreOwned == Spec => []NamesOwned
<1>1. FInv => NamesOwned
  BY DEF FInv, Typed, NamesOwned, Alive, PointsInto, ListOK
<1> QED
  BY <1>1, FInvHolds, PTL

\* Whatever the nesting of includes and wherever a read fails, every stream the
\* library opened is closed when the call returns, and none of the caller's.
THEOREM StreamsAreClosed == Spec => []StreamsClosed
<1>1. FInv => StreamsClosed
  BY DEF FInv
<1> QED
  BY <1>1, FInvHolds, PTL

\* The error fields tell of the last call, and only of it.
THEOREM FailuresAreReported == Spec => []FailureReported
<1>1. FInv => FailureReported
  BY DEF FInv
<1> QED
  BY <1>1, FInvHolds, PTL

\* Reading keeps the include directory and the conversion flag the application set.
THEOREM OptionsAreKept == Spec => []OptionsKept
<1>1. FInv => OptionsKept
  BY DEF FInv
<1> QED
  BY <1>1, FInvHolds, PTL

------------------------------------------------------------------------------
(* What a read takes.  The reference is recursive (Expanded) and           *)
(* concatenates (FlattenSeq), so the proofs begin with what the two        *)
(* compute, by induction over the level and the number of sequences.       *)

\* Every set of natural numbers has a least one, ...
LEMMA NatLess == IsWellFoundedOn({p \in Nat \X Nat : p[1] < p[2]}, Nat)
  BY NatLessThanWellFounded DEF OpToRel

\* ... so a set that has 0 and with every number the next has them all.
LEMMA SetInduction ==
  ASSUME NEW S \in SUBSET Nat, 0 \in S, \A n \in S : n + 1 \in S
  PROVE S = Nat
<1> SUFFICES ASSUME S # Nat PROVE FALSE
  OBVIOUS
<1> DEFINE R == {p \in Nat \X Nat : p[1] < p[2]}
           others == Nat \ S
<1>1. IsWellFoundedOn(R, Nat)
  BY NatLess
<1>2. \A y, x \in others : <<y, x>> \in R <=> y < x
  OBVIOUS
<1>3. others \in SUBSET Nat /\ others # {} /\ 0 \notin others
  OBVIOUS
<1> HIDE DEF R
<1>4. PICK x \in others : \A y \in others : ~ (<<y, x>> \in R)
  <2> HIDE DEF others
  <2> QED
    BY <1>1, <1>3, WFMin
<1>5. \A y \in others : ~ (y < x)
  BY <1>2, <1>4
<1>6. x - 1 \in Nat /\ x - 1 < x /\ x - 1 \notin others /\ (x - 1) + 1 = x
  BY <1>3, <1>4, <1>5
<1> QED
  BY <1>3, <1>4, <1>6

\* The concatenations of the first of n sequences.
Grows(g, ss, n) ==
  \A i \in 1 .. n : g[i] = IF i = 1 THEN ss[i] ELSE g[i - 1] \o ss[i]

Joins(g, ss, n, S) == g \in [1 .. n -> Seq(S)] /\ Grows(g, ss, n)

LEMMA JoinsExist ==
  ASSUME NEW S, NEW n \in Nat, NEW ss \in [1 .. n -> Seq(S)]
  PROVE  \E g : Joins(g, ss, n, S)
<1> DEFINE T == {m \in Nat : m <= n => \E g : Joins(g, ss, m, S)}
<1>1. 0 \in T
  <2>1. Joins([i \in 1 .. 0 |-> <<>>], ss, 0, S)
    BY DEF Joins, Grows
  <2> QED
    BY <2>1
<1>2. ASSUME NEW m \in T PROVE m + 1 \in T
  <2> SUFFICES ASSUME m + 1 <= n PROVE \E g : Joins(g, ss, m + 1, S)
    OBVIOUS
  <2>1. m \in Nat /\ m <= n /\ ss[m + 1] \in Seq(S)
    BY DEF T
  <2>2. PICK g : Joins(g, ss, m, S)
    BY <2>1
  <2> DEFINE next == IF m = 0 THEN ss[m + 1] ELSE g[m] \o ss[m + 1]
             h == [i \in 1 .. m + 1 |-> IF i = m + 1 THEN next ELSE g[i]]
  <2>3. next \in Seq(S)
    <3>1. CASE m = 0
      BY <2>1, <3>1
    <3>2. CASE m # 0
      <4>1. g[m] \in Seq(S)
        BY <2>1, <2>2, <3>2 DEF Joins, Grows
      <4> QED
        BY <2>1, <3>2, <4>1, ConcatProperties
    <3> QED
      BY <3>1, <3>2
  <2>4. h \in [1 .. m + 1 -> Seq(S)]
    <3> HIDE DEF next
    <3> QED
      BY <2>1, <2>2, <2>3 DEF Joins, Grows
  <2>5. ASSUME NEW i \in 1 .. m + 1
        PROVE  h[i] = IF i = 1 THEN ss[i] ELSE h[i - 1] \o ss[i]
    <3>1. CASE i = m + 1
      <4>1. h[i] = next
        BY <3>1
      <4>2. m # 0 => h[i - 1] = g[m] /\ i # 1
        BY <2>1, <3>1
      <4> HIDE DEF h
      <4> QED
        BY <2>1, <3>1, <4>1, <4>2
    <3>2. CASE i # m + 1
      <4>1. i \in 1 .. m /\ h[i] = g[i] /\ (i # 1 => h[i - 1] = g[i - 1])
        BY <2>1, <3>2
      <4>2. g[i] = IF i = 1 THEN ss[i] ELSE g[i - 1] \o ss[i]
        BY <4>1, <2>2 DEF Joins, Grows
      <4> HIDE DEF h
      <4> QED
        BY <4>1, <4>2
    <3> QED
      BY <3>1, <3>2
  <2> HIDE DEF h
  <2>6. Joins(h, ss, m + 1, S)
    BY <2>4, <2>5 DEF Joins, Grows
  <2> QED
    BY <2>6
<1>3. T \in SUBSET Nat
  OBVIOUS
<1> HIDE DEF T
<1>4. n \in T
  BY <1>1, <1>2, <1>3, SetInduction
<1> QED
  BY <1>4 DEF T

LEMMA JoinsAreOne ==
  ASSUME NEW S, NEW n \in Nat, NEW ss, NEW g, NEW h, Joins(g, ss, n, S),
         Grows(h, ss, n)
  PROVE  \A i \in 1 .. n : h[i] = g[i]
<1> DEFINE T == {m \in Nat : m \in 1 .. n => h[m] = g[m]}
<1>1. 0 \in T
  OBVIOUS
<1>2. ASSUME NEW m \in T PROVE m + 1 \in T
  <2> SUFFICES ASSUME m + 1 \in 1 .. n PROVE h[m + 1] = g[m + 1]
    OBVIOUS
  <2>1. m \in Nat /\ (m + 1) - 1 = m /\ (m + 1 # 1 => h[m] = g[m])
    OBVIOUS
  <2>2. g[m + 1] = IF m + 1 = 1 THEN ss[m + 1] ELSE g[m] \o ss[m + 1]
    BY <2>1 DEF Joins, Grows
  <2>3. h[m + 1] = IF m + 1 = 1 THEN ss[m + 1] ELSE h[m] \o ss[m + 1]
    BY <2>1 DEF Grows
  <2> QED
    BY <2>1, <2>2, <2>3
<1>3. T \in SUBSET Nat
  OBVIOUS
<1> HIDE DEF T
<1>4. T = Nat
  BY <1>1, <1>2, <1>3, SetInduction
<1> QED
  BY <1>4 DEF T

LEMMA FlattensTo ==
  ASSUME NEW S, NEW n \in Nat \ {0}, NEW ss \in [1 .. n -> Seq(S)],
         NEW g, Joins(g, ss, n, S)
  PROVE  FlattenSeq(ss) = g[n] /\ FlattenSeq(ss) \in Seq(S)
<1> DEFINE Body(f) == [i \in 1 .. n |-> IF i = 1 THEN ss[i] ELSE f[i - 1] \o ss[i]]
<1>1. g = Body(g)
  <2>1. g = [i \in 1 .. n |-> g[i]]
    BY DEF Joins, Grows
  <2>2. \A i \in 1 .. n : g[i] = Body(g)[i]
    BY DEF Joins, Grows
  <2> QED
    BY <2>1, <2>2
<1>2. Len(ss) = n /\ n # 0
  <2>1. ss \in Seq(Seq(S)) /\ DOMAIN ss = 1 .. n
    BY SeqDef
  <2> QED
    BY <2>1, LenProperties
<1>3. PICK f : f = Body(f) /\ FlattenSeq(ss) = f[n]
  <2> DEFINE c == CHOOSE c : c = Body(c)
  <2>1. c = Body(c)
    <3> HIDE DEF Body
    <3> QED
      BY <1>1
  <2>2. FlattenSeq(ss) = c[n]
    BY <1>2 DEF FlattenSeq
  <2> HIDE DEF c
  <2> QED
    BY <2>1, <2>2
<1>4. FlattenSeq(ss) = f[n]
  BY <1>3
<1>5. \A i \in 1 .. n : f[i] = g[i]
  <2>1. Grows(f, ss, n)
    BY <1>3 DEF Grows
  <2>2. n \in Nat
    OBVIOUS
  <2> HIDE DEF Body
  <2> QED
    BY ONLY <2>1, <2>2, Joins(g, ss, n, S), JoinsAreOne
<1>6. f[n] = g[n] /\ g[n] \in Seq(S)
  BY <1>5 DEF Joins, Grows
<1> QED
  BY <1>4, <1>6

LEMMA FlattenEmpty == ASSUME NEW ss, ss = << >> PROVE FlattenSeq(ss) = << >>
  BY DEF FlattenSeq

LEMMA FlattenTypes ==
  ASSUME NEW S, NEW n \in Nat, NEW ss \in [1 .. n -> Seq(S)]
  PROVE  FlattenSeq(ss) \in Seq(S)
<1>1. CASE n = 0
  <2>1. ss = << >>
    BY <1>1
  <2>2. FlattenSeq(ss) = << >>
    BY <2>1, FlattenEmpty
  <2> QED
    BY <2>2
<1>2. CASE n # 0
  <2>1. PICK g : Joins(g, ss, n, S)
    BY JoinsExist
  <2> QED
    BY <1>2, <2>1, FlattensTo
<1> QED
  BY <1>1, <1>2

\* A concatenation begins with its first sequence.
LEMMA FlattenHead ==
  ASSUME NEW S, NEW n \in Nat \ {0}, NEW ss \in [1 .. n -> Seq(S)]
  PROVE  FlattenSeq(ss) = ss[1] \o FlattenSeq([i \in 1 .. n - 1 |-> ss[i + 1]])
<1> DEFINE tail == [i \in 1 .. n - 1 |-> ss[i + 1]]
<1>0. n - 1 \in Nat /\ tail \in [1 .. n - 1 -> Seq(S)] /\ 1 \in 1 .. n /\ ss[1] \in Seq(S)
  OBVIOUS
<1>1. PICK g : Joins(g, ss, n, S)
  BY JoinsExist
<1>2. FlattenSeq(ss) = g[n]
  BY <1>1, FlattensTo
<1>3. CASE n = 1
  <2>1. tail = << >>
    BY <1>3
  <2>2. FlattenSeq(tail) = << >>
    BY <2>1, FlattenEmpty
  <2>3. g[n] = ss[1]
    BY <1>1, <1>3 DEF Joins, Grows
  <2>4. ss[1] \o << >> = ss[1]
    BY <1>0, ConcatEmptySeq
  <2> QED
    BY <1>2, <2>2, <2>3, <2>4
<1>4. CASE n # 1
  <2>1. PICK h : Joins(h, tail, n - 1, S)
    BY <1>0, JoinsExist
  <2>2. FlattenSeq(tail) = h[n - 1]
    <3>1. n - 1 \in Nat \ {0}
      BY <1>4
    <3> QED
      BY <1>0, <2>1, <3>1, FlattensTo
  <2> DEFINE T == {m \in Nat : m + 1 \in 1 .. n - 1 => g[m + 2] = ss[1] \o h[m + 1]}
  <2>3. 0 \in T
    <3>1. 1 \in 1 .. n - 1 /\ 2 \in 1 .. n
      BY <1>4
    <3>2. g[1] = ss[1] /\ g[2] = g[1] \o ss[2]
      BY <1>1, <3>1 DEF Joins, Grows
    <3>3. h[1] = tail[1]
      BY <2>1, <3>1 DEF Joins, Grows
    <3>4. tail[1] = ss[2]
      BY <3>1
    <3>5. 0 + 2 = 2 /\ 0 + 1 = 1
      OBVIOUS
    <3> HIDE DEF T
    <3>6. g[0 + 2] = ss[1] \o h[0 + 1]
      BY ONLY <3>2, <3>3, <3>4, <3>5
    <3> QED
      BY <3>6 DEF T
  <2>4. ASSUME NEW m \in T, (m + 1) + 1 \in 1 .. n - 1
        PROVE  g[(m + 1) + 2] = ss[1] \o h[(m + 1) + 1]
    <3>0. m \in Nat /\ (m + 1) + 1 \in 1 .. n - 1
      BY <2>4
    <3>1. m \in Nat /\ m + 1 \in 1 .. n - 1 /\ m + 2 \in 1 .. n - 1 /\ m + 3 \in 1 .. n
          /\ (m + 1) + 2 = m + 3 /\ (m + 1) + 1 = m + 2
      BY <3>0
    <3>2. g[m + 2] = ss[1] \o h[m + 1]
      BY <3>1
    <3>3. g[m + 3] = g[m + 2] \o ss[m + 3]
      <4>1. m + 3 # 1 /\ (m + 3) - 1 = m + 2
        BY <3>1
      <4> QED
        BY <1>1, <3>1, <4>1 DEF Joins, Grows
    <3>4. h[m + 2] = h[m + 1] \o ss[m + 3]
      <4>1. m + 2 # 1 /\ (m + 2) - 1 = m + 1 /\ tail[m + 2] = ss[m + 3]
        BY <3>1
      <4> QED
        BY <2>1, <3>1, <4>1 DEF Joins, Grows
    <3>5. h[m + 1] \in Seq(S) /\ ss[m + 3] \in Seq(S)
      BY <2>1, <3>1 DEF Joins, Grows
    <3>6. (ss[1] \o h[m + 1]) \o ss[m + 3] = ss[1] \o (h[m + 1] \o ss[m + 3])
      <4> DEFINE a == ss[1]
                 c == h[m + 1]
                 d == ss[m + 3]
      <4>1. a \in Seq(S) /\ c \in Seq(S) /\ d \in Seq(S)
        BY <1>0, <3>5
      <4> HIDE DEF a, c, d
      <4>2. a \o (c \o d) = (a \o c) \o d
        BY ONLY <4>1, ConcatAssociative
      <4> QED
        BY <4>2 DEF a, c, d
    <3> QED
      BY <3>1, <3>2, <3>3, <3>4, <3>6
  <2>5. T \in SUBSET Nat
    OBVIOUS
  <2>8. ASSUME NEW m \in T PROVE m + 1 \in T
    <3>1. m + 1 \in Nat
      BY <2>8
    <3>2. (m + 1) + 1 \in 1 .. n - 1 => g[(m + 1) + 2] = ss[1] \o h[(m + 1) + 1]
      <4> HIDE DEF T
      <4> QED
        BY <2>4, <2>8
    <3> QED
      BY <3>1, <3>2
  <2> HIDE DEF T
  <2>6. n - 2 \in T
    <3>1. n - 2 \in Nat
      BY <1>4
    <3> QED
      BY <2>3, <2>8, <2>5, <3>1, SetInduction
  <2>7. g[n] = ss[1] \o h[n - 1]
    <3>1. (n - 2) + 1 \in 1 .. n - 1 /\ (n - 2) + 1 = n - 1 /\ (n - 2) + 2 = n
      BY <1>4
    <3> QED
      BY <2>6, <3>1 DEF T
  <2> QED
    BY <1>2, <2>2, <2>7
<1> QED
  BY <1>3, <1>4

\* What items stand for, in order
Piece == [kind: {"set", "bad"}, key: Keys \cup {NoName}, file: Names \cup {NoName}]

LEMMA ItemTypes ==
  ASSUME NEW item \in Items, NEW name \in Names \cup {NoName}, NEW dir, NEW D,
         NEW included \in [D -> Seq(Piece)]
  PROVE  ItemInPlace(item, name, dir, included) \in Seq(Piece)
<1> DEFINE path == <<dir, item.name>>
<1>1. CASE item.kind = "set"
  <2>1. item.key \in Keys
    BY <1>1 DEF Items
  <2> DEFINE x == [kind |-> "set", key |-> item.key, file |-> name]
  <2>2. x \in Piece
    BY <2>1 DEF Piece
  <2>3. ItemInPlace(item, name, dir, included) = <<x>>
    BY <1>1 DEF ItemInPlace
  <2> HIDE DEF x
  <2> QED
    BY <2>2, <2>3
<1>2. CASE item.kind # "set" /\ item.kind = "include" /\ path \in D
  BY <1>2 DEF ItemInPlace
<1>3. CASE item.kind # "set" /\ ~ (item.kind = "include" /\ path \in D)
  <2> DEFINE x == [kind |-> "bad", key |-> NoName, file |-> name]
  <2>1. x \in Piece
    BY DEF Piece
  <2>2. DOMAIN included = D
    OBVIOUS
  <2>3. ItemInPlace(item, name, dir, included) = <<x>>
    BY <1>3, <2>2 DEF ItemInPlace
  <2> HIDE DEF x
  <2> QED
    BY <2>1, <2>3
<1> QED
  BY <1>1, <1>2, <1>3

LEMMA InPlaceTypes ==
  ASSUME NEW items \in Seq(Items), NEW name \in Names \cup {NoName}, NEW dir, NEW D,
         NEW included \in [D -> Seq(Piece)]
  PROVE  InPlace(items, name, dir, included) \in Seq(Piece)
<1> DEFINE n == Len(items)
           ss == [i \in DOMAIN items |-> ItemInPlace(items[i], name, dir, included)]
<1>1. n \in Nat /\ DOMAIN items = 1 .. n /\ \A i \in 1 .. n : items[i] \in Items
  OBVIOUS
<1>2. ss \in [1 .. n -> Seq(Piece)]
  BY <1>1, ItemTypes
<1> HIDE DEF ss, n
<1>3. FlattenSeq(ss) \in Seq(Piece)
  BY <1>1, <1>2, FlattenTypes
<1> QED
  BY <1>3 DEF InPlace, ss

LEMMA InPlaceEmpty ==
  ASSUME NEW name, NEW dir, NEW included
  PROVE  InPlace(<<>>, name, dir, included) = <<>>
<1> DEFINE items == << >>
           ss == [i \in DOMAIN items |-> ItemInPlace(items[i], name, dir, included)]
<1>1. ss = << >>
  OBVIOUS
<1> HIDE DEF ss
<1>2. FlattenSeq(ss) = << >>
  BY <1>1, FlattenEmpty
<1> QED
  BY <1>2 DEF InPlace, ss

LEMMA InPlaceHead ==
  ASSUME NEW items \in Seq(Items), items # << >>, NEW name \in Names \cup {NoName},
         NEW dir, NEW D, NEW included \in [D -> Seq(Piece)]
  PROVE  InPlace(items, name, dir, included)
           = ItemInPlace(Head(items), name, dir, included)
               \o InPlace(Tail(items), name, dir, included)
<1> DEFINE n == Len(items)
           rest == Tail(items)
           ss == [i \in DOMAIN items |-> ItemInPlace(items[i], name, dir, included)]
           tt == [i \in DOMAIN rest |-> ItemInPlace(rest[i], name, dir, included)]
           tail == [i \in 1 .. n - 1 |-> ss[i + 1]]
<1>1. n \in Nat \ {0} /\ DOMAIN items = 1 .. n /\ \A i \in 1 .. n : items[i] \in Items
  OBVIOUS
<1>2. /\ DOMAIN rest = 1 .. n - 1 /\ \A i \in 1 .. n - 1 : rest[i] = items[i + 1]
      /\ Head(items) = items[1]
  BY <1>1
<1>3. ss \in [1 .. n -> Seq(Piece)]
  BY <1>1, ItemTypes
<1>4. tail = tt
  <2>1. \A i \in 1 .. n - 1 : ss[i + 1] = ItemInPlace(items[i + 1], name, dir, included)
    <3>1. \A i \in 1 .. n - 1 : i + 1 \in 1 .. n
      BY <1>1
    <3> QED
      BY <1>1, <3>1
  <2>2. \A i \in 1 .. n - 1 : tt[i] = ItemInPlace(items[i + 1], name, dir, included)
    BY <1>2
  <2> QED
    BY <1>2, <2>1, <2>2
<1>5. ss[1] = ItemInPlace(Head(items), name, dir, included)
  BY <1>1, <1>2
<1> HIDE DEF ss, n, tt, rest
<1>6. FlattenSeq(ss) = ss[1] \o FlattenSeq(tail)
  <2>1. n \in Nat \ {0}
    BY <1>1
  <2> QED
    BY <1>3, <2>1, FlattenHead
<1>7. FlattenSeq(ss) = InPlace(items, name, dir, included)
  BY DEF InPlace, ss
<1>8. FlattenSeq(tt) = InPlace(rest, name, dir, included)
  BY DEF InPlace, tt
<1> HIDE DEF tail
<1> QED
  BY <1>4, <1>5, <1>6, <1>7, <1>8 DEF rest

-----------------------------------------------------------------------------
\* What a directive d levels above the limit may name, and what each stands for
Openable(files, d) == {q \in Paths : d > 0 /\ files[q].kind # "missing"}

Below(files, dir, d) == [q \in Openable(files, d) |-> Expanded(files, dir)[d - 1][q]]

Row(f, files, dir, d) ==
  LET included == [q \in Openable(files, d) |-> f[d - 1][q]]
  IN  [p \in Paths |-> InPlace(files[p].items, p[2], dir, included)]

RowsTo(f, files, dir, m) == \A d \in 0 .. m : f[d] = Row(f, files, dir, d)

LEMMA RowLooksDown ==
  ASSUME NEW f, NEW g, NEW files, NEW dir, NEW d \in Nat, d > 0 => f[d - 1] = g[d - 1]
  PROVE  Row(f, files, dir, d) = Row(g, files, dir, d)
<1>1. [q \in Openable(files, d) |-> f[d - 1][q]] = [q \in Openable(files, d) |-> g[d - 1][q]]
  BY DEF Openable
<1> QED
  BY <1>1 DEF Row

LEMMA RowsExist ==
  ASSUME NEW files, NEW dir, NEW m \in Nat
  PROVE  \E f : RowsTo(f, files, dir, m)
<1> DEFINE T == {k \in Nat : \E f : RowsTo(f, files, dir, k)}
<1>1. 0 \in T
  <2> DEFINE f == [d \in {0} |-> Row(<<>>, files, dir, 0)]
  <2>1. f[0] = Row(<<>>, files, dir, 0)
    OBVIOUS
  <2> HIDE DEF f
  <2>2. f[0] = Row(f, files, dir, 0)
    BY <2>1, RowLooksDown
  <2>3. RowsTo(f, files, dir, 0)
    BY <2>2 DEF RowsTo
  <2> QED
    BY <2>3
<1>2. ASSUME NEW k \in T PROVE k + 1 \in T
  <2>1. k \in Nat /\ k + 1 \in Nat
    OBVIOUS
  <2>2. PICK f : RowsTo(f, files, dir, k)
    OBVIOUS
  <2> HIDE DEF T
  <2> DEFINE h == [d \in 0 .. k + 1 |-> IF d = k + 1 THEN Row(f, files, dir, k + 1) ELSE f[d]]
  <2>3. \A d \in 0 .. k : h[d] = f[d]
    BY <2>1
  <2>4. h[k + 1] = Row(f, files, dir, k + 1)
    BY <2>1
  <2> HIDE DEF h
  <2>5. ASSUME NEW d \in 0 .. k + 1 PROVE h[d] = Row(h, files, dir, d)
    <3>1. d \in Nat /\ (d > 0 => d - 1 \in 0 .. k)
      BY <2>1
    <3>2. Row(h, files, dir, d) = Row(f, files, dir, d)
      BY <2>3, <3>1, RowLooksDown
    <3>3. CASE d = k + 1
      BY <2>4, <3>2, <3>3
    <3>4. CASE d # k + 1
      <4>1. d \in 0 .. k
        BY <2>1, <3>4
      <4> QED
        BY <2>2, <2>3, <3>2, <4>1 DEF RowsTo
    <3> QED
      BY <3>3, <3>4
  <2>6. RowsTo(h, files, dir, k + 1)
    BY <2>5 DEF RowsTo
  <2> QED
    BY <2>1, <2>6 DEF T
<1>3. T \in SUBSET Nat
  OBVIOUS
<1> HIDE DEF T
<1>4. m \in T
  BY <1>1, <1>2, <1>3, SetInduction
<1> QED
  BY <1>4 DEF T

LEMMA ExpandedRows ==
  ASSUME NEW files, NEW dir
  PROVE  RowsTo(Expanded(files, dir), files, dir, Depth)
<1> DEFINE Body(f) == [d \in 0 .. Depth |->
             LET openable == {q \in Paths : d > 0 /\ files[q].kind # "missing"}
                 included == [q \in openable |-> f[d - 1][q]]
             IN  [p \in Paths |-> InPlace(files[p].items, p[2], dir, included)]]
           e == CHOOSE f : f = Body(f)
<1>1. \A f : Body(f) = [d \in 0 .. Depth |-> Row(f, files, dir, d)]
  BY DEF Row, Openable
<1>2. PICK f : RowsTo(f, files, dir, Depth)
  BY RowsExist, Parameters
<1> DEFINE g == [d \in 0 .. Depth |-> f[d]]
<1>3. g = Body(g)
  <2>1. ASSUME NEW d \in 0 .. Depth PROVE g[d] = Row(g, files, dir, d)
    <3>1. d \in Nat /\ (d > 0 => d - 1 \in 0 .. Depth) /\ g[d] = f[d]
      BY Parameters
    <3>2. d > 0 => g[d - 1] = f[d - 1]
      BY <3>1
    <3> HIDE DEF g
    <3>3. Row(g, files, dir, d) = Row(f, files, dir, d)
      BY <3>1, <3>2, RowLooksDown
    <3> QED
      BY <1>2, <3>1, <3>3 DEF RowsTo
  <2>2. g = [d \in 0 .. Depth |-> Row(g, files, dir, d)]
    <3>1. g = [d \in 0 .. Depth |-> g[d]]
      OBVIOUS
    <3> HIDE DEF g
    <3> QED
      BY <2>1, <3>1
  <2> HIDE DEF Body, g
  <2> QED
    BY <1>1, <2>2
<1>4. e = Body(e)
  <2> HIDE DEF Body, g
  <2> QED
    BY <1>3
<1>5. Expanded(files, dir) = e
  BY DEF Expanded
<1> HIDE DEF e
<1>6. \A d \in 0 .. Depth : e[d] = Row(e, files, dir, d)
  <2>1. e = [d \in 0 .. Depth |-> Row(e, files, dir, d)]
    <3> HIDE DEF Body
    <3> QED
      BY <1>1, <1>4
  <2> QED
    BY <2>1
<1> QED
  BY <1>5, <1>6 DEF RowsTo

\* A file stands for its items, its directives for what they name a level further down.
LEMMA ExpandedIs ==
  ASSUME NEW files \in [Paths -> Contents], NEW dir, NEW d \in 0 .. Depth
  PROVE  /\ Expanded(files, dir)[d]
              = [p \in Paths |-> InPlace(files[p].items, p[2], dir, Below(files, dir, d))]
         /\ Expanded(files, dir)[d] \in [Paths -> Seq(Piece)]
         /\ Below(files, dir, d) \in [Openable(files, d) -> Seq(Piece)]
<1> DEFINE ex == Expanded(files, dir)
           T == {k \in Nat : k \in 0 .. Depth => ex[k] \in [Paths -> Seq(Piece)]}
<1>1. \A k \in 0 .. Depth : ex[k] = Row(ex, files, dir, k)
  BY ExpandedRows DEF RowsTo
<1>2. ASSUME NEW k \in 0 .. Depth, k > 0 => ex[k - 1] \in [Paths -> Seq(Piece)]
      PROVE  /\ Below(files, dir, k) \in [Openable(files, k) -> Seq(Piece)]
             /\ ex[k] \in [Paths -> Seq(Piece)]
  <2>1. Below(files, dir, k) \in [Openable(files, k) -> Seq(Piece)]
    BY <1>2 DEF Below, Openable
  <2>2. ex[k] = [p \in Paths |-> InPlace(files[p].items, p[2], dir, Below(files, dir, k))]
    BY <1>1 DEF Row, Below
  <2> HIDE DEF ex
  <2>3. ASSUME NEW p \in Paths
        PROVE  InPlace(files[p].items, p[2], dir, Below(files, dir, k)) \in Seq(Piece)
    <3>1. files[p].items \in Seq(Items) /\ p[2] \in Names
      BY DEF Contents, Paths
    <3> QED
      BY <2>1, <3>1, InPlaceTypes
  <2> QED
    BY <2>1, <2>2, <2>3
<1>3. 0 \in T
  BY <1>2, Parameters
<1>4. ASSUME NEW k \in T PROVE k + 1 \in T
  <2>1. k \in Nat /\ (k \in 0 .. Depth => ex[k] \in [Paths -> Seq(Piece)])
    OBVIOUS
  <2>2. CASE k + 1 \in 0 .. Depth
    <3>1. k \in 0 .. Depth /\ (k + 1) - 1 = k
      BY <2>1, <2>2, Parameters
    <3> HIDE DEF ex
    <3>2. ex[k + 1] \in [Paths -> Seq(Piece)]
      BY <1>2, <2>1, <2>2, <3>1
    <3> QED
      BY <2>1, <3>2
  <2>3. CASE k + 1 \notin 0 .. Depth
    BY <2>1, <2>3
  <2> QED
    BY <2>2, <2>3
<1>5. T \in SUBSET Nat
  OBVIOUS
<1> HIDE DEF T
<1>6. T = Nat
  BY <1>3, <1>4, <1>5, SetInduction
<1>7. \A k \in 0 .. Depth : ex[k] \in [Paths -> Seq(Piece)]
  <2>1. \A k \in 0 .. Depth : k \in Nat
    BY Parameters
  <2> QED
    BY <1>6, <2>1 DEF T
<1>8. d > 0 => d - 1 \in 0 .. Depth
  BY Parameters
<1>9. Below(files, dir, d) \in [Openable(files, d) -> Seq(Piece)]
  BY <1>2, <1>7, <1>8
<1>10. ex[d] = [p \in Paths |-> InPlace(files[p].items, p[2], dir, Below(files, dir, d))]
  BY <1>1 DEF Row, Below
<1> QED
  BY <1>7, <1>9, <1>10

\* What is left of a text: all of it when it is yet to be read
Left(files, f) == IF f.loaded THEN f.rest ELSE files[f.path].items

\* What is left of a text stands for, d levels of includes still allowed
Stands(files, dir, f, d) == InPlace(Left(files, f), f.name, dir, Below(files, dir, d))

\* ... and what is left of all texts being read, from the innermost outwards
Pending(files, dir, frames) ==
  LET m == Len(frames) IN
  FlattenSeq([k \in 1 .. m |-> Stands(files, dir, frames[m + 1 - k], Depth + k - m)])

\* The texts being read are files, not more of them than the limit allows.
Nested(frames) ==
  /\ frames \in Seq(FrameType) /\ Len(frames) <= Depth + 1
  /\ \A j \in DOMAIN frames : frames[j].path \in Paths /\ frames[j].name = frames[j].path[2]

LEMMA StandsTypes ==
  ASSUME NEW files \in [Paths -> Contents], NEW dir, NEW f \in FrameType, f.path \in Paths,
         NEW d \in 0 .. Depth
  PROVE  Stands(files, dir, f, d) \in Seq(Piece)
<1>1. f.rest \in Seq(Items) /\ files[f.path].items \in Seq(Items)
      /\ f.name \in Names \cup {NoName}
  BY DEF FrameType, Contents
<1>2. Left(files, f) \in Seq(Items)
  BY <1>1 DEF Left
<1>3. Below(files, dir, d) \in [Openable(files, d) -> Seq(Piece)]
  BY ExpandedIs
<1> QED
  BY <1>1, <1>2, <1>3, InPlaceTypes DEF Stands

LEMMA FrontOf ==
  ASSUME NEW S, NEW s \in Seq(S), s # << >>
  PROVE  /\ Front(s) \in Seq(S) /\ Len(Front(s)) = Len(s) - 1
         /\ DOMAIN Front(s) = 1 .. Len(s) - 1
         /\ \A i \in 1 .. Len(s) - 1 : Front(s)[i] = s[i]
         /\ Len(s) \in Nat /\ Len(s) >= 1 /\ DOMAIN s = 1 .. Len(s)
         /\ \A i \in 1 .. Len(s) : s[i] \in S
<1>1. Len(s) \in Nat /\ Len(s) >= 1 /\ DOMAIN s = 1 .. Len(s)
      /\ \A i \in 1 .. Len(s) : s[i] \in S
  OBVIOUS
<1>2. /\ Front(s) \in Seq(S) /\ Len(Front(s)) = Len(s) - 1
      /\ DOMAIN Front(s) = 1 .. Len(s) - 1
      /\ \A i \in 1 .. Len(s) - 1 : Front(s)[i] = s[i]
  BY <1>1 DEF Front
<1> QED
  BY <1>1, <1>2

LEMMA PendingTypes ==
  ASSUME NEW files \in [Paths -> Contents], NEW dir, NEW frames, Nested(frames)
  PROVE  Pending(files, dir, frames) \in Seq(Piece)
<1> DEFINE m == Len(frames)
           ss == [k \in 1 .. m |-> Stands(files, dir, frames[m + 1 - k], Depth + k - m)]
<1>1. m \in Nat /\ DOMAIN frames = 1 .. m /\ m <= Depth + 1
      /\ \A j \in 1 .. m : frames[j] \in FrameType /\ frames[j].path \in Paths
  BY DEF Nested
<1>2. ASSUME NEW k \in 1 .. m
      PROVE  Stands(files, dir, frames[m + 1 - k], Depth + k - m) \in Seq(Piece)
  <2>1. m + 1 - k \in 1 .. m /\ Depth + k - m \in 0 .. Depth
    BY <1>1, Parameters
  <2> QED
    BY <1>1, <2>1, StandsTypes
<1>3. ss \in [1 .. m -> Seq(Piece)]
  BY <1>2
<1> HIDE DEF ss, m
<1>4. FlattenSeq(ss) \in Seq(Piece)
  BY <1>1, <1>3, FlattenTypes
<1> QED
  BY <1>4 DEF Pending, ss, m

\* The innermost text comes first.
LEMMA PendingFront ==
  ASSUME NEW files \in [Paths -> Contents], NEW dir, NEW frames, Nested(frames),
         frames # << >>
  PROVE  /\ Pending(files, dir, frames)
              = Stands(files, dir, frames[Len(frames)], Depth + 1 - Len(frames))
                  \o Pending(files, dir, Front(frames))
         /\ Nested(Front(frames))
<1> DEFINE m == Len(frames)
           front == Front(frames)
           ss == [k \in 1 .. m |-> Stands(files, dir, frames[m + 1 - k], Depth + k - m)]
           tt == [k \in 1 .. m - 1 |->
                    Stands(files, dir, front[m - 1 + 1 - k], Depth + k - (m - 1))]
           tail == [k \in 1 .. m - 1 |-> ss[k + 1]]
<1>1. m \in Nat \ {0} /\ DOMAIN frames = 1 .. m /\ m <= Depth + 1
      /\ \A j \in 1 .. m : frames[j] \in FrameType /\ frames[j].path \in Paths
                           /\ frames[j].name = frames[j].path[2]
  BY DEF Nested
<1>2. /\ front \in Seq(FrameType) /\ Len(front) = m - 1 /\ DOMAIN front = 1 .. m - 1
      /\ \A i \in 1 .. m - 1 : front[i] = frames[i]
  BY FrontOf DEF Nested
<1> HIDE DEF front
<1>3. Nested(front)
  <2>1. \A j \in 1 .. m - 1 : j \in 1 .. m
    BY <1>1
  <2> QED
    BY <1>1, <1>2, <2>1, Parameters DEF Nested
<1>4. ASSUME NEW k \in 1 .. m
      PROVE  Stands(files, dir, frames[m + 1 - k], Depth + k - m) \in Seq(Piece)
  <2>1. m + 1 - k \in 1 .. m /\ Depth + k - m \in 0 .. Depth
    BY <1>1, Parameters
  <2> QED
    BY <1>1, <2>1, StandsTypes
<1>5. ss \in [1 .. m -> Seq(Piece)]
  BY <1>4
<1>6. FlattenSeq(ss) = ss[1] \o FlattenSeq(tail)
  <2> HIDE DEF ss, m
  <2> QED
    BY <1>1, <1>5, FlattenHead
<1>7. ss[1] = Stands(files, dir, frames[m], Depth + 1 - m)
  <2>1. 1 \in 1 .. m /\ m + 1 - 1 = m
    BY <1>1
  <2> HIDE DEF m
  <2> QED
    BY <2>1
<1>8. tail = tt
  <2>1. ASSUME NEW k \in 1 .. m - 1
        PROVE  ss[k + 1] = Stands(files, dir, front[m - 1 + 1 - k], Depth + k - (m - 1))
    <3>1. /\ k + 1 \in 1 .. m /\ m - 1 + 1 - k = m + 1 - (k + 1)
          /\ Depth + k - (m - 1) = Depth + (k + 1) - m /\ m - 1 + 1 - k \in 1 .. m - 1
      BY <1>1, Parameters
    <3>2. front[m - 1 + 1 - k] = frames[m + 1 - (k + 1)]
      BY <1>2, <3>1
    <3>3. ss[k + 1] = Stands(files, dir, frames[m + 1 - (k + 1)], Depth + (k + 1) - m)
      BY <3>1
    <3> QED
      BY <3>1, <3>2, <3>3
  <2> HIDE DEF ss
  <2> QED
    BY <2>1
<1>9. Pending(files, dir, frames) = FlattenSeq(ss)
  BY DEF Pending
<1>10. Pending(files, dir, front) = FlattenSeq(tt)
  <2>1. Pending(files, dir, front)
          = FlattenSeq([k \in 1 .. Len(front) |->
                Stands(files, dir, front[Len(front) + 1 - k], Depth + k - Len(front))])
    BY DEF Pending
  <2> QED
    BY <1>2, <2>1
<1> HIDE DEF ss, tt, tail
<1> QED
  BY <1>3, <1>6, <1>7, <1>8, <1>9, <1>10 DEF front

LEMMA PendingNothing ==
  ASSUME NEW files, NEW dir, NEW frames, frames = << >>
  PROVE Pending(files, dir, frames) = << >>
<1> DEFINE ss == [k \in 1 .. Len(frames) |->
                    Stands(files, dir, frames[Len(frames) + 1 - k], Depth + k - Len(frames))]
<1>1. Len(frames) = 0
  OBVIOUS
<1>2. ss = << >>
  BY <1>1
<1> HIDE DEF ss
<1>3. FlattenSeq(ss) = << >>
  BY <1>2, FlattenEmpty
<1> QED
  BY <1>3 DEF Pending, ss

WithTop(frames, f) == [frames EXCEPT ![Len(frames)] = f]

\* The innermost text moves on, or is another part of the same file.
LEMMA TopPending ==
  ASSUME NEW files \in [Paths -> Contents], NEW dir, NEW frames, Nested(frames),
         frames # << >>, NEW f \in FrameType,
         f.name = frames[Len(frames)].name, f.path = frames[Len(frames)].path
  PROVE  LET new == WithTop(frames, f) IN
         /\ Nested(new) /\ new # << >> /\ Len(new) = Len(frames) /\ Front(new) = Front(frames)
         /\ new[1].name = frames[1].name /\ new[1].path = frames[1].path
         /\ Pending(files, dir, new)
              = Stands(files, dir, f, Depth + 1 - Len(frames))
                  \o Pending(files, dir, Front(frames))
<1> DEFINE m == Len(frames)
<1>0. PICK moved : moved = WithTop(frames, f)
  OBVIOUS
<1>1. m \in Nat /\ m >= 1 /\ DOMAIN frames = 1 .. m /\ m <= Depth + 1
      /\ frames \in Seq(FrameType)
      /\ \A j \in 1 .. m : frames[j].path \in Paths /\ frames[j].name = frames[j].path[2]
  BY DEF Nested
<1>2. m \in 1 .. Len(frames)
  BY <1>1
<1>3. /\ moved \in Seq(FrameType) /\ Len(moved) = m /\ DOMAIN moved = 1 .. m
      /\ \A i \in 1 .. m : moved[i] = IF i = m THEN f ELSE frames[i]
  BY <1>0, <1>1, <1>2, ExceptSeq DEF WithTop
<1> HIDE DEF m
<1>4. moved # << >> /\ moved[m] = f
  <2>1. m \in 1 .. m /\ 1 \in 1 .. m
    BY <1>1
  <2>2. moved[m] = f
    BY <1>3, <2>1
  <2>3. 1 \in DOMAIN moved
    BY <1>3, <2>1
  <2> QED
    BY <2>2, <2>3
<1>5. Nested(moved)
  BY <1>1, <1>3 DEF Nested
<1>6. Front(moved) = Front(frames)
  <2>1. Front(moved) = [i \in 1 .. m - 1 |-> moved[i]]
    BY <1>1, <1>3 DEF Front
  <2>2. Front(frames) = [i \in 1 .. m - 1 |-> frames[i]]
    BY <1>1 DEF Front
  <2>3. \A i \in 1 .. m - 1 : moved[i] = frames[i]
    BY <1>1, <1>3
  <2> QED
    BY <2>1, <2>2, <2>3
<1>7. moved[1].name = frames[1].name /\ moved[1].path = frames[1].path
  BY <1>1, <1>3
<1>8. Pending(files, dir, moved)
        = Stands(files, dir, moved[m], Depth + 1 - m) \o Pending(files, dir, Front(moved))
  BY <1>3, <1>4, <1>5, PendingFront
<1> QED
  BY <1>3, <1>4, <1>5, <1>6, <1>7, <1>8, <1>0 DEF m

\* Another file is opened on top.
LEMMA PushPending ==
  ASSUME NEW files \in [Paths -> Contents], NEW dir, NEW frames, Nested(frames),
         Len(frames) <= Depth, NEW f \in FrameType, f.path \in Paths, f.name = f.path[2]
  PROVE  /\ Nested(Append(frames, f))
         /\ Pending(files, dir, Append(frames, f))
              = Stands(files, dir, f, Depth - Len(frames)) \o Pending(files, dir, frames)
<1> DEFINE m == Len(frames)
<1>0. PICK new : new = Append(frames, f)
  OBVIOUS
<1>1. m \in Nat /\ DOMAIN frames = 1 .. m /\ frames \in Seq(FrameType)
      /\ \A j \in 1 .. m : frames[j].path \in Paths /\ frames[j].name = frames[j].path[2]
  BY DEF Nested
<1>2. /\ new \in Seq(FrameType) /\ Len(new) = m + 1 /\ DOMAIN new = 1 .. m + 1
      /\ \A i \in 1 .. m : new[i] = frames[i]
      /\ new[m + 1] = f
  BY <1>0, <1>1
<1>3. new # << >>
  BY <1>1, <1>2
<1>4. Nested(new)
  <2>1. ASSUME NEW j \in 1 .. m + 1
        PROVE  new[j].path \in Paths /\ new[j].name = new[j].path[2]
    <3>1. CASE j = m + 1
      BY <1>2, <3>1
    <3>2. CASE j # m + 1
      BY <1>1, <1>2, <3>2
    <3> QED
      BY <3>1, <3>2
  <2> QED
    BY <1>1, <1>2, <2>1, Parameters DEF Nested
<1>5. Front(new) = frames
  <2>1. Front(new) = [i \in 1 .. m |-> new[i]]
    BY <1>1, <1>2 DEF Front
  <2>2. frames = [i \in 1 .. m |-> frames[i]]
    BY <1>1
  <2> QED
    BY <1>2, <2>1, <2>2
<1>6. Pending(files, dir, new)
        = Stands(files, dir, new[m + 1], Depth + 1 - (m + 1)) \o Pending(files, dir, Front(new))
  BY <1>2, <1>3, <1>4, PendingFront
<1>7. Depth + 1 - (m + 1) = Depth - m
  BY <1>1, Parameters
<1> QED
  BY <1>0, <1>2, <1>4, <1>5, <1>6, <1>7

\* The settings a read has taken so far
Taken(settings) ==
  [i \in DOMAIN settings |->
     [kind |-> "set", key |-> settings[i].key, file |-> settings[i].file]]

SettingType == [key: Keys, file: Names \cup {NoName}]

LEMMA TakenTypes ==
  ASSUME NEW settings \in Seq(SettingType)
  PROVE  /\ Taken(settings) \in Seq(Piece) /\ Len(Taken(settings)) = Len(settings)
         /\ DOMAIN Taken(settings) = 1 .. Len(settings)
         /\ \A i \in 1 .. Len(settings) : Taken(settings)[i]
              = [kind |-> "set", key |-> settings[i].key, file |-> settings[i].file]
<1> DEFINE n == Len(settings)
           t == [i \in 1 .. n |->
                   [kind |-> "set", key |-> settings[i].key, file |-> settings[i].file]]
<1>1. n \in Nat /\ DOMAIN settings = 1 .. n /\ \A i \in 1 .. n : settings[i] \in SettingType
  OBVIOUS
<1>2. \A i \in 1 .. n : [kind |-> "set", key |-> settings[i].key, file |-> settings[i].file]
                          \in Piece
  BY <1>1 DEF Piece, SettingType
<1>3. t \in [1 .. n -> Piece]
  BY <1>2
<1>4. \A i \in 1 .. n : t[i]
         = [kind |-> "set", key |-> settings[i].key, file |-> settings[i].file]
  OBVIOUS
<1>5. Taken(settings) = t
  BY <1>1 DEF Taken
<1> HIDE DEF t
<1>6. t \in Seq(Piece) /\ DOMAIN t = 1 .. n
  BY <1>1, <1>3, SeqDef
<1>7. Len(t) = n
  BY <1>1, <1>6, LenProperties
<1> QED
  BY <1>4, <1>5, <1>6, <1>7

LEMMA TakenMore ==
  ASSUME NEW settings \in Seq(SettingType), NEW x \in SettingType
  PROVE  Taken(Append(settings, x))
           = Taken(settings) \o <<[kind |-> "set", key |-> x.key, file |-> x.file]>>
<1> DEFINE n == Len(settings)
           more == Append(settings, x)
           y == [kind |-> "set", key |-> x.key, file |-> x.file]
           new == Taken(settings) \o <<y>>
<1>1. /\ n \in Nat /\ more \in Seq(SettingType) /\ Len(more) = n + 1
      /\ \A i \in 1 .. n : more[i] = settings[i]
      /\ more[n + 1] = x
  OBVIOUS
<1>2. y \in Piece
  BY DEF Piece, SettingType
<1> HIDE DEF y
<1>3. <<y>> \in Seq(Piece) /\ Len(<<y>>) = 1 /\ <<y>>[1] = y
  BY <1>2
<1>4. /\ Taken(settings) \in Seq(Piece) /\ Len(Taken(settings)) = n
      /\ \A i \in 1 .. n : Taken(settings)[i]
              = [kind |-> "set", key |-> settings[i].key, file |-> settings[i].file]
  BY TakenTypes
<1>5. /\ new \in Seq(Piece) /\ Len(new) = n + 1
      /\ \A i \in 1 .. n : new[i] = Taken(settings)[i]
      /\ new[n + 1] = y
  <2> DEFINE t == Taken(settings)
  <2> HIDE DEF t
  <2> QED
    BY <1>1, <1>3, <1>4, ConcatProperties DEF t
<1> HIDE DEF more
<1>6. /\ Taken(more) \in Seq(Piece) /\ Len(Taken(more)) = n + 1
      /\ \A i \in 1 .. n + 1 : Taken(more)[i]
              = [kind |-> "set", key |-> more[i].key, file |-> more[i].file]
  BY <1>1, TakenTypes
<1> HIDE DEF new
<1>7. ASSUME NEW i \in 1 .. n + 1 PROVE Taken(more)[i] = new[i]
  <2>1. CASE i \in 1 .. n
    BY <1>1, <1>4, <1>5, <1>6, <2>1
  <2>2. CASE i = n + 1
    <3>1. n + 1 \in 1 .. n + 1
      BY <1>1
    <3>2. Taken(more)[n + 1]
            = [kind |-> "set", key |-> more[n + 1].key, file |-> more[n + 1].file]
      BY <1>6, <3>1
    <3>3. Taken(more)[n + 1] = y
      BY <1>1, <3>2 DEF y
    <3> QED
      BY <1>5, <2>2, <3>3
  <2> QED
    BY <1>1, <2>1, <2>2
<1>8. Taken(more) = new
  <2> DEFINE t == Taken(more)
  <2> HIDE DEF t
  <2>1. t = new
    BY <1>1, <1>5, <1>6, <1>7, SeqEqual DEF t
  <2> QED
    BY <2>1 DEF t
<1> QED
  BY <1>8 DEF new, more, y

-----------------------------------------------------------------------------
\* A read that began with a file
OfAFile == op = "reading" /\ scan.frames[1].name # NoName

Rest == Pending(disk, opt.include_dir, scan.frames)

\* What such a read has taken and what is left of the texts is the whole file with its
\* includes put in.
Whole ==
  OfAFile =>
    /\ Nested(scan.frames)
    /\ Taken(config.settings) \o Rest = Expanded(disk, opt.include_dir)[Depth][scan.frames[1].path]

\* In the middle of such a read, the innermost text stands before the others.
LEMMA InFile ==
  ASSUME FInv, Whole, OfAFile
  PROVE  /\ disk \in [Paths -> Contents] /\ opt.include_dir \in Dirs \cup {NoDir}
         /\ scan.frames # << >> /\ Nested(scan.frames)
         /\ Len(scan.frames) \in 1 .. Depth + 1
         /\ Last(scan.frames) = scan.frames[Len(scan.frames)]
         /\ Last(scan.frames) \in FrameType
         /\ Last(scan.frames).path \in Paths
         /\ Last(scan.frames).name = Last(scan.frames).path[2]
         /\ config.settings \in Seq(SettingType)
         /\ Rest \in Seq(Piece) /\ Taken(config.settings) \in Seq(Piece)
         /\ Depth + 1 - Len(scan.frames) \in 0 .. Depth
         /\ Nested(Front(scan.frames))
         /\ Pending(disk, opt.include_dir, Front(scan.frames)) \in Seq(Piece)
         /\ Rest = Stands(disk, opt.include_dir, Last(scan.frames), Depth + 1 - Len(scan.frames))
                     \o Pending(disk, opt.include_dir, Front(scan.frames))
<1>1. disk \in [Paths -> Contents] /\ opt.include_dir \in Dirs \cup {NoDir}
      /\ config.settings \in Seq(SettingType)
  BY DEF FInv, Typed, OptionType, ConfigType, SettingType
<1>2. InRead(scan) /\ scan.frames # << >> /\ Nested(scan.frames)
  BY DEF FInv, OfAFile, Whole, InRead
<1>3. /\ Len(scan.frames) \in Nat /\ Len(scan.frames) >= 1
      /\ DOMAIN scan.frames = 1 .. Len(scan.frames)
      /\ Last(scan.frames) = scan.frames[Len(scan.frames)]
      /\ Last(scan.frames) \in FrameType
  BY <1>2, InReadFacts
<1>4. Len(scan.frames) \in 1 .. Depth + 1 /\ Depth + 1 - Len(scan.frames) \in 0 .. Depth
  BY <1>2, <1>3, Parameters DEF Nested
<1>5. Last(scan.frames).path \in Paths /\ Last(scan.frames).name = Last(scan.frames).path[2]
  <2>1. Len(scan.frames) \in DOMAIN scan.frames
    BY <1>3
  <2> QED
    BY <1>2, <1>3, <2>1 DEF Nested
<1>6. Rest \in Seq(Piece) /\ Taken(config.settings) \in Seq(Piece)
  BY <1>1, <1>2, PendingTypes, TakenTypes DEF Rest
<1>7. /\ Nested(Front(scan.frames))
      /\ Rest = Stands(disk, opt.include_dir, Last(scan.frames), Depth + 1 - Len(scan.frames))
                     \o Pending(disk, opt.include_dir, Front(scan.frames))
  BY <1>1, <1>2, <1>3, PendingFront DEF Rest
<1>8. Pending(disk, opt.include_dir, Front(scan.frames)) \in Seq(Piece)
  BY <1>1, <1>7, PendingTypes
<1> QED
  BY <1>1, <1>2, <1>3, <1>4, <1>5, <1>6, <1>7, <1>8

\* The next item stands before what follows it.
LEMMA ItemFirst ==
  ASSUME FInv, Whole, OfAFile, NEW kind, NextItem(kind)
  PROVE  LET top == Last(scan.frames)
             d == Depth + 1 - Len(scan.frames)
             below == Below(disk, opt.include_dir, d)
         IN /\ top.rest \in Seq(Items) /\ Item \in Items /\ Item.kind = kind
            /\ Tail(top.rest) \in Seq(Items)
            /\ below \in [Openable(disk, d) -> Seq(Piece)]
            /\ ItemInPlace(Item, top.name, opt.include_dir, below) \in Seq(Piece)
            /\ InPlace(Tail(top.rest), top.name, opt.include_dir, below) \in Seq(Piece)
            /\ Rest = ItemInPlace(Item, top.name, opt.include_dir, below)
                        \o (InPlace(Tail(top.rest), top.name, opt.include_dir, below)
                              \o Pending(disk, opt.include_dir, Front(scan.frames)))
<1> DEFINE top == Last(scan.frames)
           d == Depth + 1 - Len(scan.frames)
           dir == opt.include_dir
           below == Below(disk, dir, d)
           p == Pending(disk, dir, Front(scan.frames))
           a == ItemInPlace(Item, top.name, dir, below)
           c == InPlace(Tail(top.rest), top.name, dir, below)
<1>1. /\ disk \in [Paths -> Contents] /\ top \in FrameType /\ d \in 0 .. Depth
      /\ p \in Seq(Piece) /\ Rest = Stands(disk, dir, top, d) \o p
  BY InFile
<1>2. /\ top.rest # << >> /\ top.loaded /\ Head(top.rest).kind = kind
      /\ Item = Head(top.rest)
  BY DEF NextItem, Item
<1>3. top.rest \in Seq(Items) /\ top.name \in Names \cup {NoName}
  BY <1>1 DEF FrameType
<1> HIDE DEF top, d, dir, p
<1>4. Item \in Items /\ Item.kind = kind /\ Tail(top.rest) \in Seq(Items)
  BY <1>2, <1>3
<1>5. below \in [Openable(disk, d) -> Seq(Piece)]
  BY <1>1, ExpandedIs
<1>6. Stands(disk, dir, top, d) = InPlace(top.rest, top.name, dir, below)
  BY <1>2 DEF Stands, Left
<1> HIDE DEF below
<1>7. InPlace(top.rest, top.name, dir, below) = a \o c
  <2>1. InPlace(top.rest, top.name, dir, below)
          = ItemInPlace(Head(top.rest), top.name, dir, below)
              \o InPlace(Tail(top.rest), top.name, dir, below)
    <3> DEFINE D == Openable(disk, d)
               items == top.rest
               name == top.name
    <3>1. below \in [D -> Seq(Piece)] /\ items \in Seq(Items) /\ items # << >>
          /\ name \in Names \cup {NoName}
      BY <1>2, <1>3, <1>5
    <3> HIDE DEF D, items, name
    <3>2. InPlace(items, name, dir, below)
            = ItemInPlace(Head(items), name, dir, below)
                \o InPlace(Tail(items), name, dir, below)
      BY <3>1, InPlaceHead
    <3> QED
      BY <3>2 DEF items, name
  <2> QED
    BY <1>2, <2>1
<1>8. a \in Seq(Piece) /\ c \in Seq(Piece)
  BY <1>3, <1>4, <1>5, ItemTypes, InPlaceTypes
<1> HIDE DEF a, c
<1>9. (a \o c) \o p = a \o (c \o p)
  BY <1>1, <1>8, ConcatAssociative
<1>10. Rest = a \o (c \o p)
  BY <1>1, <1>6, <1>7, <1>9
<1> QED
  BY <1>3, <1>4, <1>5, <1>8, <1>10 DEF top, d, dir, below, p, a, c

LEMMA FillWhole == ASSUME FInv, Whole, Fill PROVE Whole'
<1> SUFFICES ASSUME OfAFile' PROVE Whole'
  BY DEF Whole
<1> DEFINE m == Len(scan.frames)
           top == Last(scan.frames)
           f == [top EXCEPT !.rest = disk[top.path].items, !.loaded = TRUE]
           fs == [scan.frames EXCEPT ![m] = f]
           dir == opt.include_dir
           d == Depth + 1 - m
<1>1. /\ ~ top.loaded /\ op' = "reading" /\ op = "reading"
      /\ UNCHANGED <<disk, opt, config, op>>
  BY DEF Fill, Reading
<1>2. CASE UNCHANGED scan
  BY <1>1, <1>2 DEF Whole, OfAFile, Rest
<1>3. CASE scan' = [scan EXCEPT !.frames[m] = f]
  <2>1. InRead(scan) /\ scan \in ScanType
    BY <1>1, InReadFacts DEF FInv
  <2>2. scan'.frames = fs
    BY <1>3, <2>1 DEF ScanType
  <2>3. /\ top = scan.frames[m] /\ m \in Nat /\ m >= 1 /\ DOMAIN scan.frames = 1 .. m
        /\ top \in FrameType
    BY <2>1, InReadFacts
  <2>4. disk \in [Paths -> Contents]
    BY DEF FInv, Typed
  <2>5. top.path \in Paths
    <3>1. m \in DOMAIN scan.frames
      BY <2>3
    <3> QED
      BY <1>1, <2>1, <2>3, <3>1 DEF InRead, FramesOK
  <2>6. /\ f \in FrameType /\ f.name = top.name /\ f.path = top.path /\ f.loaded
        /\ f.rest = disk[top.path].items
    BY <2>3, <2>4, <2>5 DEF FrameType, Contents
  <2> HIDE DEF f, fs
  <2>7. fs[1].name = scan.frames[1].name
    <3>1. fs = [scan.frames EXCEPT ![m] = f]
      BY DEF fs
    <3> QED
      BY <2>3, <2>6, <3>1
  <2>8. OfAFile
    BY <1>1, <2>2, <2>7 DEF OfAFile
  <2>9. /\ scan.frames # << >> /\ Nested(scan.frames)
        /\ Rest = Stands(disk, dir, top, d) \o Pending(disk, dir, Front(scan.frames))
    BY <2>8, InFile
  <2>10. /\ Nested(fs) /\ fs[1].path = scan.frames[1].path
         /\ Pending(disk, dir, fs)
              = Stands(disk, dir, f, d) \o Pending(disk, dir, Front(scan.frames))
    <3> DEFINE frames == scan.frames
    <3>1. /\ Nested(frames) /\ frames # << >> /\ fs = WithTop(frames, f)
          /\ f.name = frames[Len(frames)].name /\ f.path = frames[Len(frames)].path
      BY <2>3, <2>6, <2>9 DEF fs, WithTop
    <3> HIDE DEF frames, dir
    <3>2. /\ Nested(fs) /\ fs[1].path = frames[1].path
          /\ Pending(disk, dir, fs)
               = Stands(disk, dir, f, Depth + 1 - Len(frames))
                   \o Pending(disk, dir, Front(frames))
      BY <2>4, <2>6, <3>1, TopPending
    <3> QED
      BY <3>2 DEF frames
  <2>11. Stands(disk, dir, f, d) = Stands(disk, dir, top, d)
    <3>1. Left(disk, f) = Left(disk, top)
      BY <1>1, <2>6 DEF Left
    <3> QED
      BY <2>6, <3>1 DEF Stands
  <2>12. Rest' = Rest
    BY <1>1, <2>2, <2>9, <2>10, <2>11 DEF Rest
  <2> QED
    BY <1>1, <2>2, <2>8, <2>10, <2>12 DEF Whole
<1> QED
  BY <1>2, <1>3 DEF Fill

\* The text after the next item, with the innermost text moved past it.
LEMMA SkipsItem ==
  ASSUME FInv, Whole, OfAFile, NEW kind, NextItem(kind)
  PROVE  LET top == Last(scan.frames)
             m == Len(scan.frames)
             new == Skip(scan.frames)
             below == Below(disk, opt.include_dir, Depth + 1 - m)
         IN /\ Nested(new) /\ Len(new) = m /\ new # << >>
            /\ new[1].name = scan.frames[1].name /\ new[1].path = scan.frames[1].path
            /\ Pending(disk, opt.include_dir, new)
                 = InPlace(Tail(top.rest), top.name, opt.include_dir, below)
                     \o Pending(disk, opt.include_dir, Front(scan.frames))
<1> DEFINE top == Last(scan.frames)
           m == Len(scan.frames)
           d == Depth + 1 - m
           dir == opt.include_dir
           f == [top EXCEPT !.rest = Tail(top.rest)]
           moved == WithTop(scan.frames, f)
<1>1. /\ top.rest \in Seq(Items) /\ Tail(top.rest) \in Seq(Items)
  BY ItemFirst
<1>2. /\ disk \in [Paths -> Contents] /\ top \in FrameType /\ scan.frames # << >>
      /\ Nested(scan.frames) /\ top = scan.frames[m]
  BY InFile
<1>3. top.loaded
  BY DEF NextItem
<1>4. /\ f \in FrameType /\ f.name = top.name /\ f.path = top.path /\ f.loaded
      /\ f.rest = Tail(top.rest)
  BY <1>1, <1>2, <1>3 DEF FrameType
<1>5. Skip(scan.frames) = moved
  BY <1>2 DEF Skip, WithTop
<1> HIDE DEF f
<1>6. /\ Nested(moved) /\ moved # << >> /\ Len(moved) = m
      /\ moved[1].name = scan.frames[1].name /\ moved[1].path = scan.frames[1].path
      /\ Pending(disk, dir, moved) = Stands(disk, dir, f, d) \o Pending(disk, dir, Front(scan.frames))
  <2> DEFINE frames == scan.frames
  <2>1. /\ Nested(frames) /\ frames # << >> /\ f \in FrameType /\ disk \in [Paths -> Contents]
        /\ f.name = frames[Len(frames)].name /\ f.path = frames[Len(frames)].path
    BY <1>2, <1>4
  <2> HIDE DEF frames, dir, m, d, top, moved
  <2>2. /\ Nested(WithTop(frames, f)) /\ WithTop(frames, f) # << >>
        /\ Len(WithTop(frames, f)) = Len(frames)
        /\ WithTop(frames, f)[1].name = frames[1].name
        /\ WithTop(frames, f)[1].path = frames[1].path
        /\ Pending(disk, dir, WithTop(frames, f))
             = Stands(disk, dir, f, Depth + 1 - Len(frames)) \o Pending(disk, dir, Front(frames))
    BY <2>1, TopPending
  <2> QED
    BY <2>2 DEF frames, moved, m, d
<1>7. Stands(disk, dir, f, d) = InPlace(Tail(top.rest), top.name, dir, Below(disk, dir, d))
  BY <1>4 DEF Stands, Left
<1> QED
  BY <1>5, <1>6, <1>7

LEMMA SetWhole == ASSUME FInv, Whole, Set PROVE Whole'
<1> SUFFICES ASSUME OfAFile' PROVE Whole'
  BY DEF Whole
<1> DEFINE new == Skip(scan.frames)
           top == Last(scan.frames)
           dir == opt.include_dir
           x == [kind |-> "set", key |-> Item.key, file |-> top.name]
           setting == [key |-> Item.key, file |-> top.name]
           below == Below(disk, dir, Depth + 1 - Len(scan.frames))
           t == Taken(config.settings)
           p == InPlace(Tail(top.rest), top.name, dir, below)
                  \o Pending(disk, dir, Front(scan.frames))
<1>1. /\ NextItem("set") /\ op = "reading" /\ UNCHANGED <<disk, opt, op>>
      /\ config' = [config EXCEPT !.settings = Append(config.settings, setting)]
      /\ scan' = [scan EXCEPT !.frames = new]
  BY DEF Set, NextItem, Reading, CurrentName
<1>2. InRead(scan) /\ scan \in ScanType /\ config \in ConfigType
  BY <1>1, InReadFacts DEF FInv, Typed
<1>3. scan'.frames = new /\ config'.settings = Append(config.settings, setting)
  BY <1>1, <1>2 DEF ScanType, ConfigType
<1>4. OfAFile
  <2> DEFINE m == Len(scan.frames)
             f == [top EXCEPT !.rest = Tail(top.rest)]
  <2>1. top = scan.frames[m] /\ top \in FrameType /\ m \in Nat /\ m >= 1
        /\ DOMAIN scan.frames = 1 .. m
    BY <1>2, InReadFacts
  <2>2. new = [scan.frames EXCEPT ![m] = f] /\ f.name = top.name
    BY <2>1 DEF Skip, FrameType
  <2> HIDE DEF new, f
  <2>3. new[1].name = scan.frames[1].name
    BY <2>1, <2>2
  <2> QED
    BY <1>1, <1>3, <2>3 DEF OfAFile
<1>5. /\ Item \in Items /\ Item.kind = "set"
      /\ Rest = ItemInPlace(Item, top.name, dir, below) \o p
      /\ Tail(top.rest) \in Seq(Items)
      /\ InPlace(Tail(top.rest), top.name, dir, below) \in Seq(Piece)
  BY <1>1, <1>4, ItemFirst
<1>6. /\ Nested(new) /\ new[1].path = scan.frames[1].path
      /\ Pending(disk, dir, new) = p
  BY <1>1, <1>4, SkipsItem
<1>7. /\ top \in FrameType /\ config.settings \in Seq(SettingType) /\ t \in Seq(Piece)
      /\ Pending(disk, dir, Front(scan.frames)) \in Seq(Piece)
      /\ Nested(scan.frames)
      /\ t \o Rest = Expanded(disk, dir)[Depth][scan.frames[1].path]
  BY <1>4, InFile DEF Whole
<1>8. Item.key \in Keys /\ top.name \in Names \cup {NoName}
  <2>1. Item.key \in Keys
    BY <1>5 DEF Items
  <2>2. top.name \in Names \cup {NoName}
    <3> HIDE DEF top
    <3> QED
      BY <1>7 DEF FrameType
  <2> QED
    BY <2>1, <2>2
<1>9. setting \in SettingType /\ x \in Piece
  BY <1>8 DEF SettingType, Piece
<1>10. ItemInPlace(Item, top.name, dir, below) = <<x>>
  BY <1>5 DEF ItemInPlace
<1>11. Taken(config'.settings) = t \o <<x>>
  <2>1. setting.key = Item.key /\ setting.file = top.name
    OBVIOUS
  <2> HIDE DEF setting
  <2> QED
    BY <1>3, <1>7, <1>9, <2>1, TakenMore
<1>12. p \in Seq(Piece)
  BY <1>5, <1>7, ConcatProperties
<1> HIDE DEF new, x, setting, below, t, p, dir, top
<1>13. (t \o <<x>>) \o p = t \o (<<x>> \o p)
  <2>1. <<x>> \in Seq(Piece)
    BY <1>9
  <2> QED
    BY <1>7, <1>12, <2>1, ConcatAssociative
<1>14. Rest' = p
  BY <1>1, <1>3, <1>6 DEF Rest, dir
<1>15. Taken(config'.settings) \o Rest' = t \o Rest
  BY <1>5, <1>10, <1>11, <1>13, <1>14
<1> QED
  BY <1>1, <1>3, <1>6, <1>7, <1>15 DEF Whole, dir

\* An include directive is replaced by the file it names, opened on top of the rest.
LEMMA IncludeWhole == ASSUME FInv, Whole, Include PROVE Whole'
<1> SUFFICES ASSUME OfAFile' PROVE Whole'
  BY DEF Whole
<1> DEFINE skipped == Skip(scan.frames)
           m == Len(scan.frames)
           top == Last(scan.frames)
           dir == opt.include_dir
           d == Depth + 1 - m
           below == Below(disk, dir, d)
           f == Frame(Item.name, IncludedPath)
           ctx == AddName(scan, Item.name)
           fs == Append(skipped, f)
           t == Taken(config.settings)
           p == InPlace(Tail(top.rest), top.name, dir, below)
                  \o Pending(disk, dir, Front(scan.frames))
<1>1. /\ NextItem("include") /\ op = "reading" /\ UNCHANGED <<disk, opt, config, op>>
      /\ m - 1 < Depth /\ disk[IncludedPath].kind # "missing"
      /\ scan' = [ctx EXCEPT !.frames = Append(Skip(ctx.frames), f)]
  BY DEF Include, NextItem, Reading, IncludeDepth
<1>2. InRead(scan) /\ scan \in ScanType /\ ListOK(scan) /\ m \in Nat /\ m >= 1
      /\ top = scan.frames[m] /\ top \in FrameType /\ DOMAIN scan.frames = 1 .. m
  BY <1>1, InReadFacts DEF FInv, InRead
<1>3. Item \in Items /\ Item.kind = "include" /\ Item.name \in Names
  <2>1. Item \in Items /\ Item.kind = "include"
    BY <1>1, <1>2, ItemTaken
  <2> QED
    BY <2>1 DEF Items
<1>4. scan'.frames = fs
  <2>1. ctx \in ScanType /\ ctx.frames = scan.frames
    BY <1>2, <1>3, AddNameOK DEF ListOK
  <2> HIDE DEF ctx, f
  <2> QED
    BY <1>1, <2>1 DEF ScanType
<1>5. skipped[1].name = scan.frames[1].name /\ Len(skipped) = m /\ skipped \in Seq(FrameType)
  <2> DEFINE g == [top EXCEPT !.rest = Tail(top.rest)]
  <2>1. skipped = [scan.frames EXCEPT ![m] = g] /\ g.name = top.name
    BY <1>2 DEF Skip, FrameType
  <2>2. top.rest \in Seq(Items) /\ top.rest # << >>
    BY <1>1, <1>2 DEF NextItem, FrameType
  <2>3. g \in FrameType
    <3>1. Tail(top.rest) \in Seq(Items)
      BY <2>2
    <3> HIDE DEF top
    <3> QED
      BY <1>2, <3>1 DEF FrameType
  <2>4. scan.frames \in Seq(FrameType)
    BY <1>2 DEF ScanType
  <2> HIDE DEF skipped, g
  <2> QED
    BY <1>2, <2>1, <2>3, <2>4
<1>6. fs[1] = skipped[1]
  <2> HIDE DEF skipped, f
  <2> QED
    BY <1>2, <1>5
<1>7. OfAFile
  BY <1>1, <1>4, <1>5, <1>6 DEF OfAFile
<1>8. /\ Rest = ItemInPlace(Item, top.name, dir, below) \o p
      /\ below \in [Openable(disk, d) -> Seq(Piece)]
  BY <1>1, <1>7, ItemFirst
<1>9. /\ Nested(skipped) /\ skipped # << >> /\ skipped[1].path = scan.frames[1].path
      /\ Pending(disk, dir, skipped) = p
  BY <1>1, <1>7, SkipsItem
<1>10. /\ disk \in [Paths -> Contents] /\ dir \in Dirs \cup {NoDir}
       /\ t \o Rest = Expanded(disk, dir)[Depth][scan.frames[1].path]
  BY <1>7, InFile DEF Whole
<1>11. /\ f \in FrameType /\ f.path = IncludedPath /\ f.name = f.path[2] /\ ~ f.loaded
       /\ IncludedPath \in Paths /\ IncludedPath = <<dir, Item.name>>
  BY <1>3, <1>10 DEF Frame, FrameType, IncludedPath, Paths
<1>12. /\ d > 0 /\ d - 1 \in 0 .. Depth /\ d - 1 = Depth - m /\ m <= Depth
  BY <1>1, <1>2, Parameters
<1> HIDE DEF skipped, f, p, ctx, top, below
<1>13. /\ Nested(fs)
       /\ Pending(disk, dir, fs) = Stands(disk, dir, f, Depth - m) \o p
  <2>1. Nested(Append(skipped, f)) /\ Pending(disk, dir, Append(skipped, f))
          = Stands(disk, dir, f, Depth - Len(skipped)) \o Pending(disk, dir, skipped)
    <3> HIDE DEF dir, m
    <3> QED
      BY <1>5, <1>9, <1>10, <1>11, <1>12, PushPending
  <2> QED
    BY <1>5, <1>9, <2>1
<1>14. Stands(disk, dir, f, d - 1) = ItemInPlace(Item, top.name, dir, below)
  <2>1. IncludedPath \in Openable(disk, d)
    BY <1>1, <1>11, <1>12 DEF Openable
  <2>2. ItemInPlace(Item, top.name, dir, below) = below[IncludedPath]
    BY <1>3, <1>8, <1>11, <2>1 DEF ItemInPlace
  <2>3. below[IncludedPath] = Expanded(disk, dir)[d - 1][IncludedPath]
    BY <2>1 DEF below, Below
  <2>4. Expanded(disk, dir)[d - 1]
          = [q \in Paths |-> InPlace(disk[q].items, q[2], dir, Below(disk, dir, d - 1))]
    BY <1>10, <1>12, ExpandedIs
  <2>5. Expanded(disk, dir)[d - 1][IncludedPath]
          = InPlace(disk[f.path].items, f.name, dir, Below(disk, dir, d - 1))
    BY <1>11, <2>4
  <2>6. Stands(disk, dir, f, d - 1)
          = InPlace(disk[f.path].items, f.name, dir, Below(disk, dir, d - 1))
    BY <1>11 DEF Stands, Left
  <2> QED
    BY <2>2, <2>3, <2>5, <2>6
<1>15. Rest' = Rest
  BY <1>1, <1>4, <1>8, <1>12, <1>13, <1>14 DEF Rest
<1>16. fs[1].path = scan.frames[1].path
  BY <1>6, <1>9
<1> QED
  BY <1>1, <1>4, <1>10, <1>13, <1>15, <1>16 DEF Whole

LEMMA PopWhole == ASSUME FInv, Whole, PopInclude PROVE Whole'
<1> SUFFICES ASSUME OfAFile' PROVE Whole'
  BY DEF Whole
<1> DEFINE front == Front(scan.frames)
           m == Len(scan.frames)
           top == Last(scan.frames)
           dir == opt.include_dir
<1>1. /\ op = "reading" /\ UNCHANGED <<disk, opt, config, op>> /\ m - 1 > 0
      /\ top.loaded /\ top.rest = << >>
      /\ scan' = [scan EXCEPT !.frames = front]
  BY DEF PopInclude, AtEnd, Reading, IncludeDepth
<1>2. InRead(scan) /\ scan \in ScanType /\ m \in Nat
  BY <1>1, InReadFacts DEF FInv
<1>3. /\ scan'.frames = front /\ front[1] = scan.frames[1]
  <2>1. scan.frames \in Seq(FrameType) /\ scan.frames # << >>
    BY <1>2 DEF ScanType, InRead
  <2>2. \A i \in 1 .. m - 1 : front[i] = scan.frames[i]
    BY <2>1, FrontOf
  <2> QED
    BY <1>1, <1>2, <2>2 DEF ScanType
<1>4. OfAFile
  BY <1>1, <1>3 DEF OfAFile
<1>5. /\ Nested(front) /\ Pending(disk, dir, front) \in Seq(Piece)
      /\ Rest = Stands(disk, dir, top, Depth + 1 - m) \o Pending(disk, dir, front)
  BY <1>4, InFile
<1>6. Stands(disk, dir, top, Depth + 1 - m) = << >>
  BY <1>1, InPlaceEmpty DEF Stands, Left
<1>7. Rest = Pending(disk, dir, front)
  <2> DEFINE p == Pending(disk, dir, front)
  <2> HIDE DEF p
  <2>1. << >> \o p = p
    BY <1>5, ConcatEmptySeq DEF p
  <2> QED
    BY <1>5, <1>6, <2>1 DEF p
<1>8. Rest' = Rest
  BY <1>1, <1>3, <1>7 DEF Rest
<1> QED
  BY <1>1, <1>3, <1>4, <1>5, <1>8 DEF Whole

\* A read of a file begins with all of it to come.
LEMMA ReadFileWhole == ASSUME FInv, NEW name \in Names, ReadFile(name) PROVE Whole'
<1> SUFFICES ASSUME OfAFile' PROVE Whole'
  BY DEF Whole
<1> DEFINE path == <<NoDir, name>>
           f == Frame(name, path)
           ctx == AddName(NoScan, name)
           dir == opt'.include_dir
<1>1. Call
  BY DEF ReadFile
<1>2. op = "idle"
  BY <1>1, CallFacts
<1>3. StartReading([ctx EXCEPT !.frames = <<f>>])
  BY <1>2 DEF ReadFile, IOError, OfAFile
<1>4. f \in FrameType /\ f.name = name /\ f.path = path /\ path \in Paths /\ ~ f.loaded
      /\ path[2] = name
  BY DEF Frame, FrameType, Paths
<1>5. ctx \in ScanType
  BY NoScanOK, AddNameOK DEF ListOK
<1> HIDE DEF f, ctx
<1>6. /\ scan'.frames = <<f>> /\ disk' = disk /\ config' = EmptyConfig /\ op' = "reading"
  BY <1>3, <1>5 DEF StartReading, ScanType
<1>7. disk \in [Paths -> Contents] /\ Depth \in 0 .. Depth
  BY Parameters DEF FInv, Typed
<1>8. Nested(<< >>) /\ Len(<< >>) <= Depth /\ Append(<< >>, f) = <<f>> /\ Len(<< >>) = 0
  BY Parameters DEF Nested
<1>9. /\ Nested(<<f>>)
      /\ Pending(disk, dir, <<f>>)
           = Stands(disk, dir, f, Depth - 0) \o Pending(disk, dir, << >>)
  <2> DEFINE e == << >>
  <2>1. Nested(e) /\ Len(e) <= Depth
    BY <1>8
  <2> HIDE DEF dir, path, e
  <2>2. Nested(Append(e, f)) /\ Pending(disk, dir, Append(e, f))
          = Stands(disk, dir, f, Depth - Len(e)) \o Pending(disk, dir, e)
    BY <1>4, <1>7, <2>1, PushPending
  <2> QED
    BY <1>8, <2>2 DEF e
<1>10. Depth - 0 = Depth
  BY Parameters
<1>11. Pending(disk, dir, << >>) = << >>
  BY PendingNothing
<1>12. Stands(disk, dir, f, Depth) \in Seq(Piece)
  BY <1>4, <1>7, StandsTypes
<1>13. Pending(disk, dir, <<f>>) = Stands(disk, dir, f, Depth)
  <2> DEFINE s == Stands(disk, dir, f, Depth)
  <2> HIDE DEF s
  <2>1. s \o << >> = s
    BY <1>12, ConcatEmptySeq DEF s
  <2> QED
    BY <1>9, <1>10, <1>11, <2>1 DEF s
<1>14. Stands(disk, dir, f, Depth) = Expanded(disk, dir)[Depth][path]
  <2>1. Expanded(disk, dir)[Depth]
          = [q \in Paths |-> InPlace(disk[q].items, q[2], dir, Below(disk, dir, Depth))]
    BY <1>7, ExpandedIs
  <2>2. Expanded(disk, dir)[Depth][path]
          = InPlace(disk[path].items, path[2], dir, Below(disk, dir, Depth))
    BY <1>4, <2>1
  <2> QED
    BY <1>4, <2>2 DEF Stands, Left
<1>15. Taken(config'.settings) = << >>
  BY <1>6 DEF EmptyConfig, Taken
<1>16. << >> \o Rest' = Rest'
  <2> DEFINE p == Pending(disk, dir, <<f>>)
  <2>1. p \in Seq(Piece) /\ Rest' = p
    BY <1>6, <1>12, <1>13 DEF Rest
  <2> HIDE DEF p
  <2> QED
    BY <2>1, ConcatEmptySeq
<1>17. Rest' = Expanded(disk, dir)[Depth][path]
  BY <1>6, <1>13, <1>14 DEF Rest
<1>18. scan'.frames[1] = f
  BY <1>6
<1> QED
  BY <1>4, <1>6, <1>9, <1>15, <1>16, <1>17, <1>18 DEF Whole

LEMMA ReadTextWhole == ASSUME FInv, NEW text \in Texts, ReadText(text) PROVE Whole'
<1> DEFINE f == [name |-> NoName, path |-> <<NoDir, NoName>>, rest |-> text,
                 loaded |-> TRUE]
<1>1. scan' = [NoScan EXCEPT !.frames = <<f>>]
  BY DEF ReadText, StartReading
<1>2. f.name = NoName
  OBVIOUS
<1> HIDE DEF f
<1>3. scan'.frames[1].name = NoName
  BY <1>1, <1>2 DEF NoScan
<1> QED
  BY <1>3 DEF Whole, OfAFile

\* Between two reads nothing is claimed.
LEMMA NotReading == ASSUME op' # "reading" PROVE Whole'
  BY DEF Whole, OfAFile

LEMMA NextWhole == ASSUME FInv, Whole, [Next]_vars PROVE Whole'
<1>1. ASSUME Library PROVE Whole'
  <2>1. ASSUME NEW r, NEW conf, Finish(r, conf) PROVE Whole'
    BY <2>1, NotReading DEF Finish
  <2>2. CASE Duplicate \/ SyntaxError \/ FailInclude \/ EndOfText
    BY <2>1, <2>2 DEF Duplicate, SyntaxError, FailInclude, EndOfText, Fail
  <2>3. ASSUME NEW k \in 0 .. Len(config.settings), NEW cut \in BOOLEAN, FlushAndClose(k, cut)
        PROVE  Whole'
    BY <2>3, NotReading DEF FlushAndClose
  <2> QED
    BY <1>1, <2>2, <2>3, FillWhole, SetWhole, IncludeWhole, PopWhole DEF Library
<1>2. ASSUME Application PROVE Whole'
  <2>1. ASSUME NEW name \in Names, WriteFile(name) PROVE Whole'
    BY <2>1, CallFacts, NotReading DEF WriteFile, IOError
  <2>2. ASSUME NEW dir \in Dirs \cup {NoDir}, SetIncludeDir(dir) PROVE Whole'
    BY <2>2, CallFacts, NotReading DEF SetIncludeDir
  <2>3. ASSUME NEW auto \in BOOLEAN, NEW hex \in BOOLEAN, SetOptions(auto, hex) PROVE Whole'
    BY <2>3, CallFacts, NotReading DEF SetOptions
  <2> QED
    BY <1>2, <2>1, <2>2, <2>3, ReadFileWhole, ReadTextWhole DEF Application
<1>3. ASSUME UNCHANGED vars PROVE Whole'
  BY <1>3 DEF vars, Whole, OfAFile, Rest
<1> QED
  BY <1>1, <1>2, <1>3 DEF Next, Done

\* What ReadsWhatItIncludes says of a read that is over
Tells(all, r, conf) ==
  LET n == Len(conf.settings)
      seen(i) == {all[j].key : j \in 1 .. i - 1}
  IN /\ n <= Len(all)
     /\ \A i \in 1 .. n :
          all[i] = [kind |-> "set", key |-> conf.settings[i].key,
                    file |-> conf.settings[i].file]
     /\ r = "true" <=> n = Len(all)
     /\ r = "false" =>
          /\ all[n + 1].kind = "bad" \/ all[n + 1].key \in seen(n + 1)
          /\ conf.error.file = all[n + 1].file

\* What is left when a read ends: nothing, or first what it failed for.
Stops(r, conf, rest) ==
  \/ r = "true" /\ rest = << >>
  \/ /\ r = "false"
     /\ \E x \in Piece, y \in Seq(Piece) :
          /\ rest = <<x>> \o y
          /\ x.kind = "bad" \/ x.key \in KeysOf(conf.settings)
          /\ conf.error.file = x.file

LEMMA TellsWhole ==
  ASSUME NEW r, NEW conf, conf.settings \in Seq(SettingType),
         NEW rest \in Seq(Piece), Stops(r, conf, rest)
  PROVE  Tells(Taken(conf.settings) \o rest, r, conf)
<1> DEFINE n == Len(conf.settings)
           t == Taken(conf.settings)
           all == t \o rest
<1>1. /\ n \in Nat /\ t \in Seq(Piece) /\ Len(t) = n /\ DOMAIN conf.settings = 1 .. n
      /\ \A i \in 1 .. n : t[i]
           = [kind |-> "set", key |-> conf.settings[i].key, file |-> conf.settings[i].file]
  BY TakenTypes
<1> HIDE DEF t
<1>2. /\ all \in Seq(Piece) /\ Len(all) = n + Len(rest) /\ Len(rest) \in Nat
      /\ \A i \in 1 .. n : all[i] = t[i]
      /\ Len(rest) > 0 => all[n + 1] = rest[1]
  <2>1. /\ all \in Seq(Piece) /\ Len(all) = Len(t) + Len(rest) /\ Len(rest) \in Nat
        /\ \A i \in 1 .. Len(t) + Len(rest) :
             all[i] = IF i <= Len(t) THEN t[i] ELSE rest[i - Len(t)]
    <3>1. Len(rest) \in Nat
      OBVIOUS
    <3>2. /\ t \o rest \in Seq(Piece) /\ Len(t \o rest) = Len(t) + Len(rest)
          /\ \A i \in 1 .. Len(t) + Len(rest) :
               (t \o rest)[i] = IF i <= Len(t) THEN t[i] ELSE rest[i - Len(t)]
      <4>1. t \in Seq(Piece)
        BY <1>1
      <4> QED
        BY ONLY <4>1, rest \in Seq(Piece), ConcatProperties
    <3> QED
      BY <3>1, <3>2
  <2> HIDE DEF all, n
  <2>2. \A i \in 1 .. n : i \in 1 .. Len(t) + Len(rest) /\ i <= Len(t)
    BY <1>1, <2>1
  <2>3. Len(rest) > 0 => /\ n + 1 \in 1 .. Len(t) + Len(rest) /\ ~ (n + 1 <= Len(t))
                         /\ n + 1 - Len(t) = 1
    BY <1>1, <2>1
  <2> QED
    BY <1>1, <2>1, <2>2, <2>3
<1> HIDE DEF all, n
<1>3. \A i \in 1 .. n : all[i]
        = [kind |-> "set", key |-> conf.settings[i].key, file |-> conf.settings[i].file]
  BY <1>1, <1>2
<1>4. CASE r = "true" /\ rest = << >>
  <2>1. Len(all) = n
    BY <1>1, <1>2, <1>4
  <2> QED
    BY <1>1, <1>3, <1>4, <2>1 DEF Tells, all, n, t
<1>5. CASE r = "false" /\ rest # << >>
  <2>1. PICK x \in Piece, y \in Seq(Piece) :
          /\ rest = <<x>> \o y
          /\ x.kind = "bad" \/ x.key \in KeysOf(conf.settings)
          /\ conf.error.file = x.file
    BY <1>5 DEF Stops
  <2>2. rest[1] = x /\ Len(rest) > 0
    <3>1. <<x>> \in Seq(Piece) /\ Len(<<x>>) = 1 /\ <<x>>[1] = x /\ Len(y) \in Nat
      OBVIOUS
    <3>2. Len(<<x>> \o y) = 1 + Len(y) /\ (<<x>> \o y)[1] = <<x>>[1]
      BY <3>1
    <3> QED
      BY <2>1, <3>1, <3>2
  <2>3. all[n + 1] = x /\ n < Len(all)
    BY <1>1, <1>2, <2>2
  <2>4. KeysOf(conf.settings) = {all[j].key : j \in 1 .. (n + 1) - 1}
    <3>1. (n + 1) - 1 = n
      BY <1>1
    <3>2. \A j \in 1 .. n : all[j].key = conf.settings[j].key
      <4> SUFFICES ASSUME NEW j \in 1 .. n PROVE all[j].key = conf.settings[j].key
        OBVIOUS
      <4>1. all[j] = [kind |-> "set", key |-> conf.settings[j].key,
                      file |-> conf.settings[j].file]
        BY <1>3
      <4> QED
        BY <4>1
    <3>3. KeysOf(conf.settings) = {conf.settings[j].key : j \in 1 .. n}
      BY <1>1 DEF KeysOf
    <3>4. {conf.settings[j].key : j \in 1 .. n} = {all[j].key : j \in 1 .. n}
      BY <3>2
    <3> QED
      BY <3>1, <3>3, <3>4
  <2>5. Len(all) \in Nat /\ n \in Nat /\ n <= Len(all) /\ n # Len(all)
    BY <1>1, <1>2, <2>3
  <2> QED
    BY <1>3, <1>5, <2>1, <2>3, <2>4, <2>5 DEF Tells, all, n, t
<1>6. rest = << >> => r = "true"
  <2>1. ASSUME NEW x \in Piece, NEW y \in Seq(Piece) PROVE <<x>> \o y # << >>
    <3>1. Len(<<x>> \o y) = 1 + Len(y) /\ Len(y) \in Nat
      OBVIOUS
    <3>2. Len(<< >>) = 0
      OBVIOUS
    <3> QED
      BY <3>1, <3>2
  <2> QED
    BY <2>1 DEF Stops
<1> QED
  BY <1>4, <1>5, <1>6 DEF Stops

LEMMA EndTells ==
  ASSUME FInv, Whole, OfAFile, NEW r, NEW conf, Finish(r, conf),
         conf.settings = config.settings, conf \in ConfigType, Stops(r, conf, Rest)
  PROVE  Tells(Expanded(disk, opt.include_dir)[Depth][scan.frames[1].path], result', config')
<1>1. conf.settings \in Seq(SettingType) /\ Rest \in Seq(Piece)
  BY InFile
<1>2. Tells(Taken(conf.settings) \o Rest, r, conf)
  BY <1>1, TellsWhole
<1>3. Taken(conf.settings) \o Rest = Expanded(disk, opt.include_dir)[Depth][scan.frames[1].path]
  BY DEF Whole
<1>4. result' = r /\ config'.settings = conf.settings /\ config'.error = conf.error
  BY DEF Finish, ConfigType
<1> QED
  BY <1>2, <1>3, <1>4 DEF Tells

\* A failure at an item that cannot be taken
LEMMA FailTells ==
  ASSUME FInv, Whole, OfAFile, NEW kind, NextItem(kind), NEW text, Fail(text),
         text \in {"syntax error", "duplicate setting name",
                   "include file nesting too deep", "cannot open include file"},
         NEW x \in Piece,
         ItemInPlace(Item, Last(scan.frames).name, opt.include_dir,
                     Below(disk, opt.include_dir, Depth + 1 - Len(scan.frames))) = <<x>>,
         x.kind = "bad" \/ x.key \in KeysOf(config.settings),
         x.file = Last(scan.frames).name
  PROVE  Tells(Expanded(disk, opt.include_dir)[Depth][scan.frames[1].path], result', config')
<1> DEFINE top == Last(scan.frames)
           below == Below(disk, opt.include_dir, Depth + 1 - Len(scan.frames))
           err == [type |-> "parse", text |-> text, file |-> top.name]
           conf == [config EXCEPT !.error = err]
           c == InPlace(Tail(top.rest), top.name, opt.include_dir, below)
           p == Pending(disk, opt.include_dir, Front(scan.frames))
<1>1. Finish("false", conf)
  BY DEF Fail, CurrentName
<1>2. config \in ConfigType /\ top \in FrameType
  BY InFile DEF FInv, Typed
<1>3. err \in ErrorType /\ err.file = top.name
  BY <1>2 DEF ErrorType, FrameType
<1> HIDE DEF err
<1>4. conf \in ConfigType /\ conf.settings = config.settings /\ conf.error.file = top.name
  BY <1>2, <1>3 DEF ConfigType
<1>5. Rest = <<x>> \o (c \o p) /\ c \in Seq(Piece)
  BY ItemFirst
<1>6. c \o p \in Seq(Piece)
  <2>1. p \in Seq(Piece)
    BY InFile
  <2> HIDE DEF c, p
  <2> QED
    BY <1>5, <2>1, ConcatProperties
<1> HIDE DEF conf, c, p
<1>7. Stops("false", conf, Rest)
  BY <1>4, <1>5, <1>6 DEF Stops
<1> QED
  BY <1>1, <1>4, <1>7, EndTells

\* At the limit no include is allowed any more.
LEMMA NothingBelow ==
  ASSUME NEW j \in Nat, j - 1 = Depth PROVE ~ (Depth + 1 - j > 0)
  BY Parameters

LEMMA EndsTell ==
  ASSUME FInv, Whole, [Next]_vars, OfAFile, op' = "idle"
  PROVE  Tells(Expanded(disk, opt.include_dir)[Depth][scan.frames[1].path], result', config')
<1> DEFINE top == Last(scan.frames)
           dir == opt.include_dir
           m == Len(scan.frames)
           below == Below(disk, dir, Depth + 1 - m)
           bad == [kind |-> "bad", key |-> NoName, file |-> top.name]
           Goal == Tells(Expanded(disk, dir)[Depth][scan.frames[1].path], result', config')
<1>1. op = "reading" /\ top.name \in Names \cup {NoName} /\ m \in Nat
  BY InFile DEF OfAFile, FrameType
<1>2. bad \in Piece /\ bad.kind = "bad" /\ bad.file = top.name
  BY <1>1 DEF Piece
<1>3. ASSUME Duplicate PROVE Goal
  <2> DEFINE x == [kind |-> "set", key |-> Item.key, file |-> top.name]
  <2>1. NextItem("set") /\ Item.key \in KeysOf(config.settings) /\ Fail("duplicate setting name")
    BY <1>3 DEF Duplicate
  <2>2. Item \in Items /\ Item.kind = "set"
    BY <2>1, ItemFirst
  <2>3. Item.key \in Keys
    BY <2>2 DEF Items
  <2>4. x \in Piece /\ x.key = Item.key /\ x.file = top.name
    BY <1>1, <2>3 DEF Piece
  <2>5. ItemInPlace(Item, top.name, dir, below) = <<x>>
    BY <2>2 DEF ItemInPlace
  <2> HIDE DEF x
  <2> QED
    BY <2>1, <2>4, <2>5, FailTells
<1>4. ASSUME SyntaxError PROVE Goal
  <2>1. NextItem("bad") /\ Fail("syntax error")
    BY <1>4 DEF SyntaxError
  <2>2. Item.kind = "bad"
    BY <2>1, ItemFirst
  <2>3. ItemInPlace(Item, top.name, dir, below) = <<bad>>
    BY <2>2 DEF ItemInPlace
  <2> HIDE DEF bad
  <2> QED
    BY <1>2, <2>1, <2>3, FailTells
<1>5. ASSUME FailInclude PROVE Goal
  <2>1. NextItem("include")
    BY <1>5 DEF FailInclude
  <2>2. PICK text \in {"include file nesting too deep", "cannot open include file"} :
          /\ Fail(text)
          /\ m - 1 = Depth \/ disk[IncludedPath].kind = "missing"
    BY <1>5 DEF FailInclude, IncludeDepth
  <2>3. Item.kind = "include"
    BY <2>1, ItemFirst
  <2>4. IncludedPath \notin Openable(disk, Depth + 1 - m)
    <3>1. CASE m - 1 = Depth
      <4>1. ~ (Depth + 1 - m > 0)
        <5>1. m \in Nat
          BY <1>1
        <5>2. m - 1 = Depth
          BY <3>1
        <5> HIDE DEF m
        <5> QED
          BY ONLY <5>1, <5>2, NothingBelow
      <4> QED
        BY <4>1 DEF Openable
    <3>2. CASE disk[IncludedPath].kind = "missing"
      BY <3>2 DEF Openable
    <3> QED
      BY <2>2, <3>1, <3>2
  <2>5. <<dir, Item.name>> \notin DOMAIN below
    BY <2>4 DEF Below, IncludedPath
  <2>6. ItemInPlace(Item, top.name, dir, below) = <<bad>>
    <3> HIDE DEF below, dir, top
    <3> QED
      BY <2>3, <2>5 DEF ItemInPlace
  <2> HIDE DEF bad
  <2> QED
    BY <1>2, <2>1, <2>2, <2>6, FailTells
<1>6. ASSUME EndOfText PROVE Goal
  <2>1. /\ top.loaded /\ top.rest = << >> /\ m - 1 = 0 /\ Finish("true", config)
    BY <1>6 DEF EndOfText, AtEnd, IncludeDepth
  <2>2. Rest = Stands(disk, dir, top, Depth + 1 - m) \o Pending(disk, dir, Front(scan.frames))
    BY InFile
  <2>3. Stands(disk, dir, top, Depth + 1 - m) = << >>
    BY <2>1, InPlaceEmpty DEF Stands, Left
  <2>4. Front(scan.frames) = << >>
    <3>1. scan.frames \in Seq(FrameType) /\ scan.frames # << >>
      BY InFile DEF Nested
    <3> DEFINE front == Front(scan.frames)
    <3>2. front \in Seq(FrameType) /\ Len(front) = 0
      BY <1>1, <2>1, <3>1, FrontOf
    <3> HIDE DEF front
    <3>3. front = << >>
      BY <3>2, EmptySeq
    <3> QED
      BY <3>3 DEF front
  <2>5. Pending(disk, dir, Front(scan.frames)) = << >>
    BY <2>4, PendingNothing
  <2>6. Rest = << >>
    BY <2>2, <2>3, <2>5
  <2>7. Stops("true", config, Rest)
    BY <2>6 DEF Stops
  <2>8. config \in ConfigType
    BY DEF FInv, Typed
  <2> QED
    BY <2>1, <2>7, <2>8, EndTells
<1>7. Duplicate \/ SyntaxError \/ FailInclude \/ EndOfText
  <2>1. ~ Application
    BY <1>1 DEF Application, ReadFile, ReadText, WriteFile, SetIncludeDir, SetOptions, Call
  <2>2. ~ UNCHANGED vars
    BY <1>1 DEF vars
  <2>3. Library
    BY <2>1, <2>2 DEF Next, Done
  <2> QED
    BY <1>1, <2>3 DEF Library, Fill, Set, Include, PopInclude, FlushAndClose
<1> QED
  BY <1>3, <1>4, <1>5, <1>6, <1>7

\* A read takes what the file and all it includes hold, in the order of one file with the
\* includes written out, up to the first error, whatever the files hold, however they
\* include each other and however deep; and it blames the file that error is in
\* (libconfig_yylex and libconfig_yyparse over scanctx_push_include and _pop_include).
THEOREM ReadsAreWhole == Spec => ReadsWhatItIncludes
<1>1. Init => Whole
  BY DEF Init, Whole, OfAFile
<1>2. FInv /\ Whole /\ [Next]_vars => Whole'
  BY NextWhole
<1>3. FInv /\ Whole /\ [Next]_vars =>
        [op = "reading" /\ op' = "idle" /\ scan.frames[1].name # NoName =>
           LET all == Expanded(disk, opt.include_dir)[Depth][scan.frames[1].path]
               n == Len(config'.settings)
               seen(i) == {all[j].key : j \in 1 .. i - 1}
           IN /\ n <= Len(all)
              /\ \A i \in 1 .. n :
                   all[i] = [kind |-> "set", key |-> config'.settings[i].key,
                             file |-> config'.settings[i].file]
              /\ result' = "true" <=> n = Len(all)
              /\ result' = "false" =>
                   /\ all[n + 1].kind = "bad" \/ all[n + 1].key \in seen(n + 1)
                   /\ config'.error.file = all[n + 1].file]_vars
  BY EndsTell DEF Tells, OfAFile
<1> QED
  BY <1>1, <1>2, <1>3, FInvHolds, PTL DEF Spec, ReadsWhatItIncludes

------------------------------------------------------------------------------
(* The locale of a call.                                                   *)

\* A locale object is allocated if and only if a thread owns it or has it installed for a
\* call, there is one such thread, and the one of a call holds the "C" locale.
LocInv ==
  /\ global \in L!Locales /\ content \in [Objects -> L!Locales \cup {None}]
  /\ installed \in [Threads -> Objects \cup {Global}]
  /\ own \in [Threads -> Objects \cup {None}] /\ busy \in [Threads -> BOOLEAN]
  /\ \A t \in Threads :
       /\ own[t] # None => content[own[t]] # None
       /\ busy[t] => installed[t] \in Objects /\ content[installed[t]] = L!CLocale
       /\ ~ busy[t] => installed[t] \in {own[t], Global}
  /\ \A t, u \in Threads :
       /\ own[t] # None /\ own[t] = own[u] => t = u
       /\ busy[t] => installed[t] # own[u]
       /\ busy[t] /\ busy[u] /\ installed[t] = installed[u] => t = u
  /\ \A o \in Objects : content[o] # None =>
       \E t \in Threads : own[t] = o \/ (busy[t] /\ installed[t] = o)

LEMMA LocInit == L!LocaleAssumption /\ L!Init => LocInv
  BY DEF L!LocaleAssumption, L!Init, LocInv, L!Locales, L!CLocale

LEMMA LocNext ==
  ASSUME L!LocaleAssumption, LocInv, [L!Next]_L!vars
  PROVE  LocInv'
<1> USE DEF LocInv
<1>1. Global \notin Objects /\ None \notin Objects /\ None # Global /\ None \notin L!Locales
      /\ L!CLocale \in L!Locales
  BY DEF L!LocaleAssumption, L!Locales, L!CLocale
<1>2. ASSUME NEW t \in Threads, L!Override(t) PROVE LocInv'
  <2>1. PICK o \in Objects : content[o] = None /\ content' = [content EXCEPT ![o] = L!CLocale]
                             /\ installed' = [installed EXCEPT ![t] = o]
    BY <1>2 DEF L!Override, L!Free
  <2>2. /\ ~ busy[t] /\ busy' = [busy EXCEPT ![t] = TRUE] /\ own' = own /\ global' = global
    BY <1>2 DEF L!Override, L!Begin
  <2>3. /\ \A u \in Threads : own[u] # o /\ (busy[u] => installed[u] # o)
    BY <1>1, <2>1
  <2> QED
    BY <1>1, <2>1, <2>2, <2>3
<1>3. ASSUME NEW t \in Threads, L!Restore(t) PROVE LocInv'
  <2>1. /\ busy[t] /\ busy' = [busy EXCEPT ![t] = FALSE] /\ own' = own /\ global' = global
        /\ installed' = [installed EXCEPT ![t] = Global]
        /\ content' = [content EXCEPT ![installed[t]] = None]
    BY <1>3 DEF L!Restore
  <2>2. /\ installed[t] \in Objects /\ \A u \in Threads : own[u] # installed[t]
        /\ \A u \in Threads : busy[u] /\ u # t => installed[u] # installed[t]
    BY <1>1, <2>1
  <2> QED
    BY <1>1, <2>1, <2>2
<1>4. ASSUME NEW t \in Threads, L!FreeOwn(t) PROVE LocInv'
  <2>1. /\ ~ busy[t] /\ own[t] # None /\ installed[t] # own[t] /\ busy' = busy
        /\ content' = [content EXCEPT ![own[t]] = None] /\ own' = [own EXCEPT ![t] = None]
        /\ global' = global /\ installed' = installed
    BY <1>4 DEF L!FreeOwn
  <2>2. own[t] \in Objects /\ installed[t] = Global
    BY <1>1, <2>1
  <2> QED
    BY <1>1, <2>1, <2>2
<1>5. ASSUME NEW t \in Threads, NEW locale \in L!Locales, L!SetGlobal(t, locale) PROVE LocInv'
  BY <1>5 DEF L!SetGlobal
<1>6. ASSUME NEW t \in Threads, NEW locale \in L!Locales, L!MakeOwn(t, locale) PROVE LocInv'
  <2>1. PICK o \in Objects : content[o] = None /\ content' = [content EXCEPT ![o] = locale]
                             /\ own' = [own EXCEPT ![t] = o]
    BY <1>6 DEF L!MakeOwn, L!Free
  <2>2. ~ busy[t] /\ own[t] = None /\ global' = global /\ installed' = installed /\ busy' = busy
    BY <1>6 DEF L!MakeOwn
  <2>3. \A u \in Threads : own[u] # o /\ installed[u] # o
    BY <1>1, <2>1
  <2>4. installed[t] = Global
    BY <1>1, <2>2
  <2> QED
    BY <1>1, <2>1, <2>2, <2>3, <2>4
<1>7. ASSUME NEW t \in Threads, NEW o \in Objects \cup {Global}, L!Use(t, o) PROVE LocInv'
  BY <1>1, <1>7 DEF L!Use
<1>8. CASE UNCHANGED L!vars
  BY <1>8 DEF L!vars
<1> QED
  BY <1>2, <1>3, <1>4, <1>5, <1>6, <1>7, <1>8 DEF L!Next

\* A call converts with a point, and no locale object is lost or freed in use: for every
\* number of threads and objects (libconfig.c, __config_locale_override and _restore).
THEOREM LocalesAreTheCalls == HalfSpec => []LocaleOfTheCall
<1> DEFINE Inv == half = "locales" => LocInv
<1>1. HalfInit => Inv
  BY LocalesAssumption, LocInit DEF HalfInit
<1>2. Inv /\ [HalfNext]_<<half, vars, locales>> => Inv'
  <2>1. half' = "locales" /\ [HalfNext]_<<half, vars, locales>>
          => half = "locales" /\ [L!Next]_L!vars
    BY DEF HalfNext, locales, L!vars
  <2> QED
    BY <2>1, LocalesAssumption, LocNext
<1>3. LocInv => L!LocaleOfTheCall
  <2> SUFFICES ASSUME LocInv PROVE L!LocaleOfTheCall
    OBVIOUS
  <2> USE DEF LocInv
  <2>1. L!PointIsRadix
    BY LocalesAssumption DEF L!LocaleAssumption, L!PointIsRadix, L!In, L!CLocale
  <2>2. ASSUME NEW t \in Threads, installed[t] # Global PROVE content[installed[t]] # None
    BY <2>2, LocalesAssumption DEF L!LocaleAssumption, L!Locales, L!CLocale
  <2>3. ASSUME NEW o \in Objects \ L!Free PROVE \E t \in Threads : L!Holders(o) = {t}
    <3>1. PICK t \in Threads : own[t] = o \/ (busy[t] /\ installed[t] = o)
      BY DEF L!Free
    <3>2. o # None
      BY LocalesAssumption DEF L!LocaleAssumption
    <3> QED
      BY <3>1, <3>2 DEF L!Holders
  <2> QED
    BY <2>1, <2>2, <2>3 DEF L!LocaleOfTheCall, L!ObjectsAccounted
<1>4. Inv => LocaleOfTheCall
  BY <1>3 DEF LocaleOfTheCall
<1> QED
  BY <1>1, <1>2, <1>4, PTL DEF HalfSpec
==============================================================================
