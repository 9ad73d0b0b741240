------------------------------ MODULE MCDaemon ------------------------------
(***************************************************************************)
(* Contents, configurations and ini files for Daemon.                      *)
(***************************************************************************)
EXTENDS Daemon, TLC

\* "a", "b", the mixture and the empty file are hashed to digests of which "x" and "z"
\* start alike; so are the digests themselves.
SmallDigest == ("a" :> "x") @@ ("b" :> "y") @@ ("mixed" :> "z") @@ ("empty" :> "z")
               @@ ("x" :> "y") @@ ("y" :> "x") @@ ("z" :> "y")

SmallContents == DOMAIN SmallDigest

SmallFirst == [c \in SmallContents |-> IF c = "z" THEN "x" ELSE c]

Folder(p, f, s) == [path |-> p, file |-> f, script |-> s]

FolderLists ==
  {<<>>,
   <<Folder("/a", "f", "s")>>,
   <<Folder("a", "f", "-"), Folder("-", "g", "s")>>,
   <<Folder("/a", "f", "s"), Folder("b", "-", "-"), Folder("-", "g", "t")>>}

SmallConfigs ==
  {[readable |-> r, daemon |-> d, folders |-> l] :
     r \in BOOLEAN, d \in 0..2, l \in FolderLists}

\* The name of section "file_1" is part of "file_10".
Line(h, ns, k, v) == [header |-> h, names |-> ns, key |-> k, val |-> v]

SomeLines ==
  { Line("file_1", {"file_1"}, NoKey, Nothing),
    Line("file_10", {"file_1", "file_10"}, NoKey, Nothing),
    Line(Nothing, {}, NoKey, Nothing),
    Line(Nothing, {}, "filename", "a"),
    Line(Nothing, {"file_1"}, "filename", "file_1"),
    Line(Nothing, {}, "script", "b") }
=============================================================================
