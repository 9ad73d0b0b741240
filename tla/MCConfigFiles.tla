--------------------------- MODULE MCConfigFiles ---------------------------
(***************************************************************************)
(* File systems and texts for ConfigFiles: a file that includes another,   *)
(* relative to the working directory or to an include directory, one that  *)
(* includes itself, one included twice, one that is missing, one that is a *)
(* directory.  Or else, in behaviours of their own, two threads that call  *)
(* the library and change their locales (ThreadLocale), with an object for *)
(* each of them and each of their calls.                                   *)
(***************************************************************************)
EXTENDS FilesAndLocales, TLC

CONSTANTS main, part, etc, k1, k2, t1, t2, o1, o2, o3, o4

set(k) == [kind |-> "set", key |-> k]
inc(n) == [kind |-> "include", name |-> n]
bad == [kind |-> "bad"]

(* What main, part in the working directory and part below etc hold.       *)
DiskOf(m, p, q) ==
  (<<NoDir, main>> :> m) @@ (<<NoDir, part>> :> p) @@ (<<etc, part>> :> q)
    @@ (<<etc, main>> :> Missing)

MCTexts == {<<set(k1)>>, <<inc(part), set(k2)>>}

MCDisks ==
  { DiskOf(File(<<set(k1), inc(part), set(k2)>>), p, q) :
      p \in {Missing, File(<<>>), File(<<set(k1)>>)},
      q \in {Directory, File(<<bad>>)} }
  \cup
  { DiskOf(File(m), File(<<set(k1), inc(part)>>), File(<<inc(main)>>)) :
      m \in {<<inc(part)>>, <<set(k2)>>} }
  \cup
  { DiskOf(File(<<inc(part), inc(part), set(k1)>>), File(<<>>),
           File(<<inc(part)>>)),
    DiskOf(Directory, File(<<set(k2)>>), Missing) }

SomeThreads == {t1, t2}
SomeObjects == {o1, o2, o3, o4}
Alike == Permutations(SomeThreads) \cup Permutations(SomeObjects)
==============================================================================
