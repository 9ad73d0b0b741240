----------------------------- MODULE ThreadLocale -----------------------------
(***************************************************************************)
(* Numbers in a configuration are written with a point, and the C library  *)
(* converts them with the radix of the calling thread's locale.  So every  *)
(* read and write of libconfig.c installs a locale of its own for the      *)
(* thread and takes it away at the end, while other threads go on changing *)
(* theirs and the one of the whole process.                                *)
(***************************************************************************)

CONSTANTS
  Threads,
  Objects,      \* the locale_t values newlocale may return
  Global,       \* LC_GLOBAL_LOCALE
  None

\* The category LC_NUMERIC, and all the others
Locales == [numeric: {"C", "native"}, others: {"C", "native"}]

LocaleAssumption == Global \notin Objects /\ None \notin Objects \cup Locales \cup {Global}

CLocale == [numeric |-> "C", others |-> "C"]

VARIABLES
  global,       \* what setlocale has set for the process
  content,      \* of each locale object; None while it is not allocated
  installed,    \* what uselocale has installed for each thread
  own,          \* the locale object the program has made for a thread
  busy          \* the thread is inside __config_read or config_write

vars == <<global, content, installed, own, busy>>

In(t) == IF installed[t] = Global THEN global ELSE content[installed[t]]

Init ==
  /\ global = CLocale
  /\ content = [o \in Objects |-> None]
  /\ installed = [t \in Threads |-> Global]
  /\ own = [t \in Threads |-> None]
  /\ busy = [t \in Threads |-> FALSE]

Free == {o \in Objects : content[o] = None}
-----------------------------------------------------------------------------
(* The program, between its calls.                                         *)

SetGlobal(t, locale) ==
  /\ ~ busy[t]
  /\ global' = locale
  /\ UNCHANGED <<content, installed, own, busy>>

MakeOwn(t, locale) ==
  /\ ~ busy[t] /\ own[t] = None
  /\ \E o \in Free :
       /\ content' = [content EXCEPT ![o] = locale]
       /\ own' = [own EXCEPT ![t] = o]
  /\ UNCHANGED <<global, installed, busy>>

Use(t, o) ==
  /\ ~ busy[t] /\ o \in {own[t], Global} \ {None}
  /\ installed' = [installed EXCEPT ![t] = o]
  /\ UNCHANGED <<global, content, own, busy>>

FreeOwn(t) ==
  /\ ~ busy[t] /\ own[t] # None /\ installed[t] # own[t]
  /\ content' = [content EXCEPT ![own[t]] = None]
  /\ own' = [own EXCEPT ![t] = None]
  /\ UNCHANGED <<global, installed, busy>>
-----------------------------------------------------------------------------
(* The library.                                                            *)

Begin(t) ==
  /\ ~ busy[t]
  /\ busy' = [busy EXCEPT ![t] = TRUE]
  /\ UNCHANGED own

\* Mutant: the locale of the process is changed instead.
OverrideGlobal(t) ==
  /\ Begin(t)
  /\ \E o \in Free :
       /\ content' = [content EXCEPT ![o] = CLocale]
       /\ installed' = [installed EXCEPT ![t] = Global]
  /\ global' = [global EXCEPT !.numeric = "C"]

\* __config_locale_override: newlocale is given no base, so the categories it is not
\* asked for are those of the "C" locale as well.
Override(t) ==
  /\ Begin(t)
  /\ \E o \in Free :
       /\ content' = [content EXCEPT ![o] = CLocale]
       /\ installed' = [installed EXCEPT ![t] = o]
  /\ UNCHANGED global

\* Mutant: the locale object is not freed.
RestoreKeeping(t) ==
  /\ busy[t]
  /\ busy' = [busy EXCEPT ![t] = FALSE]
  /\ installed' = [installed EXCEPT ![t] = Global]
  /\ UNCHANGED <<global, content, own>>

\* __config_locale_restore: uselocale returns what it replaces, and that is freed.
Restore(t) ==
  /\ busy[t]
  /\ busy' = [busy EXCEPT ![t] = FALSE]
  /\ installed' = [installed EXCEPT ![t] = Global]
  /\ content' = [content EXCEPT ![installed[t]] = None]
  /\ UNCHANGED <<global, own>>

Next ==
  \E t \in Threads :
    \/ Override(t) \/ Restore(t) \/ FreeOwn(t)
    \/ \E locale \in Locales : SetGlobal(t, locale) \/ MakeOwn(t, locale)
    \/ \E o \in Objects \cup {Global} : Use(t, o)

Spec == Init /\ [][Next]_vars
-----------------------------------------------------------------------------
(* Properties.                                                             *)

\* While a configuration is read or written, numbers are converted with a point,
\* whatever other threads do to the locale of the process or their own meanwhile.
PointIsRadix == \A t \in Threads : busy[t] => In(t).numeric = "C"

Holders(o) == {t \in Threads : own[t] = o \/ (busy[t] /\ installed[t] = o)}

\* The library frees what it makes and nothing else: no thread has a locale installed
\* that was freed, and what is allocated is one thread's own or in use by its call.
ObjectsAccounted ==
  /\ \A t \in Threads : installed[t] # Global => content[installed[t]] # None
  /\ \A o \in Objects \ Free : \E t \in Threads : Holders(o) = {t}

\* Both.
LocaleOfTheCall == PointIsRadix /\ ObjectsAccounted
=============================================================================
