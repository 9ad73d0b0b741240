------------------------------ MODULE IniFile ------------------------------
(***************************************************************************)
(* ReadIniArg of inifile.c: look a parameter up in a section of an ini     *)
(* file.  What fgets returns is a record: the section names that occur     *)
(* anywhere in the text, the text before the first '=' (NoKey where there  *)
(* is none) and the text after it.  A line longer than the buffer comes as *)
(* several of them.                                                        *)
(***************************************************************************)
EXTENDS Naturals, Sequences

CONSTANTS
  Lines,        \* what one fgets may return
  Sections,     \* the names that are asked for
  Keys,
  NoKey,
  Nothing,      \* no line, no value
  MaxLines      \* bound: lines of a file

LinesAssumption ==
  /\ \A l \in Lines : /\ l.names \subseteq Sections /\ l.header \in Sections \cup {Nothing}
                      /\ l.header # Nothing => l.header \in l.names
                      /\ l.key \in Keys \cup {NoKey}
  /\ NoKey \notin Keys /\ MaxLines \in Nat

VARIABLES
  text,         \* the file
  failAt,       \* reading the line of this number fails
  section, param,
  pc,           \* "open", "section", "param", "done"
  at,           \* lines read
  szTemp,       \* the buffer
  result        \* the value copied to szBuffer

vars == <<text, failAt, section, param, pc, at, szTemp, result>>
asked == <<text, failAt, section, param>>

NoLine == [names |-> {}, header |-> Nothing, key |-> NoKey, val |-> Nothing]

Init ==
  /\ \E n \in 0..MaxLines : text \in [1..n -> Lines]
  /\ failAt \in 1..(MaxLines + 1)
  /\ section \in Sections /\ param \in Keys
  /\ pc = "open" /\ at = 0 /\ szTemp = NoLine /\ result = Nothing

Fails == at + 1 = failAt
AtEnd == ~ Fails /\ at = Len(text)
CanRead == ~ Fails /\ at < Len(text)

Open ==
  /\ pc = "open"
  /\ pc' = "section" /\ szTemp' = NoLine
  /\ UNCHANGED <<asked, at, result>>

OpenFails ==
  /\ pc = "open"
  /\ pc' = "done"
  /\ UNCHANGED <<asked, at, szTemp, result>>

\* The first loop, up to a line in which strstr finds the section's name.
SkipToSection ==
  /\ pc = "section" /\ CanRead
  /\ szTemp' = text[at + 1] /\ at' = at + 1
  /\ pc' = IF section \in szTemp'.names THEN "param" ELSE "section"
  /\ UNCHANGED <<asked, result>>

\* End of file or an error: return 0.
NoSection ==
  /\ pc = "section" /\ ~ CanRead
  /\ pc' = "done"
  /\ UNCHANGED <<asked, at, szTemp, result>>

\* Mutant: the first line with an '=' will do.
ExamineAnyKey(l) ==
  /\ szTemp' = [l EXCEPT !.key = NoKey]
  /\ IF l.key # NoKey
       THEN pc' = "done" /\ result' = l.val
       ELSE UNCHANGED <<pc, result>>

\* The second loop's body after fgets, on whatever is in the buffer; the '=' is
\* overwritten, so a line that stays there has none the next time.
Examine(l) ==
  /\ szTemp' = [l EXCEPT !.key = NoKey]
  /\ IF l.key = param
       THEN pc' = "done" /\ result' = l.val
       ELSE UNCHANGED <<pc, result>>

FindParam ==
  /\ pc = "param" /\ CanRead
  /\ at' = at + 1
  /\ Examine(text[at + 1])
  /\ UNCHANGED asked

NoParam ==
  /\ pc = "param" /\ AtEnd
  /\ pc' = "done"
  /\ UNCHANGED <<asked, at, szTemp, result>>

\* fgets fails short of the end of the file: the old line is examined again.
FindParamError ==
  /\ pc = "param" /\ Fails
  /\ Examine(szTemp)
  /\ UNCHANGED <<asked, at>>

Next ==
  \/ Open \/ OpenFails
  \/ SkipToSection \/ NoSection
  \/ FindParam \/ NoParam \/ FindParamError

Spec == Init /\ [][Next]_vars
-----------------------------------------------------------------------------
(* Properties.                                                             *)

\* The first line that mentions the section, and the first after it that sets the
\* parameter: in whatever section that is, if the asked one does not set it.
Found(i, j) ==
  /\ i < j
  /\ section \in text[i].names
  /\ \A h \in 1..(i - 1) : section \notin text[h].names
  /\ text[j].key = param
  /\ \A h \in (i + 1)..(j - 1) : text[h].key # param

\* A value is returned only from there; even a line that is examined again after a
\* failed read gives none, unless it is the one that mentions the section.
ResultFromFile ==
  result # Nothing =>
    \/ \E i, j \in 1..Len(text) : Found(i, j) /\ result = text[j].val
    \/ \E i \in 1..Len(text) :
         /\ failAt = i + 1 /\ section \in text[i].names
         /\ text[i].key = param /\ result = text[i].val
=============================================================================
