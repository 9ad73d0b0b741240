------------------------------ MODULE CppWrapper ------------------------------
(***************************************************************************)
(* The C++ objects over the settings of Settings.  An object is made when  *)
(* a setting is first returned to the program, hangs on it as its hook,    *)
(* keeps its type, and is deleted by the destructor the configuration      *)
(* calls when the setting goes.  The program works on objects only.        *)
(***************************************************************************)
EXTENDS Settings, Functions

VARIABLES
  wrapper,      \* [objects that exist -> the setting and the type they keep]
  reading,      \* inside config_read
  crashed

wvars == <<vars, wrapper, reading, crashed>>

WInit ==
  /\ Init /\ destructor = TRUE
  /\ wrapper = << >>
  /\ reading = FALSE /\ crashed = FALSE

Calm == ~ reading /\ ~ crashed

\* What an object stands for, as the object knows it
SettingOf(w) == wrapper[w].setting
TypeOf(w) == wrapper[w].type

\* wrapSetting for each of some settings of the heap h: those that have no hook get
\* an object.
WrapIn(h, some) ==
  LET bare == {n \in some : h[n].hook = Nil} IN
    \E made \in Injection(bare, Hooks \ DOMAIN wrapper) :
      /\ heap' = [n \in DOMAIN h |->
                    IF n \in bare THEN [h[n] EXCEPT !.hook = made[n]] ELSE h[n]]
      /\ wrapper' = [w \in DOMAIN wrapper \cup Range(made) |->
                       IF w \in DOMAIN wrapper THEN wrapper[w]
                       ELSE LET n == CHOOSE m \in bare : made[m] = w
                            IN [setting |-> n, type |-> h[n].type]]

Wrap(some) == WrapIn(heap, some) /\ UNCHANGED <<destructor, disposed, reading, crashed>>

\* Config::lookup and Config::getRoot, by any path that leads to a setting
Find(n) == Calm /\ Wrap({n})

\* operator[]
Subscript(w, i) ==
  /\ Calm
  /\ TypeOf(w) \in Aggregates
  /\ i \in DOMAIN heap[SettingOf(w)].elems
  /\ Wrap({heap[SettingOf(w)].elems[i]})

\* The strdup of a path that is NULL
Crash == crashed' = TRUE /\ UNCHANGED <<vars, wrapper, reading>>

GetParent(w) ==
  /\ Calm
  /\ IF SettingOf(w) = Root THEN Crash ELSE Wrap({heap[SettingOf(w)].parent})

\* All above n: __constructPath goes from parent to parent.
Ancestors(n) ==
  LET upward(set) == \A m \in set : heap[m].parent # Nil => heap[m].parent \in set
  IN {m \in Live \ {n} : \A set \in SUBSET Live : n \in set /\ upward(set) => m \in set}

\* getPath, and every exception that tells the path of a setting: __constructPath
\* asks for each parent, and so makes their objects.
TellPath(w) == Calm /\ Wrap(Ancestors(SettingOf(w)))

\* add(name, type): config_setting_add finds a member of that name.
AddMember(w, name, type) ==
  /\ Calm
  /\ TypeOf(w) = "GROUP" /\ type # "NONE"
  /\ MemberOf(SettingOf(w), name) = {}
  /\ \E n \in Nodes \ Live :
       WrapIn(Created(SettingOf(w), n, name, type), {n})
  /\ UNCHANGED <<destructor, disposed, reading, crashed>>

\* Mutant: only the first element has to be a scalar.
TakesTypeFirst(w, type) ==
  LET elems == heap[SettingOf(w)].elems IN
    TypeOf(w) = "ARRAY" => elems # << >> \/ type \in Scalars

\* The type of a new element of an array is that of the first one.
TakesType(w, type) ==
  LET elems == heap[SettingOf(w)].elems IN
    TypeOf(w) = "ARRAY" => IF elems # << >> THEN type = heap[elems[1]].type ELSE type \in Scalars

\* The object of the first element of an array, which add(type) asks for its type
Asked(w) ==
  LET elems == heap[SettingOf(w)].elems IN
    IF TypeOf(w) = "ARRAY" /\ elems # << >> THEN {elems[1]} ELSE {}

\* add(type)
AddElement(w, type) ==
  /\ Calm
  /\ TypeOf(w) \in {"ARRAY", "LIST"}
  /\ IF TakesType(w, type)
       THEN \E n \in Nodes \ Live :
              WrapIn(Created(SettingOf(w), n, Nil, type), {n} \cup Asked(w))
       ELSE WrapIn(heap, Asked(w) \cup Ancestors(SettingOf(w)))
  /\ UNCHANGED <<destructor, disposed, reading, crashed>>

\* Mutant: config_set_destructor is forgotten.
DeletedNone(dead) == wrapper

\* ConfigDestructor
Deleted(dead) == [w \in {v \in DOMAIN wrapper : \A n \in dead : heap[n].hook # v} |-> wrapper[w]]

\* remove, by name or by index
RemoveChild(w, i) ==
  /\ Calm
  /\ TypeOf(w) \in Aggregates
  /\ i \in DOMAIN heap[SettingOf(w)].elems
  /\ RemoveElem(SettingOf(w), i)
  /\ wrapper' = Deleted(Subtree(heap[SettingOf(w)].elems[i]))
  /\ UNCHANGED <<reading, crashed>>

\* readFile, read and readString: what was there goes, ...
StartRead ==
  /\ Calm
  /\ Reinitialise
  /\ wrapper' = Deleted(Live)
  /\ reading' = TRUE
  /\ UNCHANGED crashed

\* ... and the parser adds settings, none of which the program has seen.  A member is
\* added before its value is read: one that has no type yet is where the read failed.
Parse(p, name, type) ==
  /\ reading
  /\ \/ heap[p].type = "GROUP" /\ Add(p, name, type)
     \/ heap[p].type = "ARRAY" /\ type \in Scalars
          /\ (heap[p].elems = << >> \/ Checktype(p, type)) /\ Create(p, Nil, type)
          /\ UNCHANGED <<destructor, disposed>>
     \/ heap[p].type = "LIST" /\ type # "NONE" /\ Create(p, Nil, type)
          /\ UNCHANGED <<destructor, disposed>>
  /\ reading' = (type # "NONE")
  /\ UNCHANGED <<wrapper, crashed>>

EndRead == reading /\ reading' = FALSE /\ UNCHANGED <<vars, wrapper, crashed>>

Stopped == crashed /\ UNCHANGED wvars

WNext ==
  \/ Stopped \/ StartRead \/ EndRead
  \/ \E n \in Live : Find(n)
  \/ \E w \in DOMAIN wrapper :
       \/ GetParent(w) \/ TellPath(w)
       \/ \E i \in DOMAIN heap[SettingOf(w)].elems : Subscript(w, i) \/ RemoveChild(w, i)
       \/ \E name \in Names, type \in Types : AddMember(w, name, type)
       \/ \E type \in Types : AddElement(w, type)
  \/ \E p \in Live, name \in Names, type \in Types : Parse(p, name, type)

WSpec == WInit /\ [][WNext]_wvars
-----------------------------------------------------------------------------
(* getPath and what Config::lookup makes of it.                            *)

\* Mutant: config_setting_index counts from 1.
SegmentFrom1(n) ==
  IF heap[n].name # Nil THEN [name |-> heap[n].name] ELSE [index |-> IndexOf(heap, n)]

\* A name, or an index in brackets, which counts from 0
Segment(n) ==
  IF heap[n].name # Nil THEN [name |-> heap[n].name] ELSE [index |-> IndexOf(heap, n) - 1]

\* __constructPath
PathOf(n) ==
  LET path[m \in Live] ==
        IF m = Root THEN << >> ELSE Append(path[heap[m].parent], Segment(m))
  IN path[n]

Step(n, s) ==
  CASE n = Nil -> Nil
    [] n # Nil /\ "name" \in DOMAIN s ->
         IF MemberOf(n, s.name) = {} THEN Nil
         ELSE heap[n].elems[CHOOSE i \in MemberOf(n, s.name) : TRUE]
    [] n # Nil /\ "index" \in DOMAIN s ->
         IF heap[n].type \in Aggregates /\ s.index + 1 \in DOMAIN heap[n].elems
           THEN heap[n].elems[s.index + 1] ELSE Nil

\* config_lookup, segment by segment
LookedUp(path) ==
  LET at[k \in 0..Len(path)] == IF k = 0 THEN Root ELSE Step(at[k - 1], path[k])
  IN at[Len(path)]
-----------------------------------------------------------------------------
(* Properties.                                                             *)

WTypeOK ==
  /\ TypeOK
  /\ DOMAIN wrapper \subseteq Hooks
  /\ \A w \in DOMAIN wrapper : SettingOf(w) \in Nodes /\ TypeOf(w) \in Types
  /\ reading \in BOOLEAN /\ crashed \in BOOLEAN

\* An object stands for a setting that exists, has its type, and points back at it;
\* and every hook is an object that exists: whatever was removed or read, no object
\* leaks and none is used after it was deleted.
WrappersMatch ==
  /\ \A w \in DOMAIN wrapper :
       /\ SettingOf(w) \in Live
       /\ heap[SettingOf(w)].hook = w /\ heap[SettingOf(w)].type = TypeOf(w)
  /\ \A n \in Live : heap[n].hook \in DOMAIN wrapper \cup {Nil}

\* The path a setting tells leads lookup back to it.
PathsLeadBack == \A n \in Live : LookedUp(PathOf(n)) = n
=============================================================================
