------------------------------ MODULE Settings ------------------------------
(***************************************************************************)
(* The settings of a configuration as libconfig.c keeps them: structures   *)
(* on the heap that point at their parent and, where they are groups,      *)
(* arrays or lists, at a vector of their children.  The vector grows by    *)
(* Chunk elements at a time and is never told how long it is.  Values are  *)
(* left to Scalars; a setting here has a type, or none yet.                *)
(***************************************************************************)
EXTENDS Naturals, Sequences, SequencesExt, FiniteSets

CONSTANTS
  Nodes,        \* addresses
  Root,
  Names,        \* names __config_validate_name accepts
  Paths,        \* what callers pass for the name of a member
  Member,       \* Member[p]: the name p begins with, up to a character of PATH_TOKENS
  Scalars,      \* scalar types
  Hooks, Nil,
  Chunk,        \* CHUNK_SIZE
  AddToArrays   \* callers add elements to arrays with config_setting_add

Aggregates == {"GROUP", "ARRAY", "LIST"}
Types == Aggregates \cup Scalars \cup {"NONE"}

ASSUME NodesAssumption ==
  /\ Root \in Nodes /\ Nil \notin Nodes \cup Names \cup Hooks
  /\ Names \subseteq Paths /\ Member \in [Paths -> Names]
  /\ \A n \in Names : Member[n] = n
  /\ Scalars \cap (Aggregates \cup {"NONE"}) = {}

ASSUME ChunkAssumption == Chunk \in Nat \ {0}

ASSUME AddAssumption == AddToArrays \in BOOLEAN

VARIABLES
  heap,         \* [live addresses -> setting]
  destructor,   \* config->destructor is set
  disposed      \* hooks the destructor was called for

vars == <<heap, destructor, disposed>>

Live == DOMAIN heap

Setting(name, type, parent) ==
  [name |-> name, type |-> type, parent |-> parent, elems |-> << >>, cap |-> 0,
   hook |-> Nil]

Init ==
  /\ heap = [n \in {Root} |-> Setting(Nil, "GROUP", Nil)]
  /\ destructor \in BOOLEAN
  /\ disposed = {}

\* Mutant: realloc when the vector was full before this element was added.
GrowLate(s, n) ==
  [s EXCEPT !.cap = IF Len(s.elems) % Chunk = 1 /\ Len(s.elems) > 1
                      THEN Len(s.elems) + Chunk
                      ELSE IF s.cap = 0 THEN Chunk ELSE @,
            !.elems = Append(@, n)]

\* __config_list_add: realloc where the length is a multiple of the chunk, which
\* after removals may shrink the vector.
ListAdd(s, n) ==
  [s EXCEPT !.cap = IF Len(s.elems) % Chunk = 0 THEN Len(s.elems) + Chunk ELSE @,
            !.elems = Append(@, n)]

\* Mutant: no check for a member of that name.
MemberNever(p, path) == {}

\* config_setting_get_member by way of __config_list_search
MemberOf(p, path) ==
  {i \in DOMAIN heap[p].elems :
     heap[p].type = "GROUP" /\ heap[heap[p].elems[i]].name = Member[path]}

\* config_setting_index, counted from 1
IndexOf(h, n) == CHOOSE i \in DOMAIN h[h[n].parent].elems : h[h[n].parent].elems[i] = n

\* n is new, of this name and type, and the last element of p.
Created(p, n, name, type) ==
  [m \in Live \cup {n} |-> IF m = n THEN Setting(name, type, p)
                          ELSE IF m = p THEN ListAdd(heap[p], n)
                          ELSE heap[m]]

Create(p, name, type) == \E n \in Nodes \ Live : heap' = Created(p, n, name, type)

\* config_setting_add; elements of arrays and lists get no name, and callers pass one for
\* a member of a group, as libconfig.texi:971 asks them to.
Add(p, name, type) ==
  /\ heap[p].type \in Aggregates
  /\ heap[p].type = "ARRAY" => AddToArrays
  /\ MemberOf(p, name) = {}
  /\ Create(p, IF heap[p].type = "GROUP" THEN name ELSE Nil, type)
  /\ UNCHANGED <<destructor, disposed>>

\* __config_vector_checktype: the first element decides.
Checktype(v, type) ==
  heap[v].elems # << >> /\ heap[v].type # "LIST" => heap[heap[v].elems[1]].type = type

\* config_setting_set_*_elem with a negative index
AppendElem(v, type) ==
  /\ heap[v].type \in {"ARRAY", "LIST"}
  /\ Checktype(v, type)
  /\ Create(v, Nil, type)
  /\ UNCHANGED <<destructor, disposed>>

\* config_setting_set_* and, with an index, config_setting_set_*_elem: the first
\* value of a setting decides its type.
SetValue(n, type) ==
  /\ heap[n].type = "NONE"
  /\ heap' = [heap EXCEPT ![n].type = type]
  /\ UNCHANGED <<destructor, disposed>>

\* Mutant: the vector goes, the settings it points at stay.
SubtreeAlone(n) == {n}

Closed(set) == \A m \in set : ToSet(heap[m].elems) \subseteq set

\* __config_setting_destroy and __config_list_destroy: a setting and all below it
Subtree(n) ==
  {m \in Live : \A set \in SUBSET Live : n \in set /\ Closed(set) => m \in set}

\* The members of dead are freed, and the destructor called for their hooks.
Destroy(dead, rest) ==
  /\ heap' = [m \in Live \ dead |-> rest[m]]
  /\ disposed' = IF destructor
                   THEN disposed \cup ({heap[m].hook : m \in dead} \ {Nil})
                   ELSE disposed
  /\ UNCHANGED destructor

\* Mutant: the last element takes the place of the one removed.
ListRemoveSwap(p, i) ==
  [heap EXCEPT ![p].elems = Front([@ EXCEPT ![i] = Last(heap[p].elems)])]

\* __config_list_remove: memmove, and the vector keeps its size.
ListRemove(p, i) == [heap EXCEPT ![p].elems = RemoveAt(@, i)]

RemoveElem(p, i) ==
  /\ heap[p].type \in Aggregates
  /\ i \in DOMAIN heap[p].elems
  /\ Destroy(Subtree(heap[p].elems[i]), ListRemove(p, i))

RemoveMember(p, path) == \E i \in MemberOf(p, path) : RemoveElem(p, i)

SetHook(n, h) ==
  /\ heap' = [heap EXCEPT ![n].hook = h]
  /\ UNCHANGED <<destructor, disposed>>

SetDestructor ==
  /\ destructor' = TRUE
  /\ UNCHANGED <<heap, disposed>>

\* Mutant: the root is emptied and kept.
ReinitialiseKeepsRoot ==
  /\ heap' = [n \in {Root} |-> [heap[Root] EXCEPT !.elems = << >>, !.cap = 0]]
  /\ disposed' = IF destructor
                   THEN disposed \cup ({heap[m].hook : m \in Live} \ {Nil})
                   ELSE disposed
  /\ UNCHANGED destructor

\* config_destroy and config_init, as at the start of __config_read
Reinitialise ==
  /\ heap' = [n \in {Root} |-> Setting(Nil, "GROUP", Nil)]
  /\ disposed' = IF destructor
                   THEN disposed \cup ({heap[m].hook : m \in Live} \ {Nil})
                   ELSE disposed
  /\ UNCHANGED destructor

\* A hook is attached once: it is the caller's object.
Unused(h) == h \notin disposed /\ \A n \in Live : heap[n].hook # h

Next ==
  \/ \E p \in Live :
       \/ \E name \in Names, type \in Types : Add(p, name, type)
       \/ \E type \in Scalars : AppendElem(p, type) \/ SetValue(p, type)
       \/ \E path \in Paths : RemoveMember(p, path)
       \/ \E i \in DOMAIN heap[p].elems : RemoveElem(p, i)
       \/ \E h \in Hooks : Unused(h) /\ SetHook(p, h)
  \/ SetDestructor
  \/ Reinitialise

Spec == Init /\ [][Next]_vars
-----------------------------------------------------------------------------
(* Properties.                                                             *)

TypeOK ==
  /\ Root \in Live /\ Live \subseteq Nodes
  /\ \A n \in Live :
       /\ heap[n].name \in Names \cup {Nil}
       /\ heap[n].type \in Types
       /\ heap[n].parent \in Live \cup {Nil}
       /\ heap[n].elems \in Seq(Live)
       /\ heap[n].cap \in Nat
       /\ heap[n].hook \in Hooks \cup {Nil}
  /\ destructor \in BOOLEAN
  /\ disposed \subseteq Hooks

\* Nothing records how long a vector is but its number of elements, so whatever
\* was added and removed, realloc must have made room for every element.
RoomForAll == \A n \in Live : Len(heap[n].elems) <= heap[n].cap

\* Every setting but the root is in its parent's vector, once, and in no other:
\* nothing is freed that is still pointed at, and nothing is lost.
Tree ==
  /\ heap[Root].parent = Nil
  /\ \A n \in Live : \A i \in DOMAIN heap[n].elems :
       heap[n].elems[i] \in Live /\ heap[heap[n].elems[i]].parent = n
  /\ \A n \in Live \ {Root} :
       /\ heap[n].parent \in Live
       /\ \E i \in DOMAIN heap[heap[n].parent].elems :
            \A j \in DOMAIN heap[heap[n].parent].elems :
              heap[heap[n].parent].elems[j] = n <=> j = i

\* A path leads to one setting: the members of a group have names, all different,
\* and other elements have none.
NamesUnique ==
  \A p \in Live : \A i, j \in DOMAIN heap[p].elems :
    LET name(k) == heap[heap[p].elems[k]].name IN
      /\ (name(i) # Nil) <=> (heap[p].type = "GROUP")
      /\ i # j /\ name(i) # Nil => name(i) # name(j)

\* The data a hook points at is disposed of once, and not while a setting has it.
HooksAlive == \A n \in Live : heap[n].hook \notin disposed

\* libconfig.texi:485, "the elements must all be scalar values of the same type":
\* of arrays, however they came by their elements.
Homogeneous ==
  \A a \in Live : heap[a].type = "ARRAY" =>
    \A i, j \in DOMAIN heap[a].elems :
      /\ heap[heap[a].elems[i]].type \in Scalars
      /\ heap[heap[a].elems[i]].type = heap[heap[a].elems[j]].type

\* The indices that lead from the root to each setting of a heap
PathsOf(h) ==
  LET path[n \in DOMAIN h] ==
        IF n = Root THEN << >> ELSE Append(path[h[n].parent], IndexOf(h, n))
  IN path

TreeOf(h) ==
  LET path == PathsOf(h)
  IN [p \in {path[n] : n \in DOMAIN h} |->
        LET n == CHOOSE m \in DOMAIN h : path[m] = p
        IN [name |-> h[n].name, type |-> h[n].type]]

\* The heap implements the tree of paths.
Abstract == INSTANCE ConfigTree WITH tree <- TreeOf(heap)

ImplementsTree == Abstract!Spec
=============================================================================
