------------------------------ MODULE MCValues ------------------------------
(***************************************************************************)
(* Reading values for TLC: in a behaviour, either one scalar setting is    *)
(* set, converted, cast and looked up (CppValues), or a path is looked up  *)
(* (Lookup) in the configuration                                           *)
(*   a = ( { b = 1L; }, 0.5 ); ab = 1; b : { a = [ ]; b = true; };         *)
(***************************************************************************)
EXTENDS CppValues, Lookup, TLC

VARIABLE part

SomeChars == {"a", "b", ".", "[", "]", "0", "1"}
SomeLetters == {"a", "b"}
SomeDigits == {"0", "1"}
ValueOf == "0" :> 0 @@ "1" :> 1

SomeNodes == {"root", "a", "a0", "a0b", "a1", "ab", "b", "ba", "bb"}
TypeOf == "root" :> "GROUP" @@ "a" :> "LIST" @@ "a0" :> "GROUP" @@ "a0b" :> "INT64"
          @@ "a1" :> "FLOAT" @@ "ab" :> "INT" @@ "b" :> "GROUP" @@ "ba" :> "ARRAY"
          @@ "bb" :> "BOOL"
NameOf == [n \in SomeNodes |->
  CASE n \in {"a", "ba"} -> <<"a">> [] n \in {"b", "a0b", "bb"} -> <<"b">>
    [] n = "ab" -> <<"a", "b">> [] OTHER -> << >>]
Children == [n \in SomeNodes |->
  CASE n = "root" -> <<"a", "ab", "b">> [] n = "a" -> <<"a0", "a1">>
    [] n = "a0" -> <<"a0b">> [] n = "b" -> <<"ba", "bb">> [] OTHER -> << >>]

MCInit ==
  \/ /\ part = "value" /\ CInit
     /\ path = << >> /\ wanted = Null /\ convert = FALSE /\ pc = "none" /\ p = 0
     /\ setting = Nil /\ found = Null /\ result = Null
  \/ /\ part = "path" /\ LookupInit
     /\ CInit /\ type = "NONE"

MCNext ==
  /\ part' = part
  /\ \/ part = "value" /\ CNext /\ UNCHANGED walk
     \/ part = "path" /\ LookupNext /\ UNCHANGED cvars

MCSpec == MCInit /\ [][MCNext]_<<part, cvars, walk>>
=============================================================================
