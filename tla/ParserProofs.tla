---------------------------- MODULE ParserProofs ----------------------------
(***************************************************************************)
(* Theorems about Parser, for any tokens, names, stack sizes and bounds.   *)
(***************************************************************************)
EXTENDS Parser, SequenceTheorems, FiniteSetTheorems, WellFoundedInduction, TLAPS

(***************************************************************************)
(* Induction.                                                              *)
(***************************************************************************)

LEMMA NatLess == IsWellFoundedOn({p \in Nat \X Nat : p[1] < p[2]}, Nat)
  BY NatLessThanWellFounded DEF OpToRel

\* A set of numbers that has 0 and, with a number, the next, has all.
LEMMA SetInduction ==
  ASSUME NEW S \in SUBSET Nat, 0 \in S, \A k \in S : k + 1 \in S
  PROVE S = Nat
<1> SUFFICES ASSUME S # Nat PROVE FALSE
  OBVIOUS
<1> DEFINE R == {p \in Nat \X Nat : p[1] < p[2]}
           rest == Nat \ S
<1>1. IsWellFoundedOn(R, Nat)
  BY NatLess
<1>2. \A a, b \in rest : <<a, b>> \in R <=> a < b
  OBVIOUS
<1>3. rest \in SUBSET Nat /\ rest # {} /\ 0 \notin rest
  OBVIOUS
<1> HIDE DEF R
<1>4. PICK b \in rest : \A a \in rest : ~ (<<a, b>> \in R)
  <2> HIDE DEF rest
  <2> QED
    BY <1>1, <1>3, WFMin
<1>5. \A a \in rest : ~ (a < b)
  BY <1>2, <1>4
<1>6. b - 1 \in Nat /\ b - 1 < b /\ b - 1 \notin rest /\ (b - 1) + 1 = b
  BY <1>3, <1>4, <1>5
<1> QED
  BY <1>3, <1>4, <1>6

\* What is left of a sequence.
LEMMA PrefixOf ==
  ASSUME NEW S, NEW s \in Seq(S), NEW k \in 0..Len(s)
  PROVE  /\ SubSeq(s, 1, k) \in Seq(S) /\ Len(SubSeq(s, 1, k)) = k
         /\ \A i \in 1..k : SubSeq(s, 1, k)[i] = s[i]
<1>1. Len(s) \in Nat /\ k \in Int /\ k >= 0 /\ \A i \in 1..k : s[i] \in S
  OBVIOUS
<1>2. (IF 1 <= k THEN k - 1 + 1 ELSE 0) = k /\ k - 1 + 1 = k /\ \A i \in 1..k : 1 + i - 1 = i
  BY <1>1
<1> QED
  BY <1>1, <1>2, SubSeqProperties

\* All but its last.
LEMMA FrontOf ==
  ASSUME NEW S, NEW s \in Seq(S), s # << >>
  PROVE  /\ Len(s) \in Nat /\ Len(s) # 0
         /\ Front(s) \in Seq(S) /\ Len(Front(s)) = Len(s) - 1
         /\ \A i \in 1..Len(s) - 1 : Front(s)[i] = s[i]
<1>1. Len(s) \in Nat /\ Len(s) # 0
  BY EmptySeq
<1>2. Len(s) - 1 \in 0..Len(s)
  BY <1>1
<1> QED
  BY <1>1, <1>2, PrefixOf DEF Front

(***************************************************************************)
(* The brackets that are open.                                             *)
(***************************************************************************)

TokenSet == [kind : TokenKinds, name : Names \cup {Nil}]

\* What token i, of some kind, makes of the brackets open before it.
Passed(s, i, kind) ==
  IF kind \in OpenKinds THEN Append(s, i)
  ELSE IF kind \in CloseKinds /\ s # << >> THEN Front(s)
  ELSE s

OpensBody(r, f) ==
  [i \in 1..Len(r) + 1 |->
     IF i = 1 THEN << >>
     ELSE IF r[i - 1].kind \in OpenKinds THEN Append(f[i - 1], i - 1)
     ELSE IF r[i - 1].kind \in CloseKinds /\ f[i - 1] # << >> THEN Front(f[i - 1])
     ELSE f[i - 1]]

OpensOf(r) == CHOOSE f : f = OpensBody(r, f)

LEMMA OpensDef == opens = OpensOf(read)
  BY DEF opens, OpensOf, OpensBody, n, Kind

Brackets(s, i, r) ==
  /\ s \in Seq(Nat)
  /\ \A k \in 1..Len(s) : s[k] \in 1..i - 1 /\ r[s[k]].kind \in OpenKinds

LEMMA PassedBrackets ==
  ASSUME NEW r, NEW i \in Nat \ {0}, NEW s, Brackets(s, i, r)
  PROVE  Brackets(Passed(s, i, r[i].kind), i + 1, r)
<1> DEFINE kind == r[i].kind
<1>1. CASE kind \in OpenKinds
  <2>1. Append(s, i) \in Seq(Nat) /\ Len(Append(s, i)) = Len(s) + 1
    BY DEF Brackets
  <2>2. \A k \in 1..Len(s) : Append(s, i)[k] = s[k]
    BY DEF Brackets
  <2>3. Append(s, i)[Len(s) + 1] = i /\ Len(s) \in Nat
    BY DEF Brackets
  <2>4. \A k \in 1..Len(s) + 1 :
          Append(s, i)[k] \in 1..(i + 1) - 1 /\ r[Append(s, i)[k]].kind \in OpenKinds
    <3> TAKE k \in 1..Len(s) + 1
    <3>1. CASE k = Len(s) + 1
      BY <1>1, <2>3, <3>1
    <3>2. CASE k # Len(s) + 1
      BY <2>2, <2>3, <3>2 DEF Brackets
    <3> QED
      BY <3>1, <3>2
  <2> QED
    BY <1>1, <2>1, <2>4 DEF Brackets, Passed
<1>2. CASE kind \notin OpenKinds /\ kind \in CloseKinds /\ s # << >>
  <2>1. s \in Seq(Nat) /\ Len(s) \in Nat /\ Len(s) # 0
    BY <1>2, EmptySeq DEF Brackets
  <2>3. Front(s) \in Seq(Nat) /\ Len(Front(s)) = Len(s) - 1
    BY <1>2, <2>1, FrontOf
  <2>4. \A k \in 1..Len(s) - 1 : Front(s)[k] = s[k]
    BY <1>2, <2>1, FrontOf
  <2> QED
    <3>1. Passed(s, i, r[i].kind) = Front(s)
      BY <1>2 DEF Passed
    <3>2. \A k \in 1..Len(s) - 1 : k \in 1..Len(s) /\ (s[k] \in 1..i - 1 => s[k] \in 1..(i + 1) - 1)
      BY <2>1
    <3> QED
      BY <2>3, <2>4, <3>1, <3>2 DEF Brackets
<1>3. CASE kind \notin OpenKinds /\ ~ (kind \in CloseKinds /\ s # << >>)
  <2>1. Passed(s, i, kind) = s
    BY <1>3 DEF Passed
  <2> QED
    BY <2>1 DEF Brackets
<1> QED
  BY <1>1, <1>2, <1>3

\* OpensOf is what its definition says.
LEMMA OpensAre ==
  ASSUME NEW r \in Seq(TokenSet)
  PROVE  /\ DOMAIN OpensOf(r) = 1..Len(r) + 1
         /\ OpensOf(r)[1] = << >>
         /\ \A i \in 1..Len(r) : OpensOf(r)[i + 1] = Passed(OpensOf(r)[i], i, r[i].kind)
         /\ \A i \in 1..Len(r) + 1 : Brackets(OpensOf(r)[i], i, r)
<1> DEFINE Right(f, k) ==
             /\ DOMAIN f = 1..k + 1 /\ f = [i \in 1..k + 1 |-> f[i]]
             /\ f[1] = << >>
             /\ \A i \in 1..k : f[i + 1] = Passed(f[i], i, r[i].kind)
           S == {k \in Nat : \E f : Right(f, k)}
<1>1. 0 \in S
  <2>1. Right([i \in 1..0 + 1 |-> << >>], 0)
    OBVIOUS
  <2> QED
    BY <2>1
<1>2. ASSUME NEW k \in S PROVE k + 1 \in S
  <2>1. PICK f : Right(f, k)
    OBVIOUS
  <2> DEFINE g == [i \in 1..(k + 1) + 1 |->
                     IF i = k + 2 THEN Passed(f[k + 1], k + 1, r[k + 1].kind) ELSE f[i]]
  <2>2. k \in Nat /\ DOMAIN g = 1..(k + 1) + 1 /\ g = [i \in 1..(k + 1) + 1 |-> g[i]]
    OBVIOUS
  <2>3. g[1] = << >>
    BY <2>1
  <2>4. \A i \in 1..k + 1 : g[i + 1] = Passed(g[i], i, r[i].kind)
    <3> TAKE i \in 1..k + 1
    <3>1. CASE i = k + 1
      BY <3>1
    <3>2. CASE i # k + 1
      <4>0. k \in Nat
        BY <2>2
      <4>1. i \in 1..k /\ i + 1 # k + 2 /\ i # k + 2 /\ i + 1 \in 1..(k + 1) + 1
        <5> HIDE DEF g, Right, S
        <5> QED
          BY <3>2, <4>0
      <4>2. g[i + 1] = f[i + 1] /\ g[i] = f[i]
        BY <4>0, <4>1
      <4>3. f[i + 1] = Passed(f[i], i, r[i].kind)
        BY <2>1, <4>1
      <4> QED
        BY <4>2, <4>3
    <3> QED
      BY <3>1, <3>2
  <2>5. Right(g, k + 1)
    <3> HIDE DEF g
    <3> QED
      BY <2>2, <2>3, <2>4
  <2> QED
    <3> HIDE DEF g, Right
    <3> QED
      BY <2>2, <2>5
<1>3. \E f : Right(f, Len(r))
  <2>1. S = Nat
    <3> HIDE DEF S
    <3>1. S \in SUBSET Nat
      BY DEF S
    <3> QED
      BY <1>1, <1>2, <3>1, SetInduction
  <2>2. Len(r) \in S
    <3> HIDE DEF S
    <3> QED
      BY <2>1
  <2> QED
    BY <2>2
<1>4. PICK f : Right(f, Len(r))
  BY <1>3
<1>5. f = OpensBody(r, f)
  <2>1. \A i \in 1..Len(r) + 1 : f[i] = OpensBody(r, f)[i]
    <3> TAKE i \in 1..Len(r) + 1
    <3>1. CASE i = 1
      BY <1>4, <3>1 DEF OpensBody
    <3>2. CASE i # 1
      <4>1. i - 1 \in 1..Len(r) /\ (i - 1) + 1 = i
        BY <3>2
      <4>2. f[(i - 1) + 1] = Passed(f[i - 1], i - 1, r[i - 1].kind)
        BY <1>4, <4>1
      <4> QED
        BY <3>2, <4>1, <4>2 DEF OpensBody, Passed
    <3> QED
      BY <3>1, <3>2
  <2>2. OpensBody(r, f) = [i \in 1..Len(r) + 1 |-> OpensBody(r, f)[i]]
    BY DEF OpensBody
  <2> QED
    BY <1>4, <2>1, <2>2
<1> DEFINE o == OpensOf(r)
<1>6. o = OpensBody(r, o)
  BY <1>5 DEF OpensOf
<1>7. DOMAIN o = 1..Len(r) + 1 /\ o[1] = << >>
  <2> HIDE DEF o
  <2>1. DOMAIN OpensBody(r, o) = 1..Len(r) + 1
    BY DEF OpensBody
  <2>2. OpensBody(r, o)[1] = << >>
    BY DEF OpensBody
  <2> QED
    BY <1>6, <2>1, <2>2
<1>8. \A i \in 1..Len(r) : o[i + 1] = Passed(o[i], i, r[i].kind)
  <2> HIDE DEF o
  <2> TAKE i \in 1..Len(r)
  <2>1. i + 1 \in 1..Len(r) + 1 /\ i + 1 # 1 /\ (i + 1) - 1 = i
    OBVIOUS
  <2>2. OpensBody(r, o)[i + 1] = Passed(o[i], i, r[i].kind)
    BY <2>1 DEF OpensBody, Passed
  <2> QED
    BY <1>6, <2>2
<1>9. \A i \in 1..Len(r) + 1 : Brackets(o[i], i, r)
  <2> HIDE DEF o
  <2> DEFINE T == {k \in Nat : k <= Len(r) => Brackets(o[k + 1], k + 1, r)}
  <2>1. 0 \in T
    <3>1. Brackets(<< >>, 1, r)
      BY DEF Brackets
    <3> QED
      BY <1>7, <3>1
  <2>2. ASSUME NEW k \in T PROVE k + 1 \in T
    <3>1. SUFFICES ASSUME k + 1 <= Len(r) PROVE Brackets(o[(k + 1) + 1], (k + 1) + 1, r)
      OBVIOUS
    <3>2. k \in Nat /\ k + 1 \in 1..Len(r) /\ k + 1 \in Nat \ {0} /\ Brackets(o[k + 1], k + 1, r)
      BY <3>1
    <3> QED
      BY <1>8, <3>2, PassedBrackets
  <2>3. T = Nat
    <3> HIDE DEF T
    <3>1. T \in SUBSET Nat
      BY DEF T
    <3> QED
      BY <2>1, <2>2, <3>1, SetInduction
  <2> TAKE i \in 1..Len(r) + 1
  <2>4. i - 1 \in Nat /\ i - 1 <= Len(r) /\ (i - 1) + 1 = i
    OBVIOUS
  <2>5. i - 1 \in T
    BY <2>3, <2>4
  <2> QED
    BY <2>4, <2>5
<1> QED
  BY <1>7, <1>8, <1>9

\* What is read later does not change what was open before.
LEMMA OpensStay ==
  ASSUME NEW r \in Seq(TokenSet), NEW t \in TokenSet
  PROVE  \A i \in 1..Len(r) + 1 : OpensOf(Append(r, t))[i] = OpensOf(r)[i]
<1> DEFINE q == Append(r, t)
           f == OpensOf(r)
           g == OpensOf(q)
           T == {k \in Nat : k <= Len(r) => g[k + 1] = f[k + 1]}
<1>1. q \in Seq(TokenSet) /\ Len(q) = Len(r) + 1 /\ \A i \in 1..Len(r) : q[i] = r[i]
  OBVIOUS
<1> HIDE DEF q
<1>2. f[1] = << >> /\ g[1] = << >>
  BY <1>1, OpensAre
<1>3. \A i \in 1..Len(r) : f[i + 1] = Passed(f[i], i, r[i].kind)
  BY OpensAre
<1>4. \A i \in 1..Len(r) + 1 : g[i + 1] = Passed(g[i], i, q[i].kind)
  BY <1>1, OpensAre
<1> HIDE DEF f, g
<1>5. 0 \in T
  BY <1>2
<1>6. ASSUME NEW k \in T PROVE k + 1 \in T
  <2>1. SUFFICES ASSUME k + 1 <= Len(r) PROVE g[(k + 1) + 1] = f[(k + 1) + 1]
    OBVIOUS
  <2>2. k \in Nat /\ k + 1 \in 1..Len(r) /\ k + 1 \in 1..Len(r) + 1 /\ g[k + 1] = f[k + 1]
    BY <2>1
  <2> QED
    BY <1>1, <1>3, <1>4, <2>2
<1>7. T = Nat
  <2> HIDE DEF T
  <2>1. T \in SUBSET Nat
    BY DEF T
  <2> QED
    BY <1>5, <1>6, <2>1, SetInduction
<1> TAKE i \in 1..Len(r) + 1
<1>8. i - 1 \in Nat /\ i - 1 <= Len(r) /\ (i - 1) + 1 = i
  OBVIOUS
<1>9. i - 1 \in T
  BY <1>7, <1>8
<1> QED
  BY <1>8, <1>9 DEF f, g, q

(***************************************************************************)
(* What is known of a token by its place.                                  *)
(***************************************************************************)

LEMMA Translated ==
  /\ \A a, b \in TokenKinds : yytranslate[a] = yytranslate[b] => a = b
  /\ \A a \in TokenKinds : yytranslate[a] \in 0..YYNTOKENS - 1 /\ a # Unread
  /\ OpenKinds \subseteq TokenKinds /\ CloseKinds \subseteq TokenKinds
  /\ OpenKinds \cap CloseKinds = {} /\ "EOF" \in TokenKinds /\ yytranslate["EOF"] = 0
  /\ YYFINAL \in States /\ yystos[YYFINAL + 1] = 0
  BY DEF TokenKinds, yytranslate, YYNTOKENS, Unread, OpenKinds, CloseKinds, YYFINAL, States, yystos

\* What opens, Kind and the others say, all together.
PlacesOK ==
  /\ n = Len(read) /\ n \in Nat
  /\ \A i \in 1..n : Kind(i) \in TokenKinds /\ Kind(i) = read[i].kind
  /\ opens[1] = << >>
  /\ \A i \in 1..n : opens[i + 1] = Passed(opens[i], i, Kind(i))
  /\ \A i \in 1..n + 1 :
       /\ opens[i] \in Seq(Nat)
       /\ \A k \in 1..Len(opens[i]) : opens[i][k] \in 1..i - 1 /\ Kind(opens[i][k]) \in OpenKinds

LEMMA Places ==
  ASSUME read \in Seq(TokenSet)
  PROVE  PlacesOK
<1>1. n = Len(read) /\ n \in Nat /\ \A i : Kind(i) = read[i].kind
  BY DEF n, Kind
<1>2. \A i \in 1..n : Kind(i) \in TokenKinds
  <2>1. \A i \in 1..n : read[i] \in TokenSet
    BY <1>1
  <2> QED
    BY <1>1, <2>1 DEF TokenSet
<1>3. /\ opens[1] = << >>
      /\ \A i \in 1..n : opens[i + 1] = Passed(opens[i], i, Kind(i))
      /\ \A i \in 1..n + 1 : Brackets(opens[i], i, read)
  BY <1>1, OpensAre, OpensDef
<1> QED
  BY <1>1, <1>2, <1>3 DEF PlacesOK, Brackets

LEMMA OpenerIs ==
  ASSUME PlacesOK, NEW i \in 1..n + 1
  PROVE  /\ Opener(i) \in 0..i - 1 /\ (Opener(i) = 0 <=> opens[i] = << >>)
         /\ Opener(i) # 0 => Opener(i) \in 1..n /\ Kind(Opener(i)) \in OpenKinds
         /\ Within(i) \in Contexts /\ (Within(i) = "TOP" <=> Opener(i) = 0)
         /\ Opener(i) # 0 => Within(i) = Kind(Opener(i))
<1>1. CASE opens[i] = << >>
  BY <1>1 DEF PlacesOK, Opener, Within, Contexts
<1>2. CASE opens[i] # << >>
  <2>1. Len(opens[i]) \in Nat /\ Len(opens[i]) # 0
    BY <1>2, EmptySeq DEF PlacesOK
  <2>2. Len(opens[i]) \in 1..Len(opens[i])
    BY <2>1
  <2>3. Opener(i) = opens[i][Len(opens[i])]
    BY <1>2 DEF Opener, Last
  <2>4. Opener(i) \in 1..i - 1 /\ Kind(Opener(i)) \in OpenKinds
    BY <2>2, <2>3 DEF PlacesOK
  <2>5. Opener(i) # 0 /\ Opener(i) \in 0..i - 1 /\ Opener(i) \in 1..n
    BY <2>4 DEF PlacesOK
  <2> QED
    BY <1>2, <2>4, <2>5 DEF Within, Contexts, OpenKinds
<1> QED
  BY <1>1, <1>2

\* What token i leaves behind it.
LEMMA After ==
  ASSUME PlacesOK, NEW i \in 1..n
  PROVE  /\ Before(i + 1) = LeftBy(Kind(i))
         /\ Kind(i) \in OpenKinds => /\ opens[i + 1] = Append(opens[i], i) /\ Opener(i + 1) = i
                                     /\ Within(i + 1) = Kind(i)
         /\ Kind(i) \in CloseKinds => opens[i + 1] = IF opens[i] = << >> THEN << >> ELSE Front(opens[i])
         /\ Kind(i) \notin OpenKinds \cup CloseKinds =>
              opens[i + 1] = opens[i] /\ Opener(i + 1) = Opener(i) /\ Within(i + 1) = Within(i)
<1>0. i + 1 \in 1..n + 1 /\ (i + 1) - 1 = i /\ i # 0 /\ i \in 1..n + 1 /\ n \in Nat
  BY DEF PlacesOK
<1>1. opens[i + 1] = Passed(opens[i], i, Kind(i)) /\ opens[i] \in Seq(Nat)
  BY <1>0 DEF PlacesOK
<1>2. CASE Kind(i) \in OpenKinds
  <2>1. opens[i + 1] = Append(opens[i], i) /\ Kind(i) \notin CloseKinds
    BY <1>1, <1>2, Translated DEF Passed
  <2>2. Opener(i + 1) = i
    <3>1. Append(opens[i], i) # << >> /\ Last(Append(opens[i], i)) = i
      BY <1>1 DEF Last
    <3> QED
      BY <2>1, <3>1 DEF Opener
  <2> QED
    BY <1>0, <1>2, <2>1, <2>2 DEF Within, Before, LeftBy
<1>3. CASE Kind(i) \notin OpenKinds
  <2>1. Opener(i + 1) # i
    BY <1>0, <1>3, OpenerIs
  <2>2. Before(i + 1) = LeftBy(Kind(i))
    BY <1>0, <1>3, <2>1 DEF Before, LeftBy
  <2>3. Kind(i) \in CloseKinds => opens[i + 1] = IF opens[i] = << >> THEN << >> ELSE Front(opens[i])
    BY <1>1, <1>3 DEF Passed
  <2>4. Kind(i) \notin CloseKinds =>
          opens[i + 1] = opens[i] /\ Opener(i + 1) = Opener(i) /\ Within(i + 1) = Within(i)
    BY <1>1, <1>3 DEF Passed, Opener, Within
  <2> QED
    BY <1>3, <2>2, <2>3, <2>4
<1> QED
  BY <1>2, <1>3

\* Nothing of this changes while nothing is read.
LEMMA SameRead ==
  ASSUME read' = read
  PROVE  /\ n' = n /\ opens' = opens
         /\ \A i : /\ Kind(i)' = Kind(i) /\ Opener(i)' = Opener(i) /\ Within(i)' = Within(i)
                   /\ Before(i)' = Before(i) /\ May(i)' = May(i)
<1>1. n' = n /\ opens' = opens
  BY DEF n, opens, Kind
<1>2. \A i : Kind(i)' = Kind(i)
  BY DEF Kind
<1>3. \A i : Opener(i)' = Opener(i)
  BY <1>1 DEF Opener
<1>4. \A i : Within(i)' = Within(i)
  BY <1>2, <1>3 DEF Within
<1>5. \A i : Before(i)' = Before(i)
  BY <1>2, <1>3 DEF Before
<1> QED
  BY <1>1, <1>2, <1>3, <1>4, <1>5 DEF May

\* Nor does what is read change what was there before it.
LEMMA MoreRead ==
  ASSUME read \in Seq(TokenSet), NEW t \in TokenSet, read' = Append(read, t)
  PROVE  /\ read' \in Seq(TokenSet) /\ n' = n + 1 /\ n \in Nat
         /\ \A i \in 1..n : read'[i] = read[i] /\ Kind(i)' = Kind(i) /\ May(i)' = May(i)
         /\ \A i \in {n + 1} : read'[i] = t /\ Kind(i)' = t.kind
         /\ \A i \in 1..n + 1 : /\ opens'[i] = opens[i] /\ Opener(i)' = Opener(i)
                                /\ Within(i)' = Within(i) /\ Before(i)' = Before(i)
<1>1. read' \in Seq(TokenSet) /\ n' = n + 1 /\ n \in Nat /\ read'[n + 1] = t
      /\ \A i \in 1..n : read'[i] = read[i]
  BY DEF n
<1>2. \A i \in 1..n : Kind(i)' = Kind(i)
  BY <1>1 DEF Kind
<1>3. \A i \in {n + 1} : read'[i] = t /\ Kind(i)' = t.kind
  BY <1>1 DEF Kind
<1>4. opens = OpensOf(read) /\ opens' = OpensOf(read')
  BY OpensDef DEF opens, n, Kind, OpensOf, OpensBody
<1>5. \A i \in 1..n + 1 : opens'[i] = opens[i]
  BY <1>4, OpensStay DEF n
<1>6. \A i \in 1..n + 1 : Opener(i)' = Opener(i)
  BY <1>5 DEF Opener
<1>7. PlacesOK
  BY Places
<1>8. \A i \in 1..n + 1 : Within(i)' = Within(i)
  BY <1>2, <1>6, <1>7, OpenerIs DEF Within
<1>9. \A i \in 1..n + 1 : Before(i)' = Before(i)
  <2> TAKE i \in 1..n + 1
  <2>1. Opener(i)' = Opener(i) /\ Opener(i) \in 0..i - 1
    BY <1>6, <1>7, OpenerIs
  <2>2. CASE i - 1 = Opener(i)
    BY <2>1, <2>2 DEF Before
  <2>3. CASE i - 1 # Opener(i)
    <3>1. i - 1 \in 1..n
      BY <1>1, <2>1, <2>3
    <3> QED
      BY <1>2, <2>1, <2>3, <3>1 DEF Before
  <2> QED
    BY <2>2, <2>3
<1>10. \A i \in 1..n : May(i)' = May(i)
  <2> TAKE i \in 1..n
  <2>1. i \in 1..n + 1
    BY <1>1
  <2> QED
    BY <1>2, <1>8, <1>9, <2>1 DEF May
<1> QED
  BY <1>1, <1>2, <1>3, <1>5, <1>6, <1>8, <1>9, <1>10

(***************************************************************************)
(* The stacks stand for the tokens consumed.                               *)
(***************************************************************************)

\* The tokens shifted so far.
Consumed == n - Len(look)

Typed ==
  /\ read \in Seq(TokenSet)
  /\ look = << >> \/ (n # 0 /\ look = <<n>>)
  /\ states \in Seq(States) /\ Len(states) # 0 /\ states[1] = 0
  /\ vals \in Seq(Nat) /\ Len(vals) = Len(states)

\* State t, with the value v, stands for the tokens behind the i-th up to the j-th.
Linked(t, i, j, v) ==
  /\ i <= j
  /\ IsToken(t) => j = i + 1 /\ v = j /\ yystos[t + 1] = yytranslate[Kind(j)]
  /\ ~ IsToken(t) => opens[j + 1] = opens[i + 1] /\ (yystos[t + 1] = StringSymbol => v = i + 1)

\* The k-th state stands for the tokens from behind the e[k - 1]-th to the e[k]-th.
Covers(e) ==
  /\ e \in Seq(Nat) /\ Len(e) = Len(states) /\ e[1] = 0 /\ e[Len(states)] = Consumed
  /\ \A k \in 1..Len(states) :
       e[k] <= Consumed /\ <<states[k], Within(e[k] + 1)>> \in Around
  /\ \A k \in 2..Len(states) :
       <<states[k - 1], states[k]>> \in Edges /\ Linked(states[k], e[k - 1], e[k], vals[k])

Told == \A i \in 1..Consumed : May(i)
Ahead == IF look = << >> THEN Unread ELSE Kind(n)
Known == <<Top, Before(Consumed + 1), Ahead>> \in Situations

Answered ==
  /\ yyresult = "running" => Top # YYFINAL /\ (error = Nil \/ error[1] # "syntax error")
  /\ yyresult = "ok" => n # 0 /\ look = << >> /\ Kind(n) = "EOF"
  /\ error # Nil /\ error[1] = "syntax error" => n # 0 /\ ~ May(n) /\ error[2] = n

StackInv == Typed /\ (\E e : Covers(e)) /\ Told /\ Known /\ Answered

LEMMA TypedFacts ==
  ASSUME Typed
  PROVE  /\ PlacesOK /\ n \in Nat /\ Consumed \in 0..n
         /\ look = << >> => Consumed = n
         /\ look # << >> => look[1] = n /\ n \in 1..n /\ n = Consumed + 1 /\ Len(look) = 1
                            /\ read[look[1]].kind = Kind(n)
         /\ Len(states) \in Nat \ {0} /\ Top \in States /\ Top = states[Len(states)]
<1>1. PlacesOK /\ n \in Nat
  BY Places DEF Typed, PlacesOK
<1>2. look # << >> => n # 0 /\ look = <<n>> /\ Len(look) = 1 /\ look[1] = n
  BY DEF Typed
<1>3. look = << >> => Consumed = n
  BY <1>1 DEF Consumed
<1>4. look # << >> => Consumed = n - 1
  BY <1>2 DEF Consumed
<1>5. Consumed \in 0..n /\ (look # << >> => n \in 1..n /\ n = Consumed + 1)
  BY <1>1, <1>2, <1>3, <1>4
<1>6. Len(states) \in Nat \ {0} /\ Top = states[Len(states)] /\ Len(states) \in 1..Len(states)
  BY DEF Typed, Top, Last
<1>7. Top \in States
  BY <1>6 DEF Typed
<1> QED
  BY <1>1, <1>2, <1>3, <1>5, <1>6, <1>7 DEF Kind

LEMMA InitStack == ParserInit => StackInv
<1> SUFFICES ASSUME ParserInit PROVE StackInv
  OBVIOUS
<1>1. /\ states = <<0>> /\ vals = <<0>> /\ look = << >> /\ read = << >>
      /\ yyresult = "running" /\ error = Nil
  BY DEF ParserInit
<1>2. Typed /\ n = 0 /\ Consumed = 0 /\ Top = 0 /\ Ahead = Unread
  <2>1. << >> \in Seq(TokenSet) /\ <<0>> \in Seq(States) /\ <<0>> \in Seq(Nat)
    BY DEF States
  <2>2. n = 0 /\ Consumed = 0
    BY <1>1 DEF n, Consumed
  <2> QED
    BY <1>1, <2>1, <2>2 DEF Typed, Top, Last, Ahead
<1>3. PlacesOK /\ Opener(1) = 0 /\ Within(1) = "TOP"
  BY <1>2, TypedFacts, OpenerIs
<1>4. Before(1) = "START"
  BY <1>3 DEF Before
<1>5. Covers(<<0>>)
  <2>1. <<0>> \in Seq(Nat) /\ Len(<<0>>) = 1 /\ <<0>>[1] = 0 /\ Len(states) = 1 /\ states[1] = 0
    BY <1>1
  <2>2. 0 <= Consumed /\ <<states[1], Within(<<0>>[1] + 1)>> \in Around
    BY <1>2, <1>3, <2>1, ContextsAssumption
  <2> QED
    BY <1>2, <2>1, <2>2 DEF Covers
<1>6. Told /\ Known
  BY <1>2, <1>4, SituationsAssumption DEF Told, Known
<1>7. Answered
  BY <1>1, <1>2 DEF Answered, YYFINAL
<1> QED
  BY <1>2, <1>5, <1>6, <1>7 DEF StackInv

\* Nothing of it changes with what is left to the actions.
LEMMA StackSame ==
  ASSUME StackInv, UNCHANGED <<states, vals, look, read>>, Answered'
  PROVE  StackInv'
<1>1. n' = n /\ opens' = opens /\ Consumed' = Consumed /\ Top' = Top
  BY SameRead DEF Consumed, Top
<1>2. \A i : Kind(i)' = Kind(i) /\ Within(i)' = Within(i) /\ Before(i)' = Before(i) /\ May(i)' = May(i)
  BY SameRead
<1>3. Ahead' = Ahead
  BY <1>1, <1>2 DEF Ahead
<1>4. Typed'
  BY <1>1 DEF StackInv, Typed
<1>5. Told' /\ Known'
  BY <1>1, <1>2, <1>3 DEF StackInv, Told, Known
<1>6. \A t, i, j, v : Linked(t, i, j, v)' = Linked(t, i, j, v)
  BY <1>1, <1>2 DEF Linked
<1>7. \A e : Covers(e)' = Covers(e)
  BY <1>1, <1>2, <1>6 DEF Covers
<1> QED
  BY <1>4, <1>5, <1>7 DEF StackInv

LEMMA ReceiveStack ==
  ASSUME StackInv, NEW t \in TokenSet, Receive(t)
  PROVE  StackInv'
<1>1. /\ yyresult = "running" /\ ~ Decided /\ look = << >>
      /\ read' = Append(read, t) /\ look' = <<n + 1>>
      /\ error' = IF t.kind = "ERROR" THEN <<"include", n + 1>> ELSE error
      /\ UNCHANGED <<states, vals, yyresult>>
  BY DEF Receive, n
<1>2. PlacesOK /\ n \in Nat /\ Consumed = n /\ Len(states) \in Nat \ {0} /\ Top \in States
  BY <1>1, TypedFacts DEF StackInv
<1>3. /\ read' \in Seq(TokenSet) /\ n' = n + 1
      /\ \A i \in 1..n : Kind(i)' = Kind(i) /\ May(i)' = May(i)
      /\ \A i \in {n + 1} : Kind(i)' = t.kind
      /\ \A i \in 1..n + 1 : /\ opens'[i] = opens[i] /\ Within(i)' = Within(i)
                             /\ Before(i)' = Before(i)
  BY <1>1, MoreRead DEF StackInv, Typed
<1>4. Typed' /\ Consumed' = n /\ Top' = Top /\ look' # << >>
  <2>1. n' # 0 /\ look' = <<n'>> /\ Len(look') = 1
    BY <1>1, <1>2, <1>3
  <2> QED
    BY <1>1, <1>2, <1>3, <2>1 DEF StackInv, Typed, Consumed, Top
<1>5. \E e : Covers(e)'
  <2>1. PICK e : Covers(e)
    BY DEF StackInv
  <2>2. e \in Seq(Nat) /\ Len(e) = Len(states) /\ e[1] = 0 /\ e[Len(states)] = n
    BY <1>2, <2>1 DEF Covers
  <2>3. \A k \in 1..Len(states) : e[k] \in 0..n
    <3> TAKE k \in 1..Len(states)
    <3>1. e[k] \in Nat
      BY <2>2
    <3>2. e[k] <= n
      BY <1>2, <2>1 DEF Covers
    <3> QED
      BY <1>2, <3>1, <3>2
  <2>4. \A k \in 1..Len(states) : <<states[k], Within(e[k] + 1)'>> \in Around
    <3> TAKE k \in 1..Len(states)
    <3>1. e[k] + 1 \in 1..n + 1
      BY <1>2, <2>3
    <3> QED
      BY <1>3, <2>1, <3>1 DEF Covers
  <2>5. \A k \in 2..Len(states) : Linked(states[k], e[k - 1], e[k], vals[k])'
    <3> TAKE k \in 2..Len(states)
    <3>1. k - 1 \in 1..Len(states) /\ k \in 1..Len(states)
      BY <1>2
    <3>2. e[k - 1] + 1 \in 1..n + 1 /\ e[k] + 1 \in 1..n + 1 /\ e[k - 1] \in 0..n /\ e[k] \in 0..n
      BY <1>2, <2>3, <3>1
    <3>3. Linked(states[k], e[k - 1], e[k], vals[k])
      BY <2>1 DEF Covers
    <3>4. e[k] = e[k - 1] + 1 => e[k] \in 1..n
      BY <1>2, <3>2
    <3> QED
      BY <1>1, <1>3, <3>2, <3>3, <3>4 DEF Linked
  <2>6. Covers(e)'
    BY <1>1, <1>4, <2>1, <2>2, <2>4, <2>5 DEF Covers
  <2> QED
    BY <2>6
<1>6. Told'
  BY <1>2, <1>3, <1>4 DEF StackInv, Told
<1>7. Known'
  <2>1. <<Top, Before(n + 1), Unread>> \in Situations
    BY <1>1, <1>2 DEF StackInv, Known, Ahead
  <2>2. t.kind \in TokenKinds
    BY DEF TokenSet
  <2>3. <<Top, Before(n + 1), t.kind>> \in Steps(<<Top, Before(n + 1), Unread>>)
    BY <1>1, <2>2 DEF Steps, Decided
  <2>4. <<Top, Before(n + 1), t.kind>> \in Situations
    BY <2>1, <2>3, SituationsAssumption
  <2>5. Ahead' = t.kind
    <3>1. \A i \in {n + 1} : Kind(i)' = t.kind
      BY <1>3
    <3>2. Kind(n)' = t.kind
      BY <1>3, <3>1
    <3> QED
      BY <1>4, <3>2 DEF Ahead
  <2>6. \A i \in {n + 1} : Before(i)' = Before(n + 1)
    BY <1>2, <1>3
  <2>7. Before(Consumed + 1)' = Before(n + 1)
    BY <1>4, <2>6
  <2> QED
    BY <1>4, <2>4, <2>5, <2>7 DEF Known
<1>8. Answered'
  <2>1. error = Nil \/ error[1] # "syntax error"
    BY <1>1 DEF StackInv, Answered
  <2>2. error' = Nil \/ error'[1] # "syntax error"
    BY <1>1, <2>1
  <2> QED
    BY <1>1, <1>4, <2>2 DEF StackInv, Answered
<1> QED
  BY <1>4, <1>5, <1>6, <1>7, <1>8 DEF StackInv

\* What a stack holds below the state of a reduction.
LEMMA Popped ==
  ASSUME Typed, NEW e, Covers(e), Top # YYFINAL, yydefact[Top + 1] # 0
  PROVE  LET len == yyr2[yydefact[Top + 1] + 1] IN
           /\ len \in 0..5 /\ len < Len(states)
           /\ \A k \in 0..len : states[Len(states) - k] \in Under(Edges, Top, k)
<1> DEFINE len == yyr2[yydefact[Top + 1] + 1]
           d == Len(states)
<1>1. Top \in States \ {YYFINAL} /\ d \in Nat /\ d # 0 /\ Top = states[d]
  BY TypedFacts
<1>2. len \in 0..5 /\ \A k \in 0..len - 1 : 0 \notin Under(Edges, Top, k)
  BY <1>1, EdgesAssumption
<1> HIDE DEF len, d
<1> DEFINE S == {k \in Nat : k <= len => k < d /\ states[d - k] \in Under(Edges, Top, k)}
<1>3. 0 \in S
  BY <1>1, UnderAssumption
<1>4. ASSUME NEW k \in S PROVE k + 1 \in S
  <2>1. SUFFICES ASSUME k + 1 <= len
                 PROVE  k + 1 < d /\ states[d - (k + 1)] \in Under(Edges, Top, k + 1)
    OBVIOUS
  <2>2. k \in Nat /\ k < d /\ states[d - k] \in Under(Edges, Top, k) /\ k \in 0..len - 1
    BY <1>2, <2>1
  <2>3. states[d - k] # 0
    BY <1>2, <2>2
  <2>4. d - k # 1
    BY <2>3 DEF Typed
  <2>5. k + 1 < d /\ d - k \in 2..d /\ (d - k) - 1 = d - (k + 1) /\ d - (k + 1) \in 1..d
    BY <1>1, <2>2, <2>4
  <2>6. <<states[d - (k + 1)], states[d - k]>> \in Edges /\ states[d - (k + 1)] \in States
    <3>1. /\ \A i \in 2..d : <<states[i - 1], states[i]>> \in Edges
          /\ \A i \in 1..d : states[i] \in States
      BY DEF Covers, Typed, d
    <3> QED
      BY <2>5, <3>1
  <2>7. k + 1 \in 1..5 /\ (k + 1) - 1 = k
    BY <1>2, <2>1, <2>2
  <2>8. Under(Edges, Top, k + 1) =
          {s \in States : \E u \in Under(Edges, Top, k) : <<s, u>> \in Edges}
    <3>1. \A i \in 1..5 : Under(Edges, Top, i) =
            {s \in States : \E u \in Under(Edges, Top, i - 1) : <<s, u>> \in Edges}
      BY <1>1, UnderAssumption
    <3> HIDE DEF S
    <3> QED
      BY <2>7, <3>1
  <2> QED
    BY <2>2, <2>5, <2>6, <2>8
<1>5. S = Nat
  <2> HIDE DEF S
  <2>1. S \in SUBSET Nat
    BY DEF S
  <2> QED
    BY <1>3, <1>4, <2>1, SetInduction
<1>6. \A k \in 0..len : k < d /\ states[d - k] \in Under(Edges, Top, k)
  <2> TAKE k \in 0..len
  <2>1. k \in Nat /\ k <= len
    BY <1>2
  <2> QED
    BY <1>5, <2>1
<1>7. len < d
  BY <1>2, <1>6
<1> QED
  BY <1>2, <1>6, <1>7 DEF len, d

\* A reduction leaves no bracket that was not open below it, nor closes any.
LEMMA Balanced ==
  ASSUME Typed, NEW e, Covers(e), Top # YYFINAL, yydefact[Top + 1] # 0
  PROVE  LET len == yyr2[yydefact[Top + 1] + 1] IN
           opens[Consumed + 1] = opens[e[Len(states) - len] + 1]
<1> DEFINE len == yyr2[yydefact[Top + 1] + 1]
           d == Len(states)
<1>1. Top \in States \ {YYFINAL} /\ d \in Nat /\ d # 0 /\ Top = states[d] /\ PlacesOK
      /\ n \in Nat /\ Consumed \in 0..n
  BY TypedFacts
<1>2. len \in 0..5 /\ len < d /\ \A k \in 0..len : states[d - k] \in Under(Edges, Top, k)
  BY Popped
<1>3. e[d] = Consumed /\ \A k \in 1..d : e[k] \in 0..n /\ states[k] \in States
  <2>1. \A k \in 1..d : e[k] \in Nat /\ e[k] <= Consumed /\ states[k] \in States
    <3>1. \A k \in 1..d : e[k] \in Nat
      BY DEF Covers, d
    <3>2. \A k \in 1..d : e[k] <= Consumed
      BY DEF Covers, d
    <3>3. \A k \in 1..d : states[k] \in States
      BY DEF Typed, d
    <3> QED
      BY <3>1, <3>2, <3>3
  <2> QED
    BY <1>1, <2>1 DEF Covers, d
<1>4. \A k \in 2..d : Linked(states[k], e[k - 1], e[k], vals[k])
  BY DEF Covers
<1>5. IF IsKind(Top, CloseKinds)
        THEN /\ len = 4
             /\ \A u \in Under(Edges, Top, 1) \cup Under(Edges, Top, 2) : ~ IsToken(u)
             /\ \A u \in Under(Edges, Top, 3) : IsKind(u, OpenKinds)
        ELSE \A k \in 0..len - 1 : \A u \in Under(Edges, Top, k) :
               ~ IsKind(u, OpenKinds \cup CloseKinds)
  BY <1>1, BracketsAssumption
<1> HIDE DEF len, d
<1>6. ASSUME NEW k \in 2..d, IsToken(states[k])
      PROVE  /\ e[k - 1] + 1 = e[k] /\ e[k] \in 1..n
             /\ \A kinds \in SUBSET TokenKinds : IsKind(states[k], kinds) <=> Kind(e[k]) \in kinds
  <2>1. k \in 1..d /\ k - 1 \in 1..d
    BY <1>1
  <2>2. e[k] = e[k - 1] + 1 /\ yystos[states[k] + 1] = yytranslate[Kind(e[k])]
    BY <1>4, <1>6 DEF Linked
  <2>3. e[k] \in 1..n
    BY <1>1, <1>3, <2>1, <2>2
  <2>4. Kind(e[k]) \in TokenKinds
    BY <1>1, <2>3 DEF PlacesOK
  <2> QED
    BY <2>2, <2>3, <2>4, Translated DEF IsKind
<1>7. ASSUME NEW k \in 2..d, ~ IsToken(states[k])
      PROVE  opens[e[k] + 1] = opens[e[k - 1] + 1]
  BY <1>4, <1>7 DEF Linked
<1>8. CASE IsKind(Top, CloseKinds)
  <2>1. len = 4 /\ d - 1 \in 2..d /\ d - 2 \in 2..d /\ d - 3 \in 2..d /\ d \in 2..d /\ 1 \in 0..len
        /\ 2 \in 0..len /\ 3 \in 0..len /\ (d - 1) - 1 = d - 2 /\ (d - 2) - 1 = d - 3
        /\ (d - 3) - 1 = d - len
    BY <1>1, <1>2, <1>5, <1>8
  <2>2. ~ IsToken(states[d - 1]) /\ ~ IsToken(states[d - 2]) /\ IsKind(states[d - 3], OpenKinds)
    BY <1>2, <1>5, <1>8, <2>1
  <2>3. \A t \in States, kinds \in SUBSET TokenKinds : IsKind(t, kinds) => IsToken(t)
    <3> TAKE t \in States, kinds \in SUBSET TokenKinds
    <3>1. SUFFICES ASSUME NEW k \in kinds, yystos[t + 1] = yytranslate[k] PROVE IsToken(t)
      BY DEF IsKind
    <3>2. yytranslate[k] \in 0..YYNTOKENS - 1 /\ YYNTOKENS \in Nat
      BY Translated DEF YYNTOKENS
    <3> QED
      BY <3>1, <3>2 DEF IsToken
  <2>4. IsToken(states[d]) /\ IsToken(states[d - 3])
    BY <1>1, <1>3, <1>8, <2>1, <2>2, <2>3, Translated
  <2>5. opens[e[d - 1] + 1] = opens[e[d - 3] + 1]
    BY <1>7, <2>1, <2>2
  <2>6. /\ e[d - 1] + 1 = e[d] /\ e[d] \in 1..n /\ Kind(e[d]) \in CloseKinds
        /\ e[d - len] + 1 = e[d - 3] /\ e[d - 3] \in 1..n /\ Kind(e[d - 3]) \in OpenKinds
    BY <1>1, <1>6, <1>8, <2>1, <2>2, <2>4, Translated
  <2>7. opens[e[d - 3] + 1] = Append(opens[e[d - len] + 1], e[d - 3])
    BY <1>1, <2>6, After
  <2>8. opens[e[d] + 1] = IF opens[e[d]] = << >> THEN << >> ELSE Front(opens[e[d]])
    BY <1>1, <2>6, After
  <2> DEFINE s == opens[e[d - len] + 1]
  <2>9. s \in Seq(Nat) /\ e[d - 3] \in Nat
    <3>1. e[d - len] + 1 \in 1..n + 1
      BY <2>6, <1>1
    <3> QED
      BY <1>1, <2>6, <3>1 DEF PlacesOK
  <2>10. Append(s, e[d - 3]) # << >> /\ Front(Append(s, e[d - 3])) = s
    <3> HIDE DEF s
    <3>1. Append(s, e[d - 3]) # << >> /\ Append(s, e[d - 3]) \in Seq(Nat)
          /\ Len(Append(s, e[d - 3])) = Len(s) + 1 /\ Len(s) \in Nat
          /\ \A i \in 1..Len(s) : Append(s, e[d - 3])[i] = s[i]
      BY <2>9
    <3>2. /\ Front(Append(s, e[d - 3])) \in Seq(Nat)
          /\ Len(Front(Append(s, e[d - 3]))) = (Len(s) + 1) - 1
          /\ \A i \in 1..(Len(s) + 1) - 1 : Front(Append(s, e[d - 3]))[i] = Append(s, e[d - 3])[i]
      BY <3>1, FrontOf
    <3>3. (Len(s) + 1) - 1 = Len(s)
      BY <3>1
    <3> QED
      BY <2>9, <3>1, <3>2, <3>3, SeqEqual
  <2> QED
    BY <1>3, <2>5, <2>6, <2>7, <2>8, <2>10 DEF d, len
<1>9. CASE ~ IsKind(Top, CloseKinds)
  <2> DEFINE S == {k \in Nat : k <= len => opens[e[d - k] + 1] = opens[e[d] + 1]}
  <2>1. 0 \in S
    BY <1>1
  <2>2. ASSUME NEW k \in S PROVE k + 1 \in S
    <3>1. SUFFICES ASSUME k + 1 <= len
                   PROVE  opens[e[d - (k + 1)] + 1] = opens[e[d] + 1]
      OBVIOUS
    <3>2. k \in Nat /\ k \in 0..len - 1 /\ k \in 0..len /\ d - k \in 2..d /\ d - k \in 1..d
          /\ (d - k) - 1 = d - (k + 1) /\ opens[e[d - k] + 1] = opens[e[d] + 1]
      BY <1>1, <1>2, <3>1
    <3>3. CASE IsToken(states[d - k])
      <4>1. e[(d - k) - 1] + 1 = e[d - k] /\ e[d - k] \in 1..n
            /\ Kind(e[d - k]) \notin OpenKinds \cup CloseKinds
        <5>1. ~ IsKind(states[d - k], OpenKinds \cup CloseKinds)
          BY <1>2, <1>5, <1>9, <3>2
        <5>2. OpenKinds \cup CloseKinds \in SUBSET TokenKinds
          BY Translated
        <5> QED
          BY <1>6, <3>2, <3>3, <5>1, <5>2
      <4>2. opens[e[d - k] + 1] = opens[e[d - k]]
        BY <1>1, <4>1, After
      <4> QED
        BY <3>2, <4>1, <4>2
    <3>4. CASE ~ IsToken(states[d - k])
      BY <1>7, <3>2, <3>4
    <3> QED
      BY <3>3, <3>4
  <2>3. S = Nat
    <3> HIDE DEF S
    <3>1. S \in SUBSET Nat
      BY DEF S
    <3> QED
      BY <2>1, <2>2, <3>1, SetInduction
  <2>4. len \in S
    <3> HIDE DEF S
    <3> QED
      BY <1>2, <2>3
  <2> QED
    BY <1>2, <1>3, <2>4 DEF d, len
<1> QED
  BY <1>8, <1>9

\* A stack of which the first d states stay, and to which s is pushed with v.
LEMMA PushStack ==
  ASSUME Typed, NEW e, Covers(e), UNCHANGED read,
         look' = << >> \/ look' = look,
         NEW d \in 1..Len(states), NEW s \in States, NEW v \in Nat,
         NEW below, NEW belowVals,
         below = SubSeq(states, 1, d), belowVals = SubSeq(vals, 1, d),
         states' = Append(below, s), vals' = Append(belowVals, v),
         <<states[d], s>> \in Edges,
         Linked(s, e[d], Consumed', v), Consumed' >= Consumed,
         <<s, Within(Consumed' + 1)>> \in Around
  PROVE  Typed' /\ (\E f : Covers(f)') /\ Top' = s /\ Len(states') = d + 1
<1>1. /\ Len(states) \in Nat \ {0} /\ PlacesOK /\ n \in Nat /\ Consumed \in 0..n /\ d \in Nat
      /\ n' = n /\ opens' = opens
  BY TypedFacts, SameRead
<1>2. /\ below \in Seq(States) /\ Len(below) = d /\ \A k \in 1..d : below[k] = states[k]
      /\ belowVals \in Seq(Nat) /\ Len(belowVals) = d /\ \A k \in 1..d : belowVals[k] = vals[k]
  <2>1. d \in 0..Len(states) /\ d \in 0..Len(vals)
    BY <1>1 DEF Typed
  <2> QED
    BY <2>1, PrefixOf DEF Typed
<1>3. /\ states' \in Seq(States) /\ Len(states') = d + 1 /\ states'[d + 1] = s
      /\ \A k \in 1..d : states'[k] = states[k]
      /\ vals' \in Seq(Nat) /\ Len(vals') = d + 1 /\ vals'[d + 1] = v
      /\ \A k \in 1..d : vals'[k] = vals[k]
  <2>1. /\ Append(below, s) \in Seq(States) /\ Len(Append(below, s)) = d + 1
        /\ Append(below, s)[d + 1] = s /\ \A k \in 1..d : Append(below, s)[k] = below[k]
    BY <1>1, <1>2
  <2>2. /\ Append(belowVals, v) \in Seq(Nat) /\ Len(Append(belowVals, v)) = d + 1
        /\ Append(belowVals, v)[d + 1] = v /\ \A k \in 1..d : Append(belowVals, v)[k] = belowVals[k]
    BY <1>1, <1>2
  <2> QED
    BY <1>2, <2>1, <2>2
<1>4. Top' = s
  BY <1>3 DEF Top, Last
<1>5. Typed'
  <2>1. states'[1] = 0 /\ d + 1 # 0
    BY <1>1, <1>3 DEF Typed
  <2> QED
    BY <1>1, <1>3, <2>1 DEF Typed
<1>6. PICK m \in Nat : m = Consumed' /\ m >= Consumed
  <2>1. look' = << >> => Consumed' = n
    BY <1>1 DEF Consumed
  <2>2. look' = look => Consumed' = Consumed
    BY <1>1 DEF Consumed
  <2>3. Consumed' \in Nat
    BY <1>1, <2>1, <2>2
  <2> QED
    BY <2>3
<1>7. /\ \A k \in 1..d : e[k] \in Nat /\ e[k] <= Consumed
      /\ \A k \in 1..d : <<states[k], Within(e[k] + 1)>> \in Around
      /\ \A k \in 2..d : /\ <<states[k - 1], states[k]>> \in Edges
                         /\ Linked(states[k], e[k - 1], e[k], vals[k])
      /\ e[1] = 0
  <2>1. \A k \in 1..d : k \in 1..Len(states) /\ k \in 1..Len(e)
    BY <1>1 DEF Covers
  <2>2. \A k \in 2..d : k \in 2..Len(states)
    BY <1>1
  <2>3. \A k \in 1..d : e[k] \in Nat
    BY <2>1 DEF Covers
  <2> QED
    BY <2>1, <2>2, <2>3 DEF Covers
<1>8. PICK g \in Seq(Nat) :
        Len(g) = d + 1 /\ g[1] = 0 /\ g[d + 1] = m /\ \A k \in 1..d : g[k] = e[k]
  <2> DEFINE g == [k \in 1..d + 1 |-> IF k = d + 1 THEN m ELSE e[k]]
  <2>1. g \in [1..d + 1 -> Nat]
    BY <1>1, <1>6, <1>7
  <2>2. d + 1 \in Nat /\ d + 1 \in 1..d + 1 /\ 1 \in 1..d + 1 /\ 1 # d + 1
        /\ \A k \in 1..d : k \in 1..d + 1 /\ k # d + 1
    BY <1>1
  <2>3. g \in Seq(Nat) /\ Len(g) = d + 1
    <3> HIDE DEF g
    <3> QED
      BY <2>1, <2>2
  <2>4. g[1] = 0 /\ g[d + 1] = m /\ \A k \in 1..d : g[k] = e[k]
    BY <1>7, <2>2
  <2> QED
    <3> HIDE DEF g
    <3> QED
      BY <2>3, <2>4
<1>9. \A k \in 1..d + 1 : g[k] <= m /\ <<states'[k], Within(g[k] + 1)'>> \in Around
  <2> TAKE k \in 1..d + 1
  <2>1. Within(g[k] + 1)' = Within(g[k] + 1)
    BY SameRead
  <2>2. CASE k = d + 1
    <3>1. g[k] = m /\ states'[k] = s /\ g[k] = Consumed'
      BY <1>3, <1>6, <1>8, <2>2
    <3>2. <<s, Within(g[k] + 1)>> \in Around
      BY <3>1
    <3>3. g[k] <= m
      BY <3>1
    <3>4. <<states'[k], Within(g[k] + 1)'>> = <<s, Within(g[k] + 1)>>
      BY <2>1, <3>1
    <3> QED
      BY <3>2, <3>3, <3>4
  <2>3. CASE k # d + 1
    <3>1. k \in 1..d
      BY <1>1, <2>3
    <3>2. g[k] = e[k] /\ states'[k] = states[k] /\ g[k] <= m
      BY <1>1, <1>3, <1>6, <1>7, <1>8, <3>1
    <3> QED
      BY <1>7, <2>1, <3>1, <3>2
  <2> QED
    BY <2>2, <2>3
<1>10. \A k \in 2..d + 1 : /\ <<states'[k - 1], states'[k]>> \in Edges
                           /\ Linked(states[k], g[k - 1], g[k], vals[k])'
  <2> TAKE k \in 2..d + 1
  <2>1. \A t, i, j, w : Linked(t, i, j, w)' = Linked(t, i, j, w)
    BY <1>1, SameRead DEF Linked
  <2>2. CASE k = d + 1
    <3>1. k - 1 = d /\ d \in 1..d
      BY <1>1, <2>2
    <3>2. states'[k] = s /\ states'[k - 1] = states[d] /\ g[k - 1] = e[d] /\ g[k] = m /\ vals'[k] = v
      BY <1>3, <1>8, <2>2, <3>1
    <3> QED
      BY <1>6, <2>1, <3>2
  <2>3. CASE k # d + 1
    <3>1. k \in 1..d /\ k - 1 \in 1..d /\ k \in 2..d
      BY <1>1, <2>3
    <3> QED
      BY <1>3, <1>7, <1>8, <2>1, <3>1
  <2> QED
    BY <2>2, <2>3
<1>11. Covers(g)'
  <2>1. Len(states') = d + 1 /\ g[Len(states')] = Consumed'
    BY <1>3, <1>6, <1>8
  <2> QED
    BY <1>6, <1>8, <1>9, <1>10, <2>1 DEF Covers
<1> QED
  BY <1>3, <1>4, <1>5, <1>11

LEMMA PushResult ==
  ASSUME NEW s, NEW v, NEW below, NEW belowVals, Push(s, v, below, belowVals),
         error = Nil \/ error[1] # "syntax error"
  PROVE  /\ states' = Append(below, s) /\ vals' = Append(belowVals, v)
         /\ yyresult' = "running" => s # YYFINAL
         /\ yyresult' = "ok" => s = YYFINAL
         /\ yyresult' \in {"running", "ok", "error", "exhausted"}
         /\ error' = Nil \/ error'[1] # "syntax error"
         /\ yyresult' \in {"running", "ok", "error"} => error' = error
<1> DEFINE full == Len(below) + 1 >= size
           grown == IF full THEN IF 2 * size > MaxDepth THEN MaxDepth ELSE 2 * size ELSE size
<1>1. /\ states' = Append(below, s) /\ vals' = Append(belowVals, v)
      /\ IF full /\ MaxDepth <= size
           THEN yyresult' = "exhausted" /\ Report("memory exhausted")
           ELSE /\ yyresult' = IF Len(below) + 1 >= grown THEN "error"
                            ELSE IF s = YYFINAL THEN "ok" ELSE "running"
                /\ UNCHANGED error
  BY DEF Push
<1> HIDE DEF full, grown
<1>2. CASE full /\ MaxDepth <= size
  <2>1. error' = Nil \/ error'[1] # "syntax error"
    <3>1. error' = IF error = Nil THEN <<"memory exhausted", Len(read)>> ELSE error
      BY <1>1, <1>2 DEF Report
    <3>2. CASE error = Nil
      <4>1. error'[1] = "memory exhausted"
        BY <3>1, <3>2
      <4> QED
        BY <4>1
    <3>3. CASE error # Nil
      BY <3>1, <3>3
    <3> QED
      BY <3>2, <3>3
  <2> QED
    BY <1>1, <1>2, <2>1
<1>3. CASE ~ (full /\ MaxDepth <= size)
  BY <1>1, <1>3
<1> QED
  BY <1>2, <1>3

LEMMA ShiftStack ==
  ASSUME StackInv, Shift
  PROVE  StackInv' /\ Len(states') = Len(states) + 1
<1> DEFINE d == Len(states)
           to == ShiftOn(Top, Kind(n))
           e == <<Top, to>>
<1>1. Typed /\ Told /\ Known /\ Answered /\ look # << >> /\ yyresult = "running"
  BY DEF StackInv, Shift, Ready, Shifts
<1>2. /\ PlacesOK /\ n \in Nat /\ n \in 1..n /\ n = Consumed + 1 /\ look[1] = n /\ d \in Nat \ {0}
      /\ Top \in States /\ Top = states[d] /\ Consumed \in Nat /\ n \in 1..n + 1 /\ n + 1 \in 1..n + 1
      /\ Kind(n) \in TokenKinds /\ Shifts = to
  BY <1>1, TypedFacts DEF Shifts, PlacesOK
<1>3. to # 0 /\ look' = << >> /\ Push(to, n, states, vals) /\ UNCHANGED read
  BY <1>2 DEF Shift
<1>4. e \in Edges /\ yystos[to + 1] = yytranslate[Kind(n)] /\ to \in States
  BY <1>2, <1>3, EdgesAssumption
<1>5. PICK f : Covers(f)
  BY DEF StackInv
<1>6. f[d] + 1 = n /\ <<Top, Within(n)>> \in Around
  BY <1>2, <1>5 DEF Covers
<1>7. Within(n) \in Contexts /\ Within(n + 1) \in Contexts
  BY <1>2, OpenerIs
<1>8. \A kinds \in SUBSET TokenKinds : IsKind(to, kinds) <=> Kind(n) \in kinds
  BY <1>2, <1>4, Translated DEF IsKind
<1> HIDE DEF to
<1>9. <<to, Within(n + 1)>> \in Around
  <2>1. Within(n + 1) \in Enters(e, Around)
    <3>0. e[1] = Top /\ e[2] = to
      OBVIOUS
    <3>1. CASE Kind(n) \in OpenKinds
      <4>1. Within(n + 1) = Kind(n) /\ IsKind(to, OpenKinds) /\ IsKind(to, {Kind(n)})
        BY <1>2, <1>8, <3>1, After, Translated
      <4> HIDE DEF e
      <4> QED
        BY <3>0, <3>1, <4>1 DEF Enters
    <3>2. CASE Kind(n) \in CloseKinds
      <4>1. IsKind(to, CloseKinds) /\ ~ IsKind(to, OpenKinds)
        BY <1>2, <1>8, <3>2, Translated
      <4> HIDE DEF e
      <4> QED
        BY <1>7, <3>0, <4>1 DEF Enters
    <3>3. CASE Kind(n) \notin OpenKinds \cup CloseKinds
      <4>1. ~ IsKind(to, CloseKinds) /\ ~ IsKind(to, OpenKinds)
        BY <1>2, <1>8, <3>3, Translated
      <4>2. Within(n + 1) = Within(n)
        BY <1>2, <3>3, After
      <4> HIDE DEF e
      <4> QED
        BY <1>6, <1>7, <3>0, <4>1, <4>2 DEF Enters
    <3> QED
      BY <3>1, <3>2, <3>3
  <2>2. {e[2]} \X Enters(e, Around) \subseteq Around
    BY <1>4, ContextsAssumption
  <2> QED
    BY <2>1, <2>2
<1>10. Consumed' = n /\ n' = n
  <2>1. n' = n
    BY <1>3, SameRead
  <2> QED
    BY <1>2, <1>3, <2>1 DEF Consumed
<1>11. Linked(to, f[d], Consumed', n)
  <2>1. f[d] = n - 1 /\ f[d] <= n
    BY <1>2, <1>6, <1>5 DEF Covers
  <2>2. IsToken(to)
    <3>1. yytranslate[Kind(n)] \in 0..YYNTOKENS - 1 /\ YYNTOKENS \in Nat
      BY <1>2, Translated DEF YYNTOKENS
    <3> QED
      BY <1>4, <3>1 DEF IsToken
  <2> QED
    BY <1>2, <1>4, <1>10, <2>1, <2>2 DEF Linked
<1>12. /\ states' = Append(states, to) /\ vals' = Append(vals, n)
       /\ yyresult' = "running" => to # YYFINAL
       /\ yyresult' = "ok" => to = YYFINAL
       /\ error' = Nil \/ error'[1] # "syntax error"
  BY <1>1, <1>3, PushResult DEF Answered
<1>13. Typed' /\ (\E g : Covers(g)') /\ Top' = to /\ Len(states') = d + 1
  <2>1. states = SubSeq(states, 1, d) /\ vals = SubSeq(vals, 1, d)
    BY <1>1 DEF Typed
  <2>2. d \in 1..Len(states) /\ Consumed' >= Consumed
    BY <1>2, <1>10
  <2>3. <<states[d], to>> \in Edges /\ <<to, Within(Consumed' + 1)>> \in Around
    BY <1>2, <1>4, <1>9, <1>10
  <2> HIDE DEF d
  <2> QED
    BY <1>1, <1>2, <1>3, <1>4, <1>5, <1>11, <1>12, <2>1, <2>2, <2>3, PushStack
<1>14. Can(Within(n), Before(n), Kind(n)) /\ <<to, Before(n + 1), Unread>> \in Situations
  <2> DEFINE q == <<Top, Before(n), Kind(n)>>
  <2>1. q \in Situations /\ q[1] = Top /\ q[2] = Before(n) /\ q[3] = Kind(n) /\ Kind(n) # Unread
    BY <1>1, <1>2, Translated DEF Known, Ahead
  <2>2. Before(n + 1) = LeftBy(Kind(n))
    BY <1>2, After
  <2> HIDE DEF q
  <2>3. Can(Within(n), Before(n), Kind(n))
    BY <1>3, <1>6, <1>7, <2>1, SituationsAssumption DEF to
  <2>4. <<to, LeftBy(Kind(n)), Unread>> \in Steps(q)
    BY <1>3, <2>1 DEF Steps, to
  <2> QED
    BY <2>1, <2>2, <2>3, <2>4, SituationsAssumption
<1>15. Told'
  <2>1. \A i \in 1..n : May(i)
    <3> TAKE i \in 1..n
    <3>1. i \in 1..Consumed \/ i = n
      BY <1>2
    <3> QED
      BY <1>1, <1>14, <3>1 DEF Told, May
  <2>2. \A i : May(i)' = May(i)
    BY <1>3, SameRead
  <2> QED
    BY <1>10, <2>1, <2>2 DEF Told
<1>16. Known'
  <2>1. Ahead' = Unread
    BY <1>3 DEF Ahead
  <2>2. Before(Consumed + 1)' = Before(n + 1)
    <3>1. \A i : Before(i)' = Before(i)
      BY <1>3, SameRead
    <3> QED
      BY <1>10, <3>1
  <2> QED
    BY <1>13, <1>14, <2>1, <2>2 DEF Known
<1>17. Answered'
  <2>1. Kind(n)' = Kind(n)
    BY <1>3, <1>10, SameRead
  <2>2. to = YYFINAL => Kind(n) = "EOF"
    BY <1>2, <1>4, Translated
  <2>3. yyresult' = "ok" => n' # 0 /\ look' = << >> /\ Kind(n)' = "EOF"
    <3>1. SUFFICES ASSUME yyresult' = "ok" PROVE n' # 0 /\ look' = << >> /\ Kind(n)' = "EOF"
      OBVIOUS
    <3>2. to = YYFINAL
      BY <1>12, <3>1
    <3>3. Kind(n)' = "EOF"
      BY <2>1, <2>2, <3>2
    <3>4. n' # 0
      BY <1>2, <1>10
    <3> QED
      BY <1>3, <3>3, <3>4
  <2>4. yyresult' = "running" => Top' # YYFINAL
    BY <1>12, <1>13
  <2> QED
    BY <1>12, <2>3, <2>4 DEF Answered
<1> QED
  BY <1>13, <1>15, <1>16, <1>17 DEF StackInv

LEMMA ReduceStack ==
  ASSUME StackInv, Ready, Shifts = 0, yyn # 0, Goto
  PROVE  LET len == yyr2[yyn + 1] IN
           /\ StackInv'
           /\ len \in 0..5 /\ len < Len(states) /\ Len(states') = Len(states) - len + 1
           /\ Top' = GotoOn(states[Len(states) - len], Lhs(yyn))
           /\ Top' \in States /\ yystos[Top' + 1] = yyr1[yyn + 1]
           /\ <<states[Len(states) - len], Top'>> \in Edges
           /\ states[Len(states) - len] \in Under(Edges, Top, len)
<1> DEFINE r == yyn
           len == yyr2[r + 1]
           d == Len(states) - len
           to == GotoOn(states[d], Lhs(r))
           v == IF len = 0 THEN 0 ELSE vals[Len(vals) + 1 - len]
           e == <<states[d], to>>
<1>1. Typed /\ Told /\ Known /\ Answered /\ yyresult = "running" /\ Top # YYFINAL
  BY DEF StackInv, Ready, Answered
<1>2. /\ PlacesOK /\ n \in Nat /\ Consumed \in 0..n /\ Top \in States /\ Len(states) \in Nat \ {0}
      /\ Consumed + 1 \in 1..n + 1
  BY <1>1, TypedFacts
<1>3. PICK f : Covers(f)
  BY DEF StackInv
<1>4. /\ len \in 0..5 /\ len < Len(states)
      /\ \A k \in 0..len : states[Len(states) - k] \in Under(Edges, Top, k)
      /\ opens[Consumed + 1] = opens[f[d] + 1]
  BY <1>1, <1>3, Popped, Balanced DEF yyn
<1>5. r \in 2..39 /\ r = yydefact[Top + 1]
  BY <1>1, <1>2, EdgesAssumption DEF yyn
<1>6. d \in 1..Len(states) /\ len \in 0..len /\ states[d] \in Under(Edges, Top, len)
      /\ states[d] \in States
  <2> HIDE DEF len
  <2>1. d \in 1..Len(states) /\ len \in 0..len
    BY <1>2, <1>4
  <2>2. states[d] \in Under(Edges, Top, len)
    BY <1>4, <2>1
  <2>3. states[d] \in States
    <3> HIDE DEF d
    <3> QED
      BY <1>1, <2>1 DEF Typed
  <2> QED
    BY <2>1, <2>2, <2>3
<1>7. /\ e \in Edges /\ yystos[to + 1] = yyr1[r + 1] /\ to \in States
  <2>1. e \in Edges /\ yystos[to + 1] = yyr1[r + 1]
    BY <1>1, <1>2, <1>5, <1>6, EdgesAssumption DEF yyn
  <2>2. to \in States
    BY <2>1, EdgesAssumption
  <2> QED
    BY <2>1, <2>2
<1>8. yyr1[r + 1] \in YYNTOKENS + 1..42
  BY <1>5 DEF yyr1, YYNTOKENS
<1>9. /\ look' = look /\ read' = read
      /\ Push(to, v, SubSeq(states, 1, d), SubSeq(vals, 1, d))
  <2>1. SubSeq(vals, 1, Len(vals) - len) = SubSeq(vals, 1, d)
    BY <1>1 DEF Typed
  <2>2. SubSeq(states, 1, d)[d] = states[d] /\ Len(SubSeq(states, 1, d)) = d
    <3>1. d \in 0..Len(states) /\ states \in Seq(States) /\ d \in 1..d
      BY <1>1, <1>2, <1>6 DEF Typed
    <3> QED
      BY <3>1, PrefixOf
  <2>3. Last(SubSeq(states, 1, d)) = states[d]
    BY <2>2 DEF Last
  <2> QED
    BY <2>1, <2>3 DEF Goto
<1>10. /\ states' = Append(SubSeq(states, 1, d), to) /\ vals' = Append(SubSeq(vals, 1, d), v)
       /\ yyresult' = "running" => to # YYFINAL
       /\ yyresult' = "ok" => to = YYFINAL
       /\ error' = Nil \/ error'[1] # "syntax error"
  <2>1. error = Nil \/ error[1] # "syntax error"
    BY <1>1 DEF Answered
  <2>2. PICK a, b : a = SubSeq(states, 1, d) /\ b = SubSeq(vals, 1, d)
    OBVIOUS
  <2>3. PICK s, x : s = to /\ x = v
    OBVIOUS
  <2>4. Push(s, x, a, b)
    <3> HIDE DEF to, v, d
    <3> QED
      BY <1>9, <2>2, <2>3
  <2> HIDE DEF to, v, d
  <2>5. /\ states' = Append(a, s) /\ vals' = Append(b, x)
        /\ yyresult' = "running" => s # YYFINAL
        /\ yyresult' = "ok" => s = YYFINAL
        /\ error' = Nil \/ error'[1] # "syntax error"
    BY <2>1, <2>4, PushResult
  <2> QED
    BY <2>2, <2>3, <2>5
<1>11. Consumed' = Consumed /\ n' = n /\ Ahead' = Ahead
  <2>1. n' = n /\ \A i : Kind(i)' = Kind(i)
    BY <1>9, SameRead
  <2> QED
    BY <1>9, <2>1 DEF Consumed, Ahead
<1>12. f[d] \in 0..n /\ f[d] <= Consumed /\ <<states[d], Within(f[d] + 1)>> \in Around
  <2>1. f[d] \in Nat
    BY <1>3, <1>6 DEF Covers
  <2>2. f[d] <= Consumed /\ <<states[d], Within(f[d] + 1)>> \in Around
    BY <1>3, <1>6 DEF Covers
  <2> QED
    BY <1>2, <2>1, <2>2
<1>13. ~ IsToken(to) /\ ~ IsKind(to, OpenKinds) /\ ~ IsKind(to, CloseKinds) /\ to # YYFINAL
  <2>1. YYNTOKENS \in Nat
    BY DEF YYNTOKENS
  <2>2. ~ IsToken(to)
    BY <1>7, <1>8, <2>1 DEF IsToken
  <2>3. \A k \in OpenKinds \cup CloseKinds : yytranslate[k] # yystos[to + 1]
    BY <1>7, <1>8, <2>1, Translated
  <2>4. to # YYFINAL
    BY <1>7, <1>8, <2>1, Translated
  <2> QED
    BY <2>2, <2>3, <2>4 DEF IsKind
<1>14. yystos[to + 1] = StringSymbol => v = f[d] + 1
  <2>1. SUFFICES ASSUME yyr1[r + 1] = StringSymbol PROVE v = f[d] + 1
    BY <1>7
  <2>2. len \in {1, 2} /\ r \in {21, 22}
    BY <1>5, <2>1 DEF yyr1, yyr2, StringSymbol
  <2>3. d + 1 \in 2..Len(states) /\ Len(vals) + 1 - len = d + 1 /\ (d + 1) - 1 = d
        /\ d + 1 \in 1..Len(states) /\ Len(states) - (len - 1) = d + 1 /\ len - 1 \in 0..len
    <3> HIDE DEF len, v, r
    <3> QED
      BY <1>1, <1>2, <1>4, <1>6, <2>2 DEF Typed
  <2>4. Linked(states[d + 1], f[d], f[d + 1], vals[d + 1])
    BY <1>3, <2>3 DEF Covers
  <2>5. states[d + 1] \in Under(Edges, Top, len - 1)
    BY <1>4, <2>3
  <2>6. IsToken(states[d + 1]) \/ yystos[states[d + 1] + 1] = StringSymbol
    <3>1. yyr1[22] = StringSymbol
      BY DEF yyr1, StringSymbol
    <3>2. yydefact[Top + 1] \in {21, 22}
      BY <1>5, <2>2
    <3>3. states[d + 1] \in Under(Edges, Top, yyr2[yydefact[Top + 1] + 1] - 1)
      BY <1>5, <2>5
    <3> HIDE DEF d
    <3> QED
      BY <1>2, <3>1, <3>2, <3>3, StringsAssumption
  <2>7. v = vals[d + 1]
    BY <2>2, <2>3
  <2> HIDE DEF v
  <2> QED
    BY <2>4, <2>6, <2>7 DEF Linked
<1> HIDE DEF to, v, len, d, r
<1>15. Linked(to, f[d], Consumed', v) /\ <<to, Within(Consumed' + 1)>> \in Around
  <2>1. Within(Consumed + 1) = Within(f[d] + 1) /\ Within(Consumed + 1) \in Contexts
    <3>1. Opener(Consumed + 1) = Opener(f[d] + 1)
      BY <1>4 DEF Opener
    <3> QED
      BY <1>2, <3>1, OpenerIs DEF Within
  <2>2. Within(Consumed + 1) \in Enters(e, Around)
    <3>1. e[1] = states[d] /\ e[2] = to
      OBVIOUS
    <3> HIDE DEF e
    <3> QED
      BY <1>12, <1>13, <2>1, <3>1 DEF Enters
  <2>3. {e[2]} \X Enters(e, Around) \subseteq Around
    BY <1>7, ContextsAssumption
  <2>4. <<to, Within(Consumed + 1)>> \in Around
    BY <2>2, <2>3
  <2>5. Linked(to, f[d], Consumed, v)
    BY <1>4, <1>12, <1>13, <1>14 DEF Linked
  <2> QED
    BY <1>11, <2>4, <2>5
<1>16. v \in Nat
  <2>1. len # 0 => Len(vals) + 1 - len \in 1..Len(vals)
    BY <1>1, <1>2, <1>4 DEF Typed
  <2> QED
    BY <1>1, <2>1 DEF Typed, v
<1>17. Typed' /\ (\E g : Covers(g)') /\ Top' = to /\ Len(states') = d + 1
  <2>1. Consumed' >= Consumed
    BY <1>2, <1>11
  <2>2. <<states[d], to>> \in Edges
    BY <1>7
  <2> QED
    BY <1>1, <1>3, <1>6, <1>7, <1>9, <1>10, <1>15, <1>16, <2>1, <2>2, PushStack
<1>18. Told'
  <2>1. \A i : May(i)' = May(i)
    BY <1>9, SameRead
  <2> QED
    BY <1>1, <1>11, <2>1 DEF Told
<1>19. Known'
  <2> DEFINE q == <<Top, Before(Consumed + 1), Ahead>>
  <2>1. q \in Situations /\ q[1] = Top /\ q[2] = Before(Consumed + 1) /\ q[3] = Ahead
    BY <1>1 DEF Known
  <2>2. ~ (~ Decides(q[1]) /\ q[3] = Unread)
    <3>1. look # << >> => Ahead # Unread
      <4>1. look # << >> => Ahead \in TokenKinds
        BY <1>1, TypedFacts DEF Ahead, PlacesOK
      <4> QED
        BY <4>1, Translated
    <3> QED
      BY <2>1, <3>1 DEF Ready, Decided
  <2>3. (IF q[3] = Unread THEN 0 ELSE ShiftOn(Top, q[3])) = 0
    <3>1. look # << >> => ShiftOn(Top, Kind(n)) = 0
      BY <1>1, TypedFacts DEF Shifts
    <3> QED
      BY <2>1, <3>1 DEF Ahead
  <2>4. e \in Reduced(Edges, Top) /\ e[2] = to
    <3>1. yydefact[Top + 1] # 0 /\ Top # YYFINAL /\ r = yydefact[Top + 1]
      BY <1>1, <1>5
    <3>2. states[d] \in Under(Edges, Top, yyr2[yydefact[Top + 1] + 1])
      BY <1>6, <3>1 DEF len
    <3>3. e = <<states[d], GotoOn(states[d], Lhs(yydefact[Top + 1]))>> /\ e[2] = to
      BY <3>1 DEF to
    <3> HIDE DEF e
    <3> QED
      BY <3>1, <3>2, <3>3 DEF Reduced
  <2> HIDE DEF q, e
  <2>5. <<to, q[2], q[3]>> \in Steps(q)
    BY <2>1, <2>2, <2>3, <2>4 DEF Steps
  <2>6. <<to, q[2], q[3]>> \in Situations
    BY <2>1, <2>5, SituationsAssumption
  <2>7. Before(Consumed + 1)' = Before(Consumed + 1)
    <3>1. \A i : Before(i)' = Before(i)
      BY <1>9, SameRead
    <3> QED
      BY <1>11, <3>1
  <2> QED
    BY <1>11, <1>17, <2>1, <2>6, <2>7 DEF Known
<1>20. Answered'
  BY <1>10, <1>13, <1>17 DEF Answered
<1>21. StackInv'
  BY <1>17, <1>18, <1>19, <1>20 DEF StackInv
<1>22. Len(states') = Len(states) - len + 1
  BY <1>17 DEF d
<1> QED
  BY <1>4, <1>6, <1>7, <1>17, <1>21, <1>22 DEF to, len, d, r

LEMMA AbortStack ==
  ASSUME StackInv, yyresult = "running", NEW text, Abort(text),
         text = "syntax error" => n # 0 /\ ~ May(n)
  PROVE  StackInv'
<1>1. /\ UNCHANGED <<states, vals, look, read>> /\ yyresult' = "error"
      /\ error' = IF error = Nil THEN <<text, n>> ELSE error
  BY DEF Abort, Report, engine, n
<1>2. error = Nil \/ error[1] # "syntax error"
  BY DEF StackInv, Answered
<1>3. n' = n /\ \A i : May(i)' = May(i)
  BY <1>1, SameRead
<1>4. May(n)' = May(n)
  BY <1>3
<1>5. error' # Nil /\ error'[1] = "syntax error" => n # 0 /\ ~ May(n) /\ error'[2] = n
  <2>1. CASE error = Nil
    <3>1. error'[1] = text /\ error'[2] = n
      BY <1>1, <2>1
    <3> QED
      BY <3>1
  <2>2. CASE error # Nil
    BY <1>1, <1>2, <2>2
  <2> QED
    BY <2>1, <2>2
<1>6. Answered'
  BY <1>1, <1>3, <1>4, <1>5 DEF Answered
<1> QED
  BY <1>1, <1>6, StackSame

\* A syntax error is one.
LEMMA RefusedToken ==
  ASSUME StackInv, Ready, Shifts = 0, yyn = 0
  PROVE  look # << >> /\ n # 0 /\ ~ May(n)
<1>1. Typed /\ Known
  BY DEF StackInv
<1>2. Top \in States /\ PlacesOK /\ n \in Nat
  BY <1>1, TypedFacts
<1>3. ~ Decides(Top)
  BY <1>2, EdgesAssumption DEF yyn
<1>4. look # << >>
  BY <1>3 DEF Ready, Decided
<1>5. /\ look[1] = n /\ n \in 1..n /\ n = Consumed + 1 /\ read[look[1]].kind = Kind(n)
      /\ Consumed \in 0..n
  BY <1>1, <1>4, TypedFacts
<1>6. ShiftOn(Top, Kind(n)) = 0 /\ Ahead = Kind(n) /\ Kind(n) \in TokenKinds /\ Kind(n) # Unread
  BY <1>2, <1>4, <1>5, Translated DEF Shifts, Ahead, PlacesOK
<1>7. <<Top, Within(n)>> \in Around
  <2>1. PICK e : Covers(e)
    BY DEF StackInv
  <2>2. Len(states) \in 1..Len(states) /\ Top = states[Len(states)]
    BY <1>1, TypedFacts
  <2> QED
    BY <1>5, <2>1, <2>2 DEF Covers
<1>8. Within(n) \in Contexts
  BY <1>2, <1>5, OpenerIs
<1> DEFINE q == <<Top, Before(n), Kind(n)>>
<1>9. q \in Situations /\ q[1] = Top /\ q[2] = Before(n) /\ q[3] = Kind(n)
  BY <1>1, <1>5, <1>6 DEF Known
<1> HIDE DEF q
<1>10. ~ Can(Within(n), Before(n), Kind(n))
  BY <1>3, <1>6, <1>7, <1>8, <1>9, SituationsAssumption DEF yyn
<1> QED
  BY <1>4, <1>5, <1>10 DEF May

LEMMA AllTokens == \A t \in Tokens \cup {EOF} : t \in TokenSet
<1>1. "EOF" \in TokenKinds /\ Kinds \subseteq TokenKinds
  BY Translated, KindsAssumption
<1> QED
  BY <1>1 DEF Tokens, EOF, Symbol, TokenSet

LEMMA NextStack == StackInv /\ [ParserNext]_parserVars => StackInv'
<1> SUFFICES ASSUME StackInv, [ParserNext]_parserVars PROVE StackInv'
  OBVIOUS
<1>1. ASSUME Lex PROVE StackInv'
  <2>1. PICK t \in Tokens \cup {EOF} : Receive(t)
    BY <1>1 DEF Lex
  <2> QED
    BY <2>1, AllTokens, ReceiveStack
<1>2. ASSUME Shift PROVE StackInv'
  BY <1>2, ShiftStack
<1>3. ASSUME SyntaxError PROVE StackInv'
  <2>1. Ready /\ Shifts = 0 /\ yyn = 0 /\ Abort("syntax error") /\ yyresult = "running"
    BY <1>3 DEF SyntaxError, Ready
  <2>2. n # 0 /\ ~ May(n)
    BY <2>1, RefusedToken
  <2> QED
    BY <2>1, <2>2, AbortStack
<1>4. ASSUME NEW rules, Reduces(rules), Goto PROVE StackInv'
  <2>1. Ready /\ Shifts = 0 /\ yyn # 0
    BY <1>4 DEF Reduces
  <2> QED
    BY <1>4, <2>1, ReduceStack
<1>5. ASSUME NEW rules, Reduces(rules), NEW text, Abort(text), text # "syntax error"
      PROVE  StackInv'
  <2>1. yyresult = "running"
    BY <1>5 DEF Reduces, Ready
  <2> QED
    BY <1>5, <2>1, AbortStack
<1>6. ASSUME Declare PROVE StackInv'
  <2>1. Reduces({11}) /\ Goto
    BY <1>6 DEF Declare
  <2> QED
    BY <1>4, <2>1
<1>7. ASSUME DuplicateName PROVE StackInv'
  <2>1. Reduces({11}) /\ Abort("duplicate setting name")
    BY <1>7 DEF DuplicateName
  <2>2. "duplicate setting name" # "syntax error"
    OBVIOUS
  <2> QED
    BY <1>5, <2>1, <2>2
<1>8. ASSUME StartAggregate PROVE StackInv'
  <2>1. Reduces({13, 15, 38}) /\ Goto
    BY <1>8 DEF StartAggregate
  <2> QED
    BY <1>4, <2>1
<1>9. ASSUME EndAggregate PROVE StackInv'
  <2>1. Reduces({14, 16, 39}) /\ Goto
    BY <1>9 DEF EndAggregate
  <2> QED
    BY <1>4, <2>1
<1>10. ASSUME JoinString PROVE StackInv'
  <2>1. Reduces({21, 22}) /\ Goto
    BY <1>10 DEF JoinString
  <2> QED
    BY <1>4, <2>1
<1>11. ASSUME ScalarValue PROVE StackInv'
  <2>1. Reduces(23..28) /\ Goto
    BY <1>11 DEF ScalarValue
  <2> QED
    BY <1>4, <2>1
<1>12. ASSUME StringValue PROVE StackInv'
  <2>1. Reduces({29}) /\ Goto
    BY <1>12 DEF StringValue
  <2> QED
    BY <1>4, <2>1
<1>13. ASSUME Mismatch PROVE StackInv'
  <2>1. Reduces(23..29) /\ Abort("mismatched element type in array")
    BY <1>13 DEF Mismatch
  <2>2. "mismatched element type in array" # "syntax error"
    OBVIOUS
  <2> QED
    BY <1>5, <2>1, <2>2
<1>14. ASSUME NoAction PROVE StackInv'
  <2>1. Reduces((1..39) \ ({11, 13, 14, 15, 16, 38, 39} \cup 21..29)) /\ Goto
    BY <1>14 DEF NoAction
  <2> QED
    BY <1>4, <2>1
<1>15. ASSUME UNCHANGED parserVars PROVE StackInv'
  <2>1. UNCHANGED <<states, vals, look, read, yyresult, error>>
    BY <1>15 DEF parserVars, engine
  <2>2. n' = n /\ \A i : May(i)' = May(i) /\ Kind(i)' = Kind(i)
    BY <2>1, SameRead
  <2>3. May(n)' = May(n) /\ Kind(n)' = Kind(n) /\ Top' = Top
    BY <2>1, <2>2 DEF Top
  <2>4. Answered'
    BY <2>1, <2>2, <2>3 DEF StackInv, Answered
  <2> QED
    BY <2>1, <2>4, StackSame
<1> QED
  BY <1>1, <1>2, <1>3, <1>6, <1>7, <1>8, <1>9, <1>10, <1>11, <1>12, <1>13, <1>14, <1>15
  DEF ParserNext, Step, ParserDone

LEMMA StackInductive == ParserSpec => []StackInv
  BY InitStack, NextStack, PTL DEF ParserSpec

LEMMA AlwaysLanguage ==
  ASSUME StackInv
  PROVE  Language
<1>1. Typed /\ Told /\ Answered
  BY DEF StackInv
<1>2. n \in Nat /\ Consumed \in 0..n /\ (look = << >> => Consumed = n)
      /\ (look # << >> => n = Consumed + 1)
  BY <1>1, TypedFacts
<1>3. \A i \in 1..n - 1 : May(i)
  BY <1>1, <1>2 DEF Told
<1>4. yyresult = "ok" => May(n) /\ Kind(n) = "EOF"
  <2>1. yyresult = "ok" => n # 0 /\ look = << >>
    BY <1>1 DEF Answered
  <2>2. n # 0 /\ Consumed = n => n \in 1..Consumed
    BY <1>2
  <2> QED
    BY <1>1, <1>2, <2>1, <2>2 DEF Told, Answered
<1> QED
  BY <1>1, <1>3, <1>4 DEF Language, Answered

\* The parser reads on exactly while what it has read may be the beginning of a
\* configuration, accepts only a configuration, and reports a syntax error at the
\* token that cannot follow: bison's tables are the grammar of the documentation, at
\* any nesting and any size of the stacks.
THEOREM ParsesTheLanguage == ParserSpec => []Language
<1>1. StackInv => Language
  BY AlwaysLanguage
<1> QED
  BY <1>1, StackInductive, PTL

(***************************************************************************)
(* The configuration the tokens stand for.                                 *)
(***************************************************************************)

Grouped(i) == Within(i) \in {"TOP", "GROUP_START"}
StartKinds == ScalarKinds \cup OpenKinds
Follows(i) == Kind(i) = "STRING" /\ Before(i) = "STRING"

\* What the language lets stand before a token, and behind it.
LEMMA Neighbours ==
  ASSUME PlacesOK, NEW i \in 1..n, May(i)
  PROVE  /\ Before(i) = IF i = 1 THEN "START" ELSE LeftBy(Kind(i - 1))
         /\ Kind(i) = "NAME" => Grouped(i)
         /\ Kind(i) = "EQUALS" => i # 1 /\ Kind(i - 1) = "NAME" /\ Grouped(i)
         /\ i # 1 /\ Kind(i - 1) = "NAME" => Kind(i) = "EQUALS"
         /\ i # 1 /\ Kind(i - 1) = "EQUALS" => Kind(i) \in StartKinds /\ Grouped(i)
         /\ Kind(i) \in StartKinds /\ ~ Follows(i) /\ Grouped(i) => i # 1 /\ Kind(i - 1) = "EQUALS"
         /\ Kind(i) \in OpenKinds => Within(i) # "ARRAY_START"
         /\ Kind(i) \in CloseKinds => Opener(i) # 0
<1>1. n \in Nat /\ i \in Nat /\ i # 0 /\ Kind(i) \in TokenKinds /\ i \in 1..n + 1
  BY DEF PlacesOK
<1>2. Within(i) \in Contexts /\ (Within(i) = "TOP" <=> Opener(i) = 0) /\ Opener(i) \in 0..i - 1
  BY <1>1, OpenerIs
<1>3. Before(i) = IF i = 1 THEN "START" ELSE LeftBy(Kind(i - 1))
  <2>1. CASE i = 1
    <3>1. Opener(i) = 0 /\ i - 1 = 0
      BY <1>2, <2>1
    <3> QED
      BY <2>1, <3>1 DEF Before
  <2>2. CASE i # 1
    <3>1. i - 1 \in 1..n /\ (i - 1) + 1 = i
      BY <1>1, <2>2
    <3>2. Before((i - 1) + 1) = LeftBy(Kind(i - 1))
      BY <3>1, After
    <3> QED
      BY <2>2, <3>1, <3>2
  <2> QED
    BY <2>1, <2>2
<1>4. i # 1 => Kind(i - 1) \in TokenKinds
  BY <1>1 DEF PlacesOK
<1>5. Can(Within(i), Before(i), Kind(i))
  BY DEF May
<1>6. Ender[Within(i)] \in {"EOF", "ARRAY_END", "LIST_END", "GROUP_END"}
      /\ (Ender[Within(i)] = "EOF" => Within(i) = "TOP")
  BY <1>2 DEF Ender, Contexts, OpenKinds
<1> DEFINE w == Within(i)
           b == Before(i)
           kind == Kind(i)
<1>7. w \in {"TOP", "ARRAY_START", "LIST_START", "GROUP_START"}
  BY <1>2 DEF Contexts, OpenKinds
<1> HIDE DEF w, b, kind
<1>8. /\ kind = "NAME" => w \in {"TOP", "GROUP_START"}
      /\ kind = "EQUALS" => b = "NAME" /\ w \in {"TOP", "GROUP_START"}
      /\ b = "NAME" => kind = "EQUALS"
      /\ b = "EQUALS" => kind \in StartKinds /\ w \in {"TOP", "GROUP_START"}
      /\ kind \in StartKinds /\ ~ (kind = "STRING" /\ b = "STRING") /\ w \in {"TOP", "GROUP_START"}
           => b = "EQUALS"
      /\ kind \in OpenKinds => w # "ARRAY_START"
      /\ kind \in CloseKinds => w # "TOP"
  <2>1. Can(w, b, kind)
    BY <1>5 DEF w, b, kind
  <2>2. Ender[w] \in {"EOF", "ARRAY_END", "LIST_END", "GROUP_END"} /\ (Ender[w] = "EOF" => w = "TOP")
        /\ (w = "TOP" => Ender[w] = "EOF")
    BY <1>6, <1>7 DEF w, Ender
  <2> QED
    BY <1>7, <2>1, <2>2 DEF Can, StartKinds, ScalarKinds, OpenKinds, CloseKinds
<1>9. \A k \in TokenKinds : /\ LeftBy(k) = "NAME" <=> k = "NAME"
                            /\ LeftBy(k) = "EQUALS" <=> k = "EQUALS"
  BY DEF LeftBy, OpenKinds
<1>10. b = "NAME" <=> i # 1 /\ Kind(i - 1) = "NAME"
  BY <1>3, <1>4, <1>9 DEF b
<1>11. b = "EQUALS" <=> i # 1 /\ Kind(i - 1) = "EQUALS"
  BY <1>3, <1>4, <1>9 DEF b
<1> QED
  BY <1>2, <1>3, <1>8, <1>10, <1>11 DEF Grouped, Follows, w, b, kind

\* Every bracket has one token that brings what it is the value of.
LEMMA Owners ==
  ASSUME PlacesOK, NEW o \in 1..n, Kind(o) \in OpenKinds, \A i \in 1..o : May(i)
  PROVE  /\ Owner(o) \in 1..o /\ Bears(Owner(o)) /\ ValueAt(Owner(o)) = o
         /\ Opener(Owner(o)) = Opener(o) /\ Within(Owner(o)) = Within(o)
<1>1. n \in Nat /\ o \in Nat /\ o # 0 /\ o \in 1..n + 1 /\ Kind(o) # "NAME" /\ Kind(o) # "STRING"
  BY DEF PlacesOK, OpenKinds
<1>2. May(o)
  BY <1>1
<1>3. CASE Within(o) = "LIST_START"
  <2>1. Owner(o) = o
    BY <1>3 DEF Owner
  <2> QED
    BY <1>1, <1>3, <2>1 DEF Bears, ValueAt
<1>4. CASE Within(o) # "LIST_START"
  <2>1. Grouped(o)
    <3>1. Within(o) # "ARRAY_START" /\ Within(o) \in Contexts
      BY <1>1, <1>2, Neighbours, OpenerIs
    <3> QED
      BY <1>4, <3>1 DEF Contexts, OpenKinds, Grouped
  <2>2. o # 1 /\ Kind(o - 1) = "EQUALS"
    BY <1>1, <1>2, <2>1, Neighbours DEF StartKinds, Follows
  <2>3. o - 1 \in 1..n /\ May(o - 1) /\ (o - 1) + 1 = o /\ (o - 1) - 1 = o - 2
    BY <1>1, <2>2
  <2>4. o - 1 # 1 /\ Kind(o - 2) = "NAME"
    BY <2>2, <2>3, Neighbours
  <2>5. o - 2 \in 1..n /\ (o - 2) + 1 = o - 1 /\ (o - 2) + 2 = o /\ o - 2 \in 1..o
    BY <1>1, <2>2, <2>4
  <2>6. Opener((o - 2) + 1) = Opener(o - 2) /\ Within((o - 2) + 1) = Within(o - 2)
    BY <2>4, <2>5, After DEF OpenKinds, CloseKinds
  <2>7. Opener((o - 1) + 1) = Opener(o - 1) /\ Within((o - 1) + 1) = Within(o - 1)
    BY <2>2, <2>3, After DEF OpenKinds, CloseKinds
  <2>8. Owner(o) = o - 2
    BY <1>1, <1>4 DEF Owner
  <2> QED
    BY <2>3, <2>4, <2>5, <2>6, <2>7, <2>8 DEF Bears, ValueAt
<1> QED
  BY <1>3, <1>4

LEMMA OwnersDiffer ==
  ASSUME PlacesOK, NEW d \in 0..n, \A i \in 1..d : May(i),
         NEW a \in 0..d, NEW b \in 0..d, a # 0 => Kind(a) \in OpenKinds,
         b # 0 => Kind(b) \in OpenKinds, Owner(a) = Owner(b)
  PROVE  a = b
<1>1. Owner(0) = 0 /\ n \in Nat
  BY DEF Owner, PlacesOK
<1>2. \A o \in 1..d : Kind(o) \in OpenKinds => Owner(o) \in 1..o /\ ValueAt(Owner(o)) = o
  <2> TAKE o \in 1..d
  <2>1. o \in 1..n /\ \A i \in 1..o : May(i)
    BY <1>1
  <2> QED
    BY <2>1, Owners
<1> QED
  BY <1>1, <1>2

Named == \A i \in 1..n : Kind(i) = "NAME" <=> read[i].name # Nil
Nested == \A i \in 1..n + 1 : opens[i] # << >> => opens[i] = Append(opens[Opener(i)], Opener(i))

\* f is what pathOf is meant to be.
Paths(f) ==
  /\ f \in [0..n -> Seq(Nat)] /\ f[0] = << >>
  /\ \A i \in 1..n : f[i] = Append(f[Owner(Opener(i))], Cardinality(Elements(Opener(i), i)))

LEMMA ElementsFinite ==
  ASSUME NEW o, NEW i \in Nat
  PROVE  IsFiniteSet(Elements(o, i)) /\ Cardinality(Elements(o, i)) \in Nat
<1>1. IsFiniteSet(1..i)
  BY FS_Interval
<1>2. IsFiniteSet(Elements(o, i))
  BY <1>1, FS_Subset DEF Elements
<1> QED
  BY <1>2, FS_CardinalityType

LEMMA OwnerBefore ==
  ASSUME PlacesOK, NEW i \in 1..n + 1, \A j \in 1..i - 1 : May(j)
  PROVE  Owner(Opener(i)) \in 0..i - 1
<1>1. Opener(i) \in 0..i - 1 /\ (Opener(i) # 0 => Opener(i) \in 1..n /\ Kind(Opener(i)) \in OpenKinds)
      /\ n \in Nat
  BY OpenerIs DEF PlacesOK
<1>2. CASE Opener(i) = 0
  BY <1>1, <1>2 DEF Owner
<1>3. CASE Opener(i) # 0
  <2>1. \A j \in 1..Opener(i) : May(j)
    BY <1>1
  <2>2. Owner(Opener(i)) \in 1..Opener(i)
    BY <1>1, <1>3, <2>1, Owners
  <2> QED
    BY <1>1, <2>2
<1> QED
  BY <1>2, <1>3

\* There is one such function, so pathOf is it.
LEMMA PathsAre ==
  ASSUME PlacesOK, NEW f, Paths(f), \A i \in 1..n - 1 : May(i)
  PROVE  pathOf = f
<1> DEFINE Body(g) == [i \in 0..n |->
                         IF i = 0 THEN << >>
                         ELSE Append(g[Owner(Opener(i))], Cardinality(Elements(Opener(i), i)))]
<1>1. pathOf = CHOOSE g : g = Body(g)
  BY DEF pathOf
<1>2. f = Body(f)
  <2>1. \A i \in 0..n : f[i] = Body(f)[i]
    <3> TAKE i \in 0..n
    <3>1. i = 0 \/ i \in 1..n
      BY DEF PlacesOK
    <3> QED
      BY <3>1 DEF Paths
  <2>2. f = [i \in 0..n |-> f[i]] /\ Body(f) = [i \in 0..n |-> Body(f)[i]]
    BY DEF Paths
  <2> HIDE DEF Body
  <2>3. [i \in 0..n |-> f[i]] = [i \in 0..n |-> Body(f)[i]]
    BY <2>1
  <2> QED
    BY <2>2, <2>3
<1>3. pathOf = Body(pathOf)
  <2> HIDE DEF Body
  <2> QED
    BY <1>1, <1>2
<1> PICK g : g = pathOf
  OBVIOUS
<1> DEFINE S == {k \in Nat : \A i \in 0..k : i <= n => g[i] = f[i]}
<1>4. g = [i \in 0..n |-> g[i]] /\ g[0] = << >> /\ n \in Nat
      /\ \A i \in 1..n : g[i] = Append(g[Owner(Opener(i))], Cardinality(Elements(Opener(i), i)))
  <2>1. g = Body(g) /\ n \in Nat
    BY <1>3 DEF PlacesOK
  <2>2. \A i \in 0..n : g[i] = IF i = 0 THEN << >>
                               ELSE Append(g[Owner(Opener(i))], Cardinality(Elements(Opener(i), i)))
    BY <2>1
  <2>3. g = [i \in 0..n |-> g[i]]
    BY <2>1
  <2>4. 0 \in 0..n /\ \A i \in 1..n : i \in 0..n /\ i # 0
    BY <2>1
  <2> QED
    BY <2>1, <2>2, <2>3, <2>4
<1>5. f = [i \in 0..n |-> f[i]] /\ f[0] = << >>
      /\ \A i \in 1..n : f[i] = Append(f[Owner(Opener(i))], Cardinality(Elements(Opener(i), i)))
  BY DEF Paths
<1>6. 0 \in S
  BY <1>4, <1>5
<1>7. ASSUME NEW k \in S PROVE k + 1 \in S
  <2>1. k \in Nat /\ k + 1 \in Nat /\ \A i \in 0..k : i <= n => g[i] = f[i]
    OBVIOUS
  <2>2. k + 1 <= n => g[k + 1] = f[k + 1]
    <3>1. SUFFICES ASSUME k + 1 <= n PROVE g[k + 1] = f[k + 1]
      OBVIOUS
    <3>2. k + 1 \in 1..n /\ k + 1 \in 1..n + 1 /\ \A j \in 1..(k + 1) - 1 : May(j)
      BY <1>4, <2>1, <3>1
    <3>3. Owner(Opener(k + 1)) \in 0..(k + 1) - 1
      BY <3>2, OwnerBefore
    <3>4. Owner(Opener(k + 1)) \in 0..k /\ Owner(Opener(k + 1)) <= n
      BY <1>4, <2>1, <3>1, <3>3
    <3>5. g[Owner(Opener(k + 1))] = f[Owner(Opener(k + 1))]
      BY <2>1, <3>4
    <3> QED
      BY <1>4, <1>5, <3>2, <3>5
  <2>3. \A i \in 0..k + 1 : i \in 0..k \/ i = k + 1
    BY <2>1
  <2>4. \A i \in 0..k + 1 : i <= n => g[i] = f[i]
    BY <2>1, <2>2, <2>3
  <2> QED
    BY <2>1, <2>4
<1>8. S = Nat
  <2>1. S \in SUBSET Nat
    OBVIOUS
  <2> HIDE DEF S
  <2> QED
    BY <1>6, <1>7, <2>1, SetInduction
<1>9. \A i \in 0..n : g[i] = f[i]
  <2> TAKE i \in 0..n
  <2>1. n \in S
    BY <1>4, <1>8
  <2> QED
    BY <1>4, <2>1
<1>10. [i \in 0..n |-> g[i]] = [i \in 0..n |-> f[i]]
  BY <1>9
<1> QED
  BY <1>4, <1>5, <1>10

LEMMA PlacesAlways == read \in Seq(TokenSet) => PlacesOK
  BY Places

LEMMA PlacesNext == (read \in Seq(TokenSet))' => PlacesOK'
  BY PlacesAlways, PTL

\* What is read later changes nothing of this.
LEMMA MorePlaces ==
  ASSUME read \in Seq(TokenSet), NEW t \in TokenSet, read' = Append(read, t)
  PROVE  /\ \A i \in 1..n : Bears(i)' = Bears(i) /\ ValueAt(i)' = ValueAt(i)
         /\ \A o \in 0..n : Owner(o)' = Owner(o)
         /\ \A o, i : i \in 0..n => Elements(o, i)' = Elements(o, i)
<1>1. /\ n' = n + 1 /\ n \in Nat
      /\ \A i \in 1..n : Kind(i)' = Kind(i)
      /\ \A i \in 1..n + 1 : Opener(i)' = Opener(i) /\ Within(i)' = Within(i) /\ Before(i)' = Before(i)
  BY MoreRead
<1>2. \A i \in 1..n : i \in 1..n + 1
  BY <1>1
<1>3. \A i \in 1..n : Bears(i)' = Bears(i) /\ ValueAt(i)' = ValueAt(i)
  BY <1>1, <1>2 DEF Bears, ValueAt
<1>4. \A o \in 0..n : Owner(o)' = Owner(o)
  <2> TAKE o \in 0..n
  <2>1. o = 0 \/ o \in 1..n + 1
    BY <1>1
  <2> QED
    BY <1>1, <2>1 DEF Owner
<1>5. ASSUME NEW o, NEW i \in 0..n PROVE Elements(o, i)' = Elements(o, i)
  <2>1. \A j \in 1..i : j \in 1..n /\ j \in 1..n + 1
    BY <1>1
  <2>2. \A j \in 1..i : (Bears(j)' <=> Bears(j)) /\ Opener(j)' = Opener(j)
    BY <1>1, <1>3, <2>1
  <2>3. \A j : j \in Elements(o, i)' <=> j \in Elements(o, i)
    BY <2>2 DEF Elements
  <2> QED
    BY <2>3 DEF Elements
<1> QED
  BY <1>3, <1>4, <1>5

LEMMA PathsMore ==
  ASSUME read \in Seq(TokenSet), NEW t \in TokenSet, read' = Append(read, t),
         \A i \in 1..n : May(i), NEW f, Paths(f)
  PROVE  \E g : Paths(g)' /\ \A i \in 0..n : g[i] = f[i]
<1>1. /\ read' \in Seq(TokenSet) /\ n' = n + 1 /\ n \in Nat
      /\ \A i \in 1..n + 1 : Opener(i)' = Opener(i)
  BY MoreRead
<1>2. PlacesOK
  BY Places
<1>3. f \in [0..n -> Seq(Nat)] /\ f[0] = << >>
      /\ \A i \in 1..n : f[i] = Append(f[Owner(Opener(i))], Cardinality(Elements(Opener(i), i)))
  BY DEF Paths
<1>4. \A i \in 1..n + 1 : /\ Opener(i) \in 0..n /\ Owner(Opener(i)) \in 0..i - 1
                         /\ Owner(Opener(i)) \in 0..n /\ Opener(i)' = Opener(i)
                         /\ Owner(Opener(i))' = Owner(Opener(i))
  <2> TAKE i \in 1..n + 1
  <2>1. \A j \in 1..i - 1 : May(j)
    BY <1>1
  <2>2. Owner(Opener(i)) \in 0..i - 1 /\ Opener(i) \in 0..i - 1
    BY <1>2, <2>1, OwnerBefore, OpenerIs
  <2>3. Opener(i) \in 0..n /\ Owner(Opener(i)) \in 0..n
    BY <1>1, <2>2
  <2>4. Owner(Opener(i))' = Owner(Opener(i))'
    OBVIOUS
  <2>5. \A o \in 0..n : Owner(o)' = Owner(o)
    BY MorePlaces
  <2> QED
    BY <1>1, <2>2, <2>3, <2>5
<1> PICK m : m = n + 1
  OBVIOUS
<1> PICK c : c = Cardinality(Elements(Opener(m), m)')
  OBVIOUS
<1> PICK a : a = Owner(Opener(m))
  OBVIOUS
<1> DEFINE g == [i \in 0..m |-> IF i = m THEN Append(f[a], c) ELSE f[i]]
<1>5. c \in Nat
  <2>1. m \in Nat
    BY <1>1
  <2>2. Elements(Opener(m), m)' = {j \in 1..m : Bears(j)' /\ Opener(j)' = Opener(m)'}
    BY DEF Elements
  <2>3. IsFiniteSet(1..m)
    BY <2>1, FS_Interval
  <2>4. IsFiniteSet(Elements(Opener(m), m)')
    BY <2>2, <2>3, FS_Subset
  <2> QED
    BY <2>4, FS_CardinalityType
<1>6. a \in 0..n /\ f[a] \in Seq(Nat) /\ m \in 1..n + 1
  BY <1>1, <1>3, <1>4
<1>7. Append(f[a], c) \in Seq(Nat)
  BY <1>5, <1>6
<1>8. g \in [0..m -> Seq(Nat)] /\ g[m] = Append(f[a], c) /\ \A i \in 0..n : g[i] = f[i]
  <2>1. m \in 0..m /\ \A i \in 0..m : i # m => i \in 0..n
    BY <1>1
  <2>2. \A i \in 0..n : i \in 0..m /\ i # m
    BY <1>1
  <2>3. \A i \in 0..m : (IF i = m THEN Append(f[a], c) ELSE f[i]) \in Seq(Nat)
    BY <1>3, <1>7, <2>1
  <2> QED
    BY <2>1, <2>2, <2>3
<1> HIDE DEF g
<1>9. \A i \in 1..m : g[i] = Append(g[Owner(Opener(i))'], Cardinality(Elements(Opener(i), i)'))
  <2> TAKE i \in 1..m
  <2>1. i \in 1..n + 1
    BY <1>1
  <2>2. Owner(Opener(i))' = Owner(Opener(i)) /\ Owner(Opener(i)) \in 0..n
    BY <1>4, <2>1
  <2>3. CASE i = m
    BY <1>8, <2>2, <2>3
  <2>4. CASE i # m
    <3>1. i \in 1..n /\ i \in 0..n /\ Opener(i)' = Opener(i)
      BY <1>1, <1>4, <2>1, <2>4
    <3>2. \A o : Elements(o, i)' = Elements(o, i)
      BY <3>1, MorePlaces
    <3>3. Elements(Opener(i), i)' = Elements(Opener(i), i)
      BY <3>1, <3>2
    <3> QED
      BY <1>3, <1>8, <2>2, <3>1, <3>3
  <2> QED
    BY <2>3, <2>4
<1>10. n' = m /\ 0 \in 0..n
  BY <1>1
<1>11. Paths(g)'
  BY <1>3, <1>8, <1>9, <1>10 DEF Paths
<1> QED
  BY <1>8, <1>11

LEMMA FrontOfAppend ==
  ASSUME NEW S, NEW s \in Seq(S), NEW e \in S
  PROVE  Front(Append(s, e)) = s
<1>1. Append(s, e) \in Seq(S) /\ Append(s, e) # << >> /\ Len(Append(s, e)) = Len(s) + 1 /\ Len(s) \in Nat
  OBVIOUS
<1>2. /\ Front(Append(s, e)) \in Seq(S) /\ Len(Front(Append(s, e))) = Len(Append(s, e)) - 1
      /\ \A i \in 1..Len(Append(s, e)) - 1 : Front(Append(s, e))[i] = Append(s, e)[i]
  BY <1>1, FrontOf
<1>3. Len(Front(Append(s, e))) = Len(s) /\ \A i \in 1..Len(s) : Front(Append(s, e))[i] = s[i]
  BY <1>1, <1>2
<1> QED
  BY <1>2, <1>3, SeqEqual

LEMMA NestedMore ==
  ASSUME read \in Seq(TokenSet), NEW t \in TokenSet, read' = Append(read, t), Nested
  PROVE  Nested'
<1>1. /\ read' \in Seq(TokenSet) /\ n' = n + 1 /\ n \in Nat
      /\ \A i \in 1..n + 1 : Opener(i)' = Opener(i) /\ opens'[i] = opens[i]
  BY MoreRead
<1>2. PlacesOK /\ PlacesOK'
  BY <1>1, Places, PlacesNext
<1> PICK m : m = n + 1
  OBVIOUS
<1>3. m \in 1..n' /\ m \in 1..n + 1 /\ n' = m
  BY <1>1
<1>4. opens'[m + 1] = Passed(opens[m], m, Kind(m)')
  BY <1>1, <1>2, <1>3 DEF PlacesOK, Passed
<1>5. \A i \in 1..n + 1 : opens[i] # << >> => opens[i] = Append(opens[Opener(i)], Opener(i))
                                              /\ Opener(i) \in 1..n + 1 /\ opens[Opener(i)] \in Seq(Nat)
  <2> SUFFICES ASSUME NEW i \in 1..n + 1, opens[i] # << >>
               PROVE  Opener(i) \in 1..n + 1 /\ opens[Opener(i)] \in Seq(Nat)
    BY DEF Nested
  <2>0. Opener(i) \in 1..n
    BY <1>2, OpenerIs
  <2>1. Opener(i) \in 1..n + 1
    BY <1>1, <2>0
  <2> QED
    BY <1>2, <2>1 DEF PlacesOK
<1>6. \A i \in 1..n + 1 : opens'[i] # << >> => opens'[i] = Append(opens'[Opener(i)'], Opener(i)')
  BY <1>1, <1>5
<1>7. opens'[m + 1] # << >> => opens'[m + 1] = Append(opens'[Last(opens'[m + 1])], Last(opens'[m + 1]))
  <2>0. opens[m] \in Seq(Nat) /\ m \in Nat
    BY <1>1, <1>2, <1>3 DEF PlacesOK
  <2>1. CASE Kind(m)' \in OpenKinds
    <3>1. opens'[m + 1] = Append(opens[m], m)
      BY <1>4, <2>1 DEF Passed
    <3>2. Last(Append(opens[m], m)) = m
      BY <2>0 DEF Last
    <3> QED
      BY <1>1, <1>3, <3>1, <3>2
  <2>2. CASE Kind(m)' \notin OpenKinds /\ Kind(m)' \in CloseKinds /\ opens[m] # << >>
    <3>1. opens'[m + 1] = Front(opens[m])
      BY <1>4, <2>2 DEF Passed
    <3> PICK o : o = Opener(m)
      OBVIOUS
    <3>2. opens[m] = Append(opens[o], o) /\ o \in 1..n + 1 /\ opens[o] \in Seq(Nat)
      BY <1>3, <1>5, <2>2
    <3>3. Front(Append(opens[o], o)) = opens[o]
      BY <3>2, FrontOfAppend
    <3>4. opens'[m + 1] = opens[o]
      BY <3>1, <3>2, <3>3
    <3>5. opens[o] # << >> => opens[o] = Append(opens[Opener(o)], Opener(o)) /\ Opener(o) = Last(opens[o])
                              /\ Opener(o) \in 1..n + 1
      BY <1>5, <3>2 DEF Opener
    <3> QED
      BY <1>1, <3>2, <3>4, <3>5
  <2>3. CASE Kind(m)' \notin OpenKinds /\ ~ (Kind(m)' \in CloseKinds /\ opens[m] # << >>)
    <3>1. opens'[m + 1] = opens[m]
      BY <1>4, <2>3 DEF Passed
    <3>2. opens[m] # << >> => opens[m] = Append(opens[Opener(m)], Opener(m)) /\ Opener(m) = Last(opens[m])
                              /\ Opener(m) \in 1..n + 1
      BY <1>3, <1>5 DEF Opener
    <3> QED
      BY <1>1, <3>1, <3>2
  <2> QED
    BY <2>1, <2>2, <2>3
<1>8. \A i \in {m + 1} : opens'[i] # << >> => Opener(i)' = Last(opens'[i])
  BY DEF Opener
<1>9. \A i \in 1..n' + 1 : i \in 1..n + 1 \/ i = m + 1
  BY <1>1, <1>3
<1>10. \A i \in 1..n' + 1 : opens'[i] # << >> => opens'[i] = Append(opens'[Opener(i)'], Opener(i)')
  BY <1>6, <1>7, <1>8, <1>9
<1> QED
  BY <1>10 DEF Nested

\* The tokens up to the d-th that bring settings.
Brought(d) == {i \in 1..d : Bears(i)}

Ground(f, d) == PlacesOK /\ Paths(f) /\ d \in 0..n /\ \A i \in 1..d : May(i)

\* The setting of token i, of which d tokens tell.
Right(t, f, i, d) ==
  IF ValueAt(i) > d THEN t[f[i]] = Setting(read[i].name, "NONE", i)
  ELSE \E last \in ValueAt(i)..d :
         /\ Kind(ValueAt(i)) = "STRING" => last < n /\ RunEnds(ValueAt(i), last)
         /\ t[f[i]] = SettingUpTo(i, last)

Planted(f, t, d) ==
  /\ DOMAIN t = {f[i] : i \in {0} \cup Brought(d)} /\ t = [q \in DOMAIN t |-> t[q]]
  /\ \A i, j \in {0} \cup Brought(d) : f[i] = f[j] => i = j
  /\ \A i \in Brought(d) : Append(f[Owner(Opener(i))], 1) \in DOMAIN t

\* Settings of one group have names of their own, those of one array one type.
Peers(f, t, d) ==
  \A i, j \in Brought(d) :
    i # j /\ Opener(i) = Opener(j) =>
      /\ Kind(i) = "NAME" => read[i] # read[j]
      /\ Within(i) = "ARRAY_START" => t[f[i]].type = t[f[j]].type

TreeUpTo(f, t, d) ==
  /\ Planted(f, t, d)
  /\ t[<< >>] = Setting(Nil, "GROUP", 0)
  /\ \A i \in Brought(d) : Right(t, f, i, d)
  /\ Peers(f, t, d)

LEMMA Nodes ==
  ASSUME NEW f, NEW d, Ground(f, d)
  PROVE  /\ n \in Nat /\ d \in Nat /\ d <= n /\ f[0] = << >> /\ Brought(d) \subseteq 1..d
         /\ \A i \in 1..n : i <= d + 1 =>
              /\ f[i] = Append(f[Owner(Opener(i))], Cardinality(Elements(Opener(i), i)))
              /\ f[i] \in Seq(Nat) /\ f[i] # << >> /\ Front(f[i]) = f[Owner(Opener(i))]
         /\ \A i \in 1..n + 1 : i <= d + 1 =>
              /\ Opener(i) \in 0..i - 1 /\ Opener(i) \in 0..d
              /\ Opener(i) # 0 => Kind(Opener(i)) \in OpenKinds
              /\ Owner(Opener(i)) \in {0} \cup Brought(d) /\ Owner(Opener(i)) \in 0..d
              /\ f[Owner(Opener(i))] \in Seq(Nat)
              /\ Opener(i) # 0 => Owner(Opener(i)) # 0 /\ ValueAt(Owner(Opener(i))) = Opener(i)
<1>1. PlacesOK /\ Paths(f) /\ n \in Nat /\ d \in Nat /\ d <= n /\ \A i \in 1..d : May(i)
  BY DEF Ground, PlacesOK
<1>2. f[0] = << >> /\ Brought(d) \subseteq 1..d
  BY <1>1 DEF Paths, Brought
<1>3. ASSUME NEW i \in 1..n + 1, i <= d + 1
      PROVE  /\ Opener(i) \in 0..i - 1 /\ Opener(i) \in 0..d
             /\ Opener(i) # 0 => Kind(Opener(i)) \in OpenKinds
             /\ Owner(Opener(i)) \in {0} \cup Brought(d) /\ Owner(Opener(i)) \in 0..d
             /\ f[Owner(Opener(i))] \in Seq(Nat)
             /\ Opener(i) # 0 => Owner(Opener(i)) # 0 /\ ValueAt(Owner(Opener(i))) = Opener(i)
  <2>1. /\ Opener(i) \in 0..i - 1
        /\ Opener(i) # 0 => Opener(i) \in 1..n /\ Kind(Opener(i)) \in OpenKinds
    BY <1>1, OpenerIs
  <2>2. Opener(i) \in 0..d
    BY <1>1, <1>3, <2>1
  <2>3. CASE Opener(i) = 0
    <3>1. Owner(Opener(i)) = 0 /\ << >> \in Seq(Nat)
      BY <2>3 DEF Owner
    <3> QED
      BY <1>1, <1>2, <2>1, <2>2, <2>3, <3>1
  <2>4. CASE Opener(i) # 0
    <3>1. \A j \in 1..Opener(i) : May(j)
      BY <1>1, <2>2
    <3>2. Owner(Opener(i)) \in 1..Opener(i) /\ Bears(Owner(Opener(i)))
          /\ ValueAt(Owner(Opener(i))) = Opener(i)
      BY <1>1, <2>1, <2>4, <3>1, Owners
    <3>3. Owner(Opener(i)) \in 1..d /\ Owner(Opener(i)) \in 0..n
      BY <1>1, <2>2, <3>2
    <3>4. f[Owner(Opener(i))] \in Seq(Nat)
      BY <1>1, <3>3 DEF Paths
    <3> QED
      BY <2>1, <2>2, <2>4, <3>2, <3>3, <3>4 DEF Brought
  <2> QED
    BY <2>3, <2>4
<1>4. ASSUME NEW i \in 1..n, i <= d + 1
      PROVE  /\ f[i] = Append(f[Owner(Opener(i))], Cardinality(Elements(Opener(i), i)))
             /\ f[i] \in Seq(Nat) /\ f[i] # << >> /\ Front(f[i]) = f[Owner(Opener(i))]
  <2>1. i \in 1..n + 1 /\ i \in Nat
    BY <1>1
  <2>2. f[Owner(Opener(i))] \in Seq(Nat)
    BY <1>3, <1>4, <2>1
  <2>3. Cardinality(Elements(Opener(i), i)) \in Nat
    BY <2>1, ElementsFinite
  <2>4. f[i] = Append(f[Owner(Opener(i))], Cardinality(Elements(Opener(i), i)))
    BY <1>1 DEF Paths
  <2>5. Append(f[Owner(Opener(i))], Cardinality(Elements(Opener(i), i))) \in Seq(Nat)
        /\ Append(f[Owner(Opener(i))], Cardinality(Elements(Opener(i), i))) # << >>
    BY <2>2, <2>3
  <2>6. Front(Append(f[Owner(Opener(i))], Cardinality(Elements(Opener(i), i)))) = f[Owner(Opener(i))]
    BY <2>2, <2>3, FrontOfAppend
  <2> QED
    BY <2>4, <2>5, <2>6
<1> QED
  BY <1>1, <1>2, <1>3, <1>4

LEMMA SameOwner ==
  ASSUME NEW f, NEW d, Ground(f, d), NEW i \in 1..n + 1, NEW j \in 1..n + 1, i <= d + 1, j <= d + 1,
         Owner(Opener(i)) = Owner(Opener(j))
  PROVE  Opener(i) = Opener(j)
<1>1. Opener(i) \in 0..d /\ (Opener(i) # 0 => Kind(Opener(i)) \in OpenKinds)
      /\ Opener(j) \in 0..d /\ (Opener(j) # 0 => Kind(Opener(j)) \in OpenKinds)
  BY Nodes
<1> QED
  BY <1>1, OwnersDiffer DEF Ground

\* The children of a setting are those that the elements between its brackets have brought.
LEMMA Siblings ==
  ASSUME NEW f, NEW d, Ground(f, d), Planted(f, tree, d), NEW i \in 1..n + 1, i <= d + 1
  PROVE  Children(f[Owner(Opener(i))]) = {f[j] : j \in Elements(Opener(i), d)}
<1>1. n \in Nat /\ d \in Nat /\ d <= n /\ f[0] = << >>
  BY Nodes
<1>2. Owner(Opener(i)) \in {0} \cup Brought(d)
  BY Nodes
<1>3. ASSUME NEW j \in Elements(Opener(i), d) PROVE f[j] \in Children(f[Owner(Opener(i))])
  <2>1. j \in 1..d /\ j \in Brought(d) /\ Opener(j) = Opener(i) /\ j \in 1..n /\ j <= d + 1
    BY <1>1 DEF Elements, Brought
  <2>2. f[j] # << >> /\ Front(f[j]) = f[Owner(Opener(j))]
    BY <2>1, Nodes
  <2> QED
    BY <2>1, <2>2 DEF Planted, Children
<1>4. ASSUME NEW q \in Children(f[Owner(Opener(i))]) PROVE \E j \in Elements(Opener(i), d) : q = f[j]
  <2>1. q \in DOMAIN tree /\ q # << >> /\ Front(q) = f[Owner(Opener(i))]
    BY DEF Children
  <2>2. PICK j \in {0} \cup Brought(d) : q = f[j]
    BY <2>1 DEF Planted
  <2>3. j \in 1..d /\ Bears(j) /\ j \in 1..n /\ j \in 1..n + 1 /\ j <= d + 1
    BY <1>1, <2>1, <2>2 DEF Brought
  <2>4. Front(f[j]) = f[Owner(Opener(j))] /\ Owner(Opener(j)) \in {0} \cup Brought(d)
    BY <2>3, Nodes
  <2>5. Owner(Opener(j)) = Owner(Opener(i))
    BY <1>2, <2>1, <2>2, <2>4 DEF Planted
  <2>6. Opener(j) = Opener(i)
    BY <2>3, <2>5, SameOwner
  <2> QED
    BY <2>2, <2>3, <2>6 DEF Elements
<1> QED
  BY <1>3, <1>4

LEMMA MoreElements ==
  ASSUME NEW o, NEW d \in Nat
  PROVE  /\ Bears(d + 1) /\ Opener(d + 1) = o =>
              /\ Elements(o, d + 1) = Elements(o, d) \cup {d + 1}
              /\ Cardinality(Elements(o, d + 1)) = Cardinality(Elements(o, d)) + 1
         /\ \A j \in 0..d : /\ Elements(o, j) \subseteq Elements(o, d)
                            /\ Cardinality(Elements(o, j)) <= Cardinality(Elements(o, d))
<1>1. IsFiniteSet(Elements(o, d)) /\ Cardinality(Elements(o, d)) \in Nat
  BY ElementsFinite
<1>2. ASSUME Bears(d + 1), Opener(d + 1) = o
      PROVE  /\ Elements(o, d + 1) = Elements(o, d) \cup {d + 1}
             /\ Cardinality(Elements(o, d + 1)) = Cardinality(Elements(o, d)) + 1
  <2>1. \A j : j \in 1..d + 1 <=> j \in 1..d \/ j = d + 1
    OBVIOUS
  <2>2. Elements(o, d + 1) = Elements(o, d) \cup {d + 1}
    BY <1>2, <2>1 DEF Elements
  <2>3. d + 1 \notin Elements(o, d)
    BY DEF Elements
  <2> QED
    BY <1>1, <2>2, <2>3, FS_AddElement
<1>3. ASSUME NEW j \in 0..d
      PROVE  /\ Elements(o, j) \subseteq Elements(o, d)
             /\ Cardinality(Elements(o, j)) <= Cardinality(Elements(o, d))
  <2>1. Elements(o, j) \subseteq Elements(o, d)
    BY DEF Elements
  <2> QED
    BY <1>1, <2>1, FS_Subset
<1> QED
  BY <1>2, <1>3

\* A new setting comes next to the others.
LEMMA NextIs ==
  ASSUME NEW f, NEW d, Ground(f, d), Planted(f, tree, d), d + 1 \in 1..n, Bears(d + 1)
  PROVE  /\ NextOf(f[Owner(Opener(d + 1))]) = f[d + 1]
         /\ \A j \in {0} \cup Brought(d) : f[j] # f[d + 1]
         /\ Children(f[Owner(Opener(d + 1))]) = {} => f[d + 1] = Append(f[Owner(Opener(d + 1))], 1)
<1> PICK o : o = Opener(d + 1)
  OBVIOUS
<1> PICK p : p = f[Owner(o)]
  OBVIOUS
<1> PICK m : m = d + 1
  OBVIOUS
<1>1. n \in Nat /\ d \in Nat /\ d <= n /\ m \in 1..n /\ m \in 1..n + 1 /\ m <= d + 1 /\ f[0] = << >>
  BY Nodes
<1>2. /\ f[m] = Append(p, Cardinality(Elements(o, m))) /\ f[m] # << >> /\ Front(f[m]) = p
      /\ Owner(o) \in {0} \cup Brought(d) /\ p \in Seq(Nat)
  BY <1>1, Nodes
<1>3. Cardinality(Elements(o, m)) = Cardinality(Elements(o, d)) + 1
      /\ \A j \in 0..d : Cardinality(Elements(o, j)) <= Cardinality(Elements(o, d))
  BY <1>1, MoreElements
<1>4. Children(p) = {f[j] : j \in Elements(o, d)}
  BY <1>1, Siblings
<1>5. IsFiniteSet(Elements(o, d)) /\ Cardinality(Elements(o, d)) \in Nat
  BY <1>1, ElementsFinite
<1>6. Cardinality(Children(p)) = Cardinality(Elements(o, d))
  <2> DEFINE g == [j \in Elements(o, d) |-> f[j]]
  <2>1. Elements(o, d) \subseteq Brought(d)
    BY DEF Elements, Brought
  <2>2. \A i, j \in Elements(o, d) : f[i] = f[j] => i = j
    BY <2>1 DEF Planted
  <2>3. g \in Bijection(Elements(o, d), Children(p))
    BY <1>4, <2>2 DEF Bijection, Injection, Surjection, IsInjective
  <2>4. ExistsBijection(Elements(o, d), Children(p))
    BY <2>3 DEF ExistsBijection
  <2> QED
    BY <1>5, <2>4, FS_Bijection
<1>7. NextOf(p) = f[m]
  BY <1>2, <1>3, <1>6 DEF NextOf
<1>8. ASSUME NEW j \in {0} \cup Brought(d), f[j] = f[m] PROVE FALSE
  <2>1. j \in 1..d /\ j \in 1..n /\ j \in 1..n + 1 /\ j <= d + 1 /\ j \in 0..d
    BY <1>1, <1>2, <1>8 DEF Brought
  <2>2. f[j] = Append(f[Owner(Opener(j))], Cardinality(Elements(Opener(j), j)))
        /\ Front(f[j]) = f[Owner(Opener(j))] /\ Owner(Opener(j)) \in {0} \cup Brought(d)
        /\ f[Owner(Opener(j))] \in Seq(Nat)
    BY <2>1, Nodes
  <2>3. Owner(Opener(j)) = Owner(o)
    BY <1>2, <1>8, <2>2 DEF Planted
  <2>4. Opener(j) = o
    BY <1>1, <2>1, <2>3, SameOwner
  <2>5. Append(p, Cardinality(Elements(o, j))) = Append(p, Cardinality(Elements(o, m)))
    BY <1>2, <1>8, <2>2, <2>4
  <2>6. Cardinality(Elements(o, j)) = Cardinality(Elements(o, m))
    <3> PICK a : a = Cardinality(Elements(o, j))
      OBVIOUS
    <3> PICK b : b = Cardinality(Elements(o, m))
      OBVIOUS
    <3>1. Append(p, a)[Len(p) + 1] = a /\ Append(p, b)[Len(p) + 1] = b
      BY <1>2
    <3> QED
      BY <2>5, <3>1
  <2>7. Cardinality(Elements(o, j)) \in Nat
    BY <2>1, ElementsFinite
  <2> QED
    BY <1>3, <1>5, <2>1, <2>6, <2>7
<1>9. Children(p) = {} => Cardinality(Elements(o, d)) = 0
  BY <1>6, FS_EmptySet
<1> QED
  BY <1>2, <1>3, <1>7, <1>8, <1>9

LEMMA RightLater ==
  ASSUME NEW f, NEW t, NEW u, NEW d \in Nat, NEW l \in Nat, NEW i \in 1..d, Right(t, f, i, d), d <= l,
         u[f[i]] = t[f[i]], ValueAt(i) > d => ValueAt(i) > l
  PROVE  Right(u, f, i, l)
<1>1. ValueAt(i) \in Nat
  BY DEF ValueAt
<1>2. CASE ValueAt(i) > d
  BY <1>2 DEF Right
<1>3. CASE ~ (ValueAt(i) > d)
  <2>1. PICK last \in ValueAt(i)..d :
          /\ Kind(ValueAt(i)) = "STRING" => last < n /\ RunEnds(ValueAt(i), last)
          /\ t[f[i]] = SettingUpTo(i, last)
    BY <1>3 DEF Right
  <2>2. last \in ValueAt(i)..l /\ ~ (ValueAt(i) > l)
    BY <1>1, <1>3
  <2> QED
    BY <2>1, <2>2 DEF Right
<1> QED
  BY <1>2, <1>3

LEMMA TreeStay ==
  ASSUME NEW f, NEW t, NEW d \in Nat, NEW l \in Nat, TreeUpTo(f, t, d), d <= l, Brought(l) = Brought(d),
         \A i \in Brought(d) : ValueAt(i) > d => ValueAt(i) > l
  PROVE  TreeUpTo(f, t, l)
<1>1. Planted(f, t, l) /\ Peers(f, t, l)
  BY DEF TreeUpTo, Planted, Peers
<1>2. \A i \in Brought(d) : i \in 1..d /\ Right(t, f, i, d)
  BY DEF TreeUpTo, Brought
<1>3. \A i \in Brought(d) : Right(t, f, i, l)
  BY <1>2, RightLater
<1> QED
  BY <1>1, <1>3 DEF TreeUpTo

\* A new setting.
LEMMA TreeAdd ==
  ASSUME NEW f, NEW d, Ground(f, d), TreeUpTo(f, tree, d), NEW l \in Nat, d + 1 <= l, l <= n,
         Bears(d + 1), Brought(l) = Brought(d) \cup {d + 1},
         \A i \in Brought(d) : ~ (ValueAt(i) > d),
         NEW x, NEW u, u = With(NextOf(f[Owner(Opener(d + 1))]), x), Right(u, f, d + 1, l),
         \A j \in Brought(d) : Opener(j) = Opener(d + 1) =>
           /\ Kind(d + 1) = "NAME" \/ Kind(j) = "NAME" => read[j] # read[d + 1]
           /\ Within(d + 1) = "ARRAY_START" => x.type = tree[f[j]].type
  PROVE  TreeUpTo(f, u, l)
<1> PICK m : m = d + 1
  OBVIOUS
<1>1. n \in Nat /\ d \in Nat /\ d <= n /\ m \in 1..n /\ m \in 1..n + 1 /\ m <= d + 1 /\ m \notin Brought(d)
      /\ f[0] = << >> /\ Brought(d) \subseteq 1..d /\ m # 0
  BY Nodes
<1>2. Planted(f, tree, d) /\ tree[<< >>] = Setting(Nil, "GROUP", 0)
      /\ (\A i \in Brought(d) : Right(tree, f, i, d)) /\ Peers(f, tree, d)
  BY DEF TreeUpTo
<1>3. /\ NextOf(f[Owner(Opener(m))]) = f[m]
      /\ \A j \in {0} \cup Brought(d) : f[j] # f[m]
      /\ Children(f[Owner(Opener(m))]) = {} => f[m] = Append(f[Owner(Opener(m))], 1)
  BY <1>1, <1>2, NextIs
<1>4. u = [q \in DOMAIN tree \cup {f[m]} |-> IF q = f[m] THEN x ELSE tree[q]]
  BY <1>3 DEF With
<1>5. DOMAIN u = DOMAIN tree \cup {f[m]} /\ u[f[m]] = x /\ u = [q \in DOMAIN u |-> u[q]]
      /\ \A j \in {0} \cup Brought(d) : f[j] \in DOMAIN tree /\ u[f[j]] = tree[f[j]]
  <2>1. \A j \in {0} \cup Brought(d) : f[j] \in DOMAIN tree /\ f[j] # f[m]
    BY <1>2, <1>3 DEF Planted
  <2> QED
    BY <1>4, <2>1
<1>6. Brought(l) = Brought(d) \cup {m}
  OBVIOUS
<1>7. Planted(f, u, l)
  <2>1. DOMAIN u = {f[i] : i \in {0} \cup Brought(l)}
    <3>1. DOMAIN tree = {f[i] : i \in {0} \cup Brought(d)}
      BY <1>2 DEF Planted
    <3> QED
      BY <1>5, <1>6, <3>1
  <2>2. \A i, j \in {0} \cup Brought(l) : f[i] = f[j] => i = j
    <3>1. \A i, j \in {0} \cup Brought(d) : f[i] = f[j] => i = j
      BY <1>2 DEF Planted
    <3> QED
      BY <1>3, <1>6, <3>1
  <2>3. \A i \in Brought(d) : Append(f[Owner(Opener(i))], 1) \in DOMAIN u
    BY <1>2, <1>5 DEF Planted
  <2>4. Append(f[Owner(Opener(m))], 1) \in DOMAIN u
    <3>1. CASE Children(f[Owner(Opener(m))]) = {}
      BY <1>3, <1>5, <3>1
    <3>2. CASE Children(f[Owner(Opener(m))]) # {}
      <4>1. PICK j \in Elements(Opener(m), d) : TRUE
        BY <1>1, <1>2, <3>2, Siblings
      <4>2. j \in Brought(d) /\ Opener(j) = Opener(m)
        BY DEF Elements, Brought
      <4> QED
        BY <2>3, <4>2
    <3> QED
      BY <3>1, <3>2
  <2> QED
    BY <1>5, <1>6, <2>1, <2>2, <2>3, <2>4 DEF Planted
<1>8. u[<< >>] = Setting(Nil, "GROUP", 0)
  BY <1>1, <1>2, <1>5
<1>9. \A i \in Brought(l) : Right(u, f, i, l)
  <2>1. \A i \in Brought(d) : i \in 1..d /\ Right(tree, f, i, d) /\ u[f[i]] = tree[f[i]]
    BY <1>1, <1>2, <1>5
  <2>2. d <= l
    BY <1>1
  <2>3. \A i \in Brought(d) : Right(u, f, i, l)
    BY <1>1, <2>1, <2>2, RightLater
  <2> QED
    BY <1>6, <2>3
<1>10. Peers(f, u, l)
  <2> SUFFICES ASSUME NEW i \in Brought(l), NEW j \in Brought(l), i # j, Opener(i) = Opener(j)
               PROVE  /\ Kind(i) = "NAME" => read[i] # read[j]
                      /\ Within(i) = "ARRAY_START" => u[f[i]].type = u[f[j]].type
    BY DEF Peers
  <2>0. Within(i) = Within(j)
    BY DEF Within
  <2>1. CASE i \in Brought(d) /\ j \in Brought(d)
    BY <1>2, <1>5, <2>1 DEF Peers
  <2>2. CASE i \in Brought(d) /\ j = m
    BY <1>5, <2>0, <2>2
  <2>3. CASE i = m /\ j \in Brought(d)
    BY <1>5, <2>0, <2>3
  <2> QED
    BY <1>6, <2>1, <2>2, <2>3
<1> QED
  BY <1>7, <1>8, <1>9, <1>10 DEF TreeUpTo

\* A setting that has a name gets its value.
LEMMA TreeFill ==
  ASSUME NEW f, NEW d, Ground(f, d), TreeUpTo(f, tree, d), NEW l \in Nat, d <= l, l <= n,
         Brought(l) = Brought(d), NEW m \in Brought(d), Within(m) # "ARRAY_START",
         \A i \in Brought(d) : i # m => ~ (ValueAt(i) > d),
         NEW u, DOMAIN u = DOMAIN tree, u = [q \in DOMAIN u |-> u[q]],
         \A q \in DOMAIN tree : q # f[m] => u[q] = tree[q],
         Right(u, f, m, l)
  PROVE  TreeUpTo(f, u, l)
<1>1. n \in Nat /\ d \in Nat /\ f[0] = << >> /\ Brought(d) \subseteq 1..d /\ m # 0
  BY Nodes
<1>2. Planted(f, tree, d) /\ tree[<< >>] = Setting(Nil, "GROUP", 0)
      /\ (\A i \in Brought(d) : Right(tree, f, i, d)) /\ Peers(f, tree, d)
  BY DEF TreeUpTo
<1>3. \A j \in {0} \cup Brought(d) : j # m => u[f[j]] = tree[f[j]]
  BY <1>2 DEF Planted
<1>4. Planted(f, u, l)
  BY <1>2 DEF Planted
<1>5. u[<< >>] = Setting(Nil, "GROUP", 0)
  BY <1>1, <1>2, <1>3
<1>6. \A i \in Brought(d) : i # m => Right(u, f, i, l)
  <2>1. \A i \in Brought(d) : i \in 1..d /\ Right(tree, f, i, d)
    BY <1>1, <1>2
  <2> QED
    BY <1>1, <1>3, <2>1, RightLater
<1>7. Peers(f, u, l)
  <2> SUFFICES ASSUME NEW i \in Brought(d), NEW j \in Brought(d), i # j, Opener(i) = Opener(j)
               PROVE  /\ Kind(i) = "NAME" => read[i] # read[j]
                      /\ Within(i) = "ARRAY_START" => u[f[i]].type = u[f[j]].type
    BY DEF Peers
  <2>0. Within(i) = Within(j)
    BY DEF Within
  <2>1. Within(i) = "ARRAY_START" => i # m /\ j # m
    BY <2>0
  <2> QED
    BY <1>2, <1>3, <2>1 DEF Peers
<1> QED
  BY <1>4, <1>5, <1>6, <1>7 DEF TreeUpTo

At(f, p, s, d) ==
  /\ p = f[Owner(Opener(d + 1))]
  /\ d # 0 /\ Kind(d) = "NAME" => s = f[d]
  /\ d # 0 /\ Kind(d) = "EQUALS" => s = f[d - 1]

\* A name whose value is not read yet is the last token but for the equals sign.
LEMMA Pending ==
  ASSUME NEW f, NEW d, Ground(f, d), NEW i \in Brought(d), ValueAt(i) > d
  PROVE  d # 0 /\ Kind(i) = "NAME" /\ (i = d \/ (i = d - 1 /\ Kind(d) = "EQUALS"))
<1>1. d \in Nat /\ d <= n /\ n \in Nat /\ i \in 1..d /\ PlacesOK
  BY Nodes DEF Ground
<1>2. Kind(i) = "NAME" /\ (i = d \/ i = d - 1)
  BY <1>1 DEF ValueAt
<1>3. CASE i = d - 1
  <2>1. d \in 1..n /\ May(d) /\ d # 1 /\ Kind(d - 1) = "NAME"
    BY <1>1, <1>2, <1>3 DEF Ground
  <2>2. Kind(d) = "EQUALS"
    BY <1>1, <2>1, Neighbours
  <2> QED
    BY <1>1, <1>2, <1>3, <2>2
<1> QED
  BY <1>1, <1>2, <1>3

\* What the next token says of the one before it.
LEMMA Settled ==
  ASSUME NEW f, NEW d, Ground(f, d), d + 1 \in 1..n, May(d + 1)
  PROVE  /\ Kind(d + 1) \notin StartKinds \cup {"EQUALS"} \/ ~ Grouped(d + 1) =>
              \A i \in Brought(d) : ~ (ValueAt(i) > d)
         /\ Kind(d + 1) \notin StartKinds =>
              \A i \in Brought(d) : ValueAt(i) > d => ValueAt(i) > d + 1
         /\ Kind(d + 1) = "EQUALS" => d # 0 /\ Kind(d) = "NAME"
         /\ Kind(d + 1) \in StartKinds /\ ~ Follows(d + 1) /\ Grouped(d + 1) =>
              /\ d \in 1..n /\ d - 1 \in Brought(d) /\ Kind(d) = "EQUALS" /\ Kind(d - 1) = "NAME"
              /\ ValueAt(d - 1) = d + 1 /\ Within(d - 1) # "ARRAY_START"
              /\ \A i \in Brought(d) : i # d - 1 => ~ (ValueAt(i) > d)
<1>1. d \in Nat /\ d <= n /\ n \in Nat /\ PlacesOK /\ Brought(d) \subseteq 1..d /\ (d + 1) - 1 = d
      /\ (d + 1 # 1 <=> d # 0)
  BY Nodes DEF Ground
<1>2. /\ Kind(d + 1) = "EQUALS" => d # 0 /\ Kind(d) = "NAME" /\ Grouped(d + 1)
      /\ d # 0 /\ Kind(d) = "NAME" => Kind(d + 1) = "EQUALS"
      /\ d # 0 /\ Kind(d) = "EQUALS" => Kind(d + 1) \in StartKinds /\ Grouped(d + 1)
      /\ Kind(d + 1) \in StartKinds /\ ~ Follows(d + 1) /\ Grouped(d + 1) => d # 0 /\ Kind(d) = "EQUALS"
  BY <1>1, Neighbours
<1>3. \A i \in Brought(d) : ValueAt(i) > d =>
        d # 0 /\ Kind(i) = "NAME" /\ (i = d \/ (i = d - 1 /\ Kind(d) = "EQUALS"))
  BY Pending
<1>4. \A i \in Brought(d) : ValueAt(i) > d /\ i = d => ValueAt(i) > d + 1
  BY <1>1, <1>3 DEF ValueAt
<1>5. ASSUME Kind(d + 1) \in StartKinds, ~ Follows(d + 1), Grouped(d + 1)
      PROVE  /\ d \in 1..n /\ d - 1 \in Brought(d) /\ Kind(d) = "EQUALS" /\ Kind(d - 1) = "NAME"
             /\ ValueAt(d - 1) = d + 1 /\ Within(d - 1) # "ARRAY_START"
             /\ \A i \in Brought(d) : i # d - 1 => ~ (ValueAt(i) > d)
  <2>1. d \in 1..n /\ Kind(d) = "EQUALS" /\ May(d)
    BY <1>1, <1>2, <1>5 DEF Ground
  <2>2. d # 1 /\ Kind(d - 1) = "NAME"
    BY <1>1, <2>1, Neighbours
  <2>3. d - 1 \in 1..d /\ d - 1 \in 1..n /\ (d - 1) + 2 = d + 1 /\ May(d - 1)
    BY <1>1, <2>1, <2>2 DEF Ground
  <2>4. Grouped(d - 1)
    BY <1>1, <2>2, <2>3, Neighbours
  <2>5. Within(d - 1) # "ARRAY_START"
    BY <2>4 DEF Grouped
  <2>6. \A i \in Brought(d) : i # d - 1 => ~ (ValueAt(i) > d)
    BY <1>3, <2>1
  <2> QED
    BY <2>1, <2>2, <2>3, <2>5, <2>6 DEF Brought, Bears, ValueAt
<1> QED
  BY <1>2, <1>3, <1>4, <1>5

Distinct == "NAME" \notin StartKinds \cup CloseKinds /\ "EQUALS" \notin StartKinds \cup CloseKinds
            /\ StartKinds \cap CloseKinds = {} /\ ScalarKinds \cap OpenKinds = {}
            /\ "STRING" \in ScalarKinds /\ ActingKinds = {"NAME"} \cup StartKinds \cup CloseKinds
            /\ ScalarKinds \subseteq StartKinds /\ OpenKinds \subseteq StartKinds

LEMMA KindsDiffer == Distinct
  BY DEF Distinct, StartKinds, ScalarKinds, OpenKinds, CloseKinds, ActingKinds, ActsOn

\* Nothing is done about a sign.
LEMMA PassToken ==
  ASSUME NEW f, NEW d, Ground(f, d), TreeUpTo(f, tree, d), At(f, parent, setting, d),
         NEW m, m = d + 1, m \in 1..n, May(m), Kind(m) \notin ActingKinds
  PROVE  TreeUpTo(f, tree, m) /\ At(f, parent, setting, m)
<1>1. d \in Nat /\ m \in Nat /\ d <= m /\ PlacesOK /\ m # 0 /\ m - 1 = d
  BY Nodes DEF Ground
<1>2. Kind(m) \notin StartKinds \cup {"NAME"} \cup CloseKinds
  BY KindsDiffer DEF Distinct
<1>3. ~ Bears(m)
  BY <1>2 DEF Bears, StartKinds
<1>4. Brought(m) = Brought(d)
  <2>1. \A i : i \in 1..m <=> i \in 1..d \/ i = m
    BY <1>1
  <2> QED
    BY <1>3, <2>1 DEF Brought
<1>5. \A i \in Brought(d) : ValueAt(i) > d => ValueAt(i) > m
  BY <1>2, Settled
<1>6. TreeUpTo(f, tree, m)
  BY <1>1, <1>4, <1>5, TreeStay
<1>7. Opener(m + 1) = Opener(m)
  BY <1>1, <1>2, After DEF StartKinds
<1>8. Kind(m) = "EQUALS" => d # 0 /\ Kind(d) = "NAME"
  BY Settled
<1> QED
  BY <1>1, <1>2, <1>6, <1>7, <1>8 DEF At

\* What settings are called, and their types.
LEMMA NamesAre ==
  ASSUME NEW f, NEW d \in Nat, NEW t, NEW j \in Brought(d), Right(t, f, j, d)
  PROVE  /\ t[f[j]].name = read[j].name
         /\ ~ (ValueAt(j) > d) => t[f[j]].type = TypeOf(Kind(ValueAt(j)))
<1>1. CASE ValueAt(j) > d
  BY <1>1 DEF Right, Setting
<1>2. CASE ~ (ValueAt(j) > d)
  <2>1. PICK last \in ValueAt(j)..d : t[f[j]] = SettingUpTo(j, last)
    BY <1>2 DEF Right
  <2> QED
    BY <2>1 DEF SettingUpTo
<1> QED
  BY <1>1, <1>2

\* A name declares a setting.
LEMMA NameToken ==
  ASSUME NEW f, NEW d, Ground(f, d), TreeUpTo(f, tree, d), At(f, parent, setting, d),
         NEW m, m = d + 1, m \in 1..n, May(m), Kind(m) = "NAME", ~ Taken(read[m].name),
         NEW u, u = With(NextOf(parent), Setting(read[m].name, "NONE", m))
  PROVE  TreeUpTo(f, u, m) /\ At(f, parent, NextOf(parent), m)
<1>1. d \in Nat /\ m \in Nat /\ d <= m /\ d <= n /\ PlacesOK /\ m # 0 /\ m - 1 = d /\ m \in 1..n + 1
      /\ n \in Nat
  <2>1. d \in Nat /\ d <= n /\ n \in Nat
    BY Nodes
  <2>2. PlacesOK
    BY DEF Ground
  <2> QED
    BY <2>1, <2>2
<1>2. Kind(m) \notin StartKinds \cup CloseKinds /\ Kind(m) # "EQUALS"
  BY KindsDiffer DEF Distinct
<1>3. Bears(m) /\ ValueAt(m) = m + 2
  BY DEF Bears, ValueAt
<1>4. Brought(m) = Brought(d) \cup {m}
  <2>1. \A i : i \in 1..m <=> i \in 1..d \/ i = m
    BY <1>1
  <2> QED
    BY <1>3, <2>1 DEF Brought
<1>5. \A i \in Brought(d) : ~ (ValueAt(i) > d)
  BY <1>2, Settled
<1>6. Grouped(m)
  BY <1>1, Neighbours
<1>7. /\ Planted(f, tree, d) /\ parent = f[Owner(Opener(m))]
      /\ \A j \in Brought(d) : Right(tree, f, j, d)
  BY DEF TreeUpTo, At
<1>8. NextOf(parent) = f[m] /\ Children(parent) = {f[j] : j \in Elements(Opener(m), d)}
  BY <1>1, <1>3, <1>7, NextIs, Siblings
<1>9. \A j \in Brought(d) : Opener(j) = Opener(m) => read[j] # read[m]
  <2> SUFFICES ASSUME NEW j \in Brought(d), Opener(j) = Opener(m) PROVE read[j] # read[m]
    OBVIOUS
  <2>1. f[j] \in Children(parent)
    BY <1>8 DEF Elements, Brought
  <2>2. tree[f[j]].name = read[j].name
    BY <1>1, <1>7, NamesAre
  <2> QED
    BY <2>1, <2>2 DEF Taken
<1>10. Right(u, f, m, m)
  <2>1. ValueAt(m) > m
    BY <1>1, <1>3
  <2>2. u[f[m]] = Setting(read[m].name, "NONE", m)
    BY <1>8 DEF With
  <2> QED
    BY <2>1, <2>2 DEF Right
<1>11. TreeUpTo(f, u, m)
  <2>1. Within(m) # "ARRAY_START"
    BY <1>6 DEF Grouped
  <2>2. PICK x : x = Setting(read[m].name, "NONE", m)
    OBVIOUS
  <2>3. \A j \in Brought(d) : Opener(j) = Opener(m) =>
           /\ Kind(m) = "NAME" \/ Kind(j) = "NAME" => read[j] # read[m]
           /\ Within(m) = "ARRAY_START" => x.type = tree[f[j]].type
    BY <1>9, <2>1
  <2>4. u = With(NextOf(f[Owner(Opener(m))]), x)
    BY <1>7, <2>2
  <2>5. d + 1 <= m /\ m <= n
    BY <1>1
  <2> QED
    BY <1>1, <1>3, <1>4, <1>5, <1>10, <2>3, <2>4, <2>5, TreeAdd
<1>12. Opener(m + 1) = Opener(m)
  BY <1>1, <1>2, After DEF StartKinds
<1> QED
  BY <1>7, <1>8, <1>11, <1>12 DEF At

\* A value is one token, or as many strings as there are.
Spans(m, l) ==
  /\ l \in Nat /\ m <= l /\ l <= n
  /\ IF Kind(m) = "STRING" THEN l < n /\ RunEnds(m, l) ELSE l = m

LEMMA SpanBrings ==
  ASSUME PlacesOK, NEW d \in Nat, NEW m, m = d + 1, m \in 1..n, NEW l, Spans(m, l)
  PROVE  /\ Bears(m) => Brought(l) = Brought(d) \cup {m}
         /\ ~ Bears(m) => Brought(l) = Brought(d)
<1>1. n \in Nat /\ l \in Nat /\ m <= l /\ l <= n
  BY DEF PlacesOK, Spans
<1>2. ASSUME NEW i \in (m + 1)..l PROVE ~ Bears(i)
  <2>1. Kind(i) = "STRING" /\ Kind(i - 1) = "STRING"
    <3>1. Kind(m) = "STRING" /\ RunEnds(m, l)
      BY <1>1 DEF Spans
    <3>2. i \in m..l /\ i - 1 \in m..l
      BY <1>1
    <3> QED
      BY <3>1, <3>2 DEF RunEnds
  <2>2. i - 1 \in 1..n /\ (i - 1) + 1 = i
    BY <1>1
  <2>3. Before(i) = LeftBy("STRING")
    BY <2>1, <2>2, After
  <2> QED
    BY <2>1, <2>3 DEF Bears, LeftBy, OpenKinds
<1>3. \A i : i \in 1..l <=> i \in 1..d \/ i = m \/ i \in (m + 1)..l
  BY <1>1
<1> QED
  BY <1>2, <1>3 DEF Brought

LEMMA SpanRight ==
  ASSUME NEW f, NEW u, NEW i \in 1..n, NEW m \in 1..n, ValueAt(i) = m, NEW l, Spans(m, l),
         u[f[i]] = SettingUpTo(i, l)
  PROVE  Right(u, f, i, l)
<1>1. m <= l /\ l \in Nat /\ m \in Nat /\ l \in m..l /\ ~ (m > l)
  BY DEF Spans
<1>2. Kind(m) = "STRING" => l < n /\ RunEnds(m, l)
  BY DEF Spans
<1> QED
  BY <1>1, <1>2 DEF Right

\* An element of a list or an array.
LEMMA ElementToken ==
  ASSUME NEW f, NEW d, Ground(f, d), TreeUpTo(f, tree, d), At(f, parent, setting, d),
         NEW m, m = d + 1, m \in 1..n, May(m), Kind(m) \in StartKinds, ~ Follows(m), ~ Grouped(m),
         NEW l, Spans(m, l),
         \A j \in Brought(d) : Opener(j) = Opener(m) /\ Within(m) = "ARRAY_START" =>
           TypeOf(Kind(m)) = tree[f[j]].type,
         NEW u, u = With(NextOf(parent), SettingUpTo(m, l))
  PROVE  TreeUpTo(f, u, l) /\ NextOf(parent) = f[m]
<1>1. d \in Nat /\ m \in Nat /\ d <= n /\ PlacesOK /\ m # 0 /\ m \in 1..n + 1 /\ n \in Nat
      /\ m - 1 = d /\ Brought(d) \subseteq 1..d
  <2>1. d \in Nat /\ d <= n /\ n \in Nat /\ Brought(d) \subseteq 1..d
    BY Nodes
  <2>2. PlacesOK
    BY DEF Ground
  <2> QED
    BY <2>1, <2>2
<1>2. Within(m) \in {"ARRAY_START", "LIST_START"}
  <2>1. Within(m) \in Contexts
    BY <1>1, OpenerIs
  <2> QED
    BY <2>1 DEF Grouped, Contexts, OpenKinds
<1>3. Bears(m) /\ Kind(m) # "NAME" /\ ValueAt(m) = m
  BY <1>2, KindsDiffer DEF Bears, Follows, StartKinds, ValueAt, Distinct
<1>4. Brought(l) = Brought(d) \cup {m}
  BY <1>1, <1>3, SpanBrings
<1>5. \A i \in Brought(d) : ~ (ValueAt(i) > d)
  BY Settled
<1>6. Planted(f, tree, d) /\ parent = f[Owner(Opener(m))]
  BY DEF TreeUpTo, At
<1>7. NextOf(parent) = f[m]
  BY <1>3, <1>6, NextIs
<1>8. Right(u, f, m, l)
  <2>1. u[f[m]] = SettingUpTo(m, l)
    BY <1>7 DEF With
  <2> QED
    BY <1>3, <2>1, SpanRight
<1>9. \A j \in Brought(d) : Kind(j) = "NAME" => read[j] # read[m]
  <2>1. \A j \in Brought(d) : j \in 1..n
    BY <1>1
  <2> QED
    BY <1>1, <1>3, <2>1 DEF PlacesOK
<1>10. SettingUpTo(m, l).type = TypeOf(Kind(m))
  BY <1>3 DEF SettingUpTo
<1> PICK x : x = SettingUpTo(m, l)
  OBVIOUS
<1>11. \A j \in Brought(d) : Opener(j) = Opener(m) =>
           /\ Kind(m) = "NAME" \/ Kind(j) = "NAME" => read[j] # read[m]
           /\ Within(m) = "ARRAY_START" => x.type = tree[f[j]].type
  BY <1>3, <1>9, <1>10
<1>12. l \in Nat /\ d + 1 <= l /\ l <= n /\ u = With(NextOf(f[Owner(Opener(m))]), x)
  BY <1>6 DEF Spans
<1>13. TreeUpTo(f, u, l)
  BY <1>3, <1>4, <1>5, <1>8, <1>11, <1>12, TreeAdd
<1> QED
  BY <1>7, <1>13

\* The value of a setting that has a name.
LEMMA ValueToken ==
  ASSUME NEW f, NEW d, Ground(f, d), TreeUpTo(f, tree, d), At(f, parent, setting, d),
         NEW m, m = d + 1, m \in 1..n, May(m), Kind(m) \in StartKinds, ~ Follows(m), Grouped(m),
         NEW l, Spans(m, l)
  PROVE  /\ setting = f[d - 1] /\ setting \in DOMAIN tree /\ ValueAt(d - 1) = m /\ Kind(d - 1) = "NAME"
         /\ tree[setting] = Setting(read[d - 1].name, "NONE", d - 1)
         /\ tree = [q \in DOMAIN tree |-> tree[q]]
         /\ \A u : /\ DOMAIN u = DOMAIN tree /\ u = [q \in DOMAIN u |-> u[q]]
                   /\ \A q \in DOMAIN tree : q # setting => u[q] = tree[q]
                   /\ u[setting] = SettingUpTo(d - 1, l)
                   => TreeUpTo(f, u, l)
<1>1. d \in Nat /\ m \in Nat /\ d <= n /\ PlacesOK /\ m # 0 /\ m \in 1..n + 1 /\ n \in Nat
      /\ m - 1 = d /\ Brought(d) \subseteq 1..d
  <2>1. d \in Nat /\ d <= n /\ n \in Nat /\ Brought(d) \subseteq 1..d
    BY Nodes
  <2>2. PlacesOK
    BY DEF Ground
  <2> QED
    BY <2>1, <2>2
<1>2. /\ d \in 1..n /\ d - 1 \in Brought(d) /\ Kind(d) = "EQUALS" /\ Kind(d - 1) = "NAME"
      /\ ValueAt(d - 1) = m /\ Within(d - 1) # "ARRAY_START"
      /\ \A i \in Brought(d) : i # d - 1 => ~ (ValueAt(i) > d)
  BY Settled
<1>3. setting = f[d - 1]
  BY <1>2 DEF At
<1>4. Planted(f, tree, d) /\ Right(tree, f, d - 1, d)
  BY <1>2 DEF TreeUpTo
<1>5. setting \in DOMAIN tree /\ tree = [q \in DOMAIN tree |-> tree[q]]
  BY <1>2, <1>3, <1>4 DEF Planted
<1>6. tree[setting] = Setting(read[d - 1].name, "NONE", d - 1)
  BY <1>1, <1>2, <1>3, <1>4 DEF Right
<1>7. ASSUME NEW u, DOMAIN u = DOMAIN tree, u = [q \in DOMAIN u |-> u[q]],
             \A q \in DOMAIN tree : q # setting => u[q] = tree[q], u[setting] = SettingUpTo(d - 1, l)
      PROVE  TreeUpTo(f, u, l)
  <2>1. ~ Bears(m)
    <3>1. Within(m) \notin {"ARRAY_START", "LIST_START"} /\ Kind(m) # "NAME"
      BY KindsDiffer DEF Grouped, Distinct
    <3> QED
      BY <3>1 DEF Bears
  <2>2. Brought(l) = Brought(d)
    BY <1>1, <2>1, SpanBrings
  <2>3. l \in Nat /\ d <= l /\ l <= n
    BY <1>1 DEF Spans
  <2>4. d - 1 \in 1..n
    BY <1>1, <1>2
  <2>5. Right(u, f, d - 1, l)
    BY <1>2, <1>3, <1>7, <2>4, SpanRight
  <2> PICK i : i = d - 1
    OBVIOUS
  <2> QED
    BY <1>2, <1>3, <1>7, <2>2, <2>3, <2>5, TreeFill
<1> QED
  BY <1>2, <1>3, <1>5, <1>6, <1>7

\* Where the parser is after a scalar, and after a bracket.
LEMMA AfterScalar ==
  ASSUME NEW f, NEW d, Ground(f, d), At(f, parent, setting, d), NEW m, m = d + 1, m \in 1..n,
         Kind(m) \in ScalarKinds, NEW l, Spans(m, l), opens[l + 1] = opens[m], NEW s
  PROVE  At(f, parent, s, l)
<1>1. Opener(l + 1) = Opener(m)
  BY DEF Opener
<1>2. Kind(l) \in ScalarKinds
  <2>1. m \in Nat /\ l \in Nat /\ m <= l
    BY DEF Spans
  <2> QED
    BY <2>1, KindsDiffer DEF Spans, RunEnds, Distinct
<1>3. Kind(l) # "NAME" /\ Kind(l) # "EQUALS"
  BY <1>2, KindsDiffer DEF Distinct
<1> QED
  BY <1>1, <1>3 DEF At

LEMMA AfterOpen ==
  ASSUME NEW f, NEW d, Ground(f, d), NEW m, m = d + 1, m \in 1..n, May(m), Kind(m) \in OpenKinds, NEW s,
         NEW p, IF Grouped(m) THEN p = f[d - 1] ELSE p = f[m]
  PROVE  At(f, p, s, m)
<1>1. d \in Nat /\ PlacesOK /\ m \in Nat /\ m - 2 = d - 1 /\ m # 0 /\ m \in 1..n + 1
  <2>1. d \in Nat
    BY Nodes
  <2>2. PlacesOK
    BY DEF Ground
  <2> QED
    BY <2>1, <2>2 DEF PlacesOK
<1>2. Opener(m + 1) = m
  BY <1>1, After
<1>3. Kind(m) # "NAME" /\ Kind(m) # "EQUALS"
  BY KindsDiffer DEF Distinct
<1>4. Within(m) \in Contexts /\ Within(m) # "ARRAY_START"
  BY <1>1, OpenerIs, Neighbours
<1>5. Grouped(m) <=> Within(m) # "LIST_START"
  BY <1>4 DEF Grouped, Contexts, OpenKinds
<1>6. p = f[Owner(m)]
  BY <1>1, <1>5 DEF Owner
<1> QED
  BY <1>2, <1>3, <1>6 DEF At

LEMMA CloseToken ==
  ASSUME NEW f, NEW d, Ground(f, d), TreeUpTo(f, tree, d), At(f, parent, setting, d), Nested,
         NEW m, m = d + 1, m \in 1..n, May(m), Kind(m) \in CloseKinds
  PROVE  TreeUpTo(f, tree, m) /\ At(f, Up, setting, m)
<1>1. d \in Nat /\ m \in Nat /\ d <= m /\ d <= n /\ PlacesOK /\ m # 0 /\ m \in 1..n + 1 /\ n \in Nat
  <2>1. d \in Nat /\ d <= n /\ n \in Nat
    BY Nodes
  <2>2. PlacesOK
    BY DEF Ground
  <2> QED
    BY <2>1, <2>2
<1>2. Kind(m) \notin StartKinds /\ Kind(m) # "NAME" /\ Kind(m) # "EQUALS"
  BY KindsDiffer DEF Distinct
<1>3. Brought(m) = Brought(d)
  <2>1. ~ Bears(m)
    BY <1>2 DEF Bears, StartKinds
  <2>2. \A i : i \in 1..m <=> i \in 1..d \/ i = m
    BY <1>1
  <2> QED
    BY <2>1, <2>2 DEF Brought
<1>4. \A i \in Brought(d) : ValueAt(i) > d => ValueAt(i) > m
  BY <1>2, Settled
<1>5. TreeUpTo(f, tree, m)
  BY <1>1, <1>3, <1>4, TreeStay
<1> PICK o : o = Opener(m)
  OBVIOUS
<1>6. o # 0 /\ o \in 0..d /\ Kind(o) \in OpenKinds /\ Owner(o) \in 0..d /\ Owner(o) # 0
  <2>1. o # 0
    BY <1>1, Neighbours
  <2>2. m <= d + 1
    BY <1>1
  <2> QED
    BY <1>1, <2>1, <2>2, Nodes
<1>7. o \in 1..n /\ o \in 1..n + 1 /\ \A i \in 1..o : May(i)
  BY <1>1, <1>6 DEF Ground
<1>8. Opener(Owner(o)) = Opener(o)
  BY <1>1, <1>6, <1>7, Owners
<1>9. opens[m] = Append(opens[o], o)
  BY <1>1, <1>6, OpenerIs DEF Nested
<1>10. opens[m + 1] = opens[o]
  <2>1. opens[o] \in Seq(Nat) /\ o \in Nat
    BY <1>1, <1>7 DEF PlacesOK
  <2>2. Front(Append(opens[o], o)) = opens[o]
    BY <2>1, FrontOfAppend
  <2>3. opens[m] # << >>
    BY <1>9, <2>1
  <2>4. opens[m + 1] = IF opens[m] = << >> THEN << >> ELSE Front(opens[m])
    BY <1>1, After
  <2> QED
    BY <1>9, <2>2, <2>3, <2>4
<1>11. Opener(m + 1) = Opener(o)
  BY <1>10 DEF Opener
<1>12. parent = f[Owner(o)]
  BY DEF At
<1>13. Owner(o) \in 1..n /\ Owner(o) <= d + 1
  BY <1>1, <1>6
<1>14. parent \in Seq(Nat) /\ parent # << >> /\ Front(parent) = f[Owner(Opener(o))]
  BY <1>8, <1>12, <1>13, Nodes
<1>15. Up = f[Owner(Opener(m + 1))]
  <2>1. parent # Nil
    BY <1>14, NilAssumption
  <2> QED
    BY <1>11, <1>14, <2>1 DEF Up
<1> QED
  BY <1>1, <1>2, <1>5, <1>15 DEF At

LEMMA TypesOfBrackets ==
  /\ \A k \in OpenKinds : /\ TypeOf(k) = "ARRAY" <=> k = "ARRAY_START"
                          /\ TypeOf(k) = "LIST" <=> k = "LIST_START"
  BY DEF OpenKinds, TypeOf

\* What the parent is, the bracket around the next token says.
LEMMA ParentIs ==
  ASSUME NEW f, NEW d, Ground(f, d), TreeUpTo(f, tree, d), At(f, parent, setting, d),
         NEW m, m = d + 1, m \in 1..n + 1
  PROVE  /\ parent # Nil /\ parent \in Seq(Nat)
         /\ InArray <=> Within(m) = "ARRAY_START"
         /\ InList <=> Within(m) = "LIST_START"
<1>1. d \in Nat /\ d <= n /\ n \in Nat /\ m <= d + 1 /\ f[0] = << >> /\ parent = f[Owner(Opener(m))]
      /\ Brought(d) \subseteq 1..d
  BY Nodes DEF At
<1>2. /\ Opener(m) \in 0..d /\ (Opener(m) # 0 => Kind(Opener(m)) \in OpenKinds)
      /\ Owner(Opener(m)) \in {0} \cup Brought(d) /\ f[Owner(Opener(m))] \in Seq(Nat)
      /\ Opener(m) # 0 => Owner(Opener(m)) # 0 /\ ValueAt(Owner(Opener(m))) = Opener(m)
  BY <1>1, Nodes
<1>3. parent \in Seq(Nat) /\ parent # Nil
  BY <1>1, <1>2, NilAssumption
<1>4. CASE Opener(m) = 0
  <2>1. parent = << >> /\ Within(m) = "TOP"
    BY <1>1, <1>4 DEF Owner, Within
  <2>2. tree[parent].type = "GROUP"
    BY <2>1 DEF TreeUpTo, Setting
  <2> QED
    BY <1>3, <2>1, <2>2 DEF InArray, InList
<1>5. CASE Opener(m) # 0
  <2>1. Owner(Opener(m)) \in Brought(d) /\ ~ (ValueAt(Owner(Opener(m))) > d)
    BY <1>1, <1>2, <1>5
  <2>2. Right(tree, f, Owner(Opener(m)), d)
    BY <2>1 DEF TreeUpTo
  <2>3. tree[parent].type = TypeOf(Kind(Opener(m)))
    BY <1>1, <1>2, <1>5, <2>1, <2>2, NamesAre
  <2>4. Within(m) = Kind(Opener(m))
    BY <1>5 DEF Within
  <2> QED
    BY <1>2, <1>3, <1>5, <2>3, <2>4, TypesOfBrackets DEF InArray, InList
<1> QED
  BY <1>3, <1>4, <1>5

\* The first element of an array, if it has one.
LEMMA FirstElement ==
  ASSUME NEW f, NEW d, Ground(f, d), TreeUpTo(f, tree, d), At(f, parent, setting, d),
         NEW m, m = d + 1, m \in 1..n + 1, Children(parent) # {}
  PROVE  \E i \in Brought(d) : Opener(i) = Opener(m) /\ f[i] = Append(parent, 1)
<1>1. d \in Nat /\ d <= n /\ n \in Nat /\ m <= d + 1 /\ f[0] = << >> /\ parent = f[Owner(Opener(m))]
      /\ Brought(d) \subseteq 1..d
  BY Nodes DEF At
<1>2. Owner(Opener(m)) \in {0} \cup Brought(d) /\ parent \in Seq(Nat)
  BY <1>1, Nodes
<1>3. Planted(f, tree, d)
  BY DEF TreeUpTo
<1>4. PICK j \in Elements(Opener(m), d) : TRUE
  <2>1. Children(parent) = {f[j] : j \in Elements(Opener(m), d)}
    BY <1>1, <1>3, Siblings
  <2> QED
    BY <2>1
<1>5. j \in Brought(d) /\ Opener(j) = Opener(m)
  BY DEF Elements, Brought
<1>6. Append(parent, 1) \in DOMAIN tree
  BY <1>1, <1>3, <1>5 DEF Planted
<1>7. PICK i \in {0} \cup Brought(d) : f[i] = Append(parent, 1)
  BY <1>3, <1>6 DEF Planted
<1>8. Append(parent, 1) # << >> /\ Front(Append(parent, 1)) = parent
  BY <1>2, FrontOfAppend
<1>9. i \in Brought(d) /\ i \in 1..n /\ i \in 1..n + 1 /\ i <= d + 1
  BY <1>1, <1>7, <1>8
<1>10. Front(f[i]) = f[Owner(Opener(i))] /\ Owner(Opener(i)) \in {0} \cup Brought(d)
  BY <1>9, Nodes
<1>11. Owner(Opener(i)) = Owner(Opener(m))
  BY <1>1, <1>2, <1>3, <1>7, <1>8, <1>10 DEF Planted
<1>12. Opener(i) = Opener(m)
  BY <1>1, <1>9, <1>11, SameOwner
<1> QED
  BY <1>7, <1>9, <1>12

LEMMA FitsPeers ==
  ASSUME NEW f, NEW d, Ground(f, d), TreeUpTo(f, tree, d), At(f, parent, setting, d),
         NEW m, m = d + 1, m \in 1..n + 1, NEW type, FitsArray(type), Within(m) = "ARRAY_START",
         NEW j \in Brought(d), Opener(j) = Opener(m)
  PROVE  type = tree[f[j]].type
<1>1. d \in Nat /\ m <= d + 1 /\ parent = f[Owner(Opener(m))]
  BY Nodes DEF At
<1>2. Planted(f, tree, d) /\ Peers(f, tree, d)
  BY DEF TreeUpTo
<1>3. f[j] \in Children(parent)
  <2>1. j \in Elements(Opener(m), d)
    BY DEF Elements, Brought
  <2> QED
    BY <1>1, <1>2, <2>1, Siblings
<1>4. tree[Append(parent, 1)].type = type
  <2>1. InArray
    BY ParentIs
  <2> QED
    BY <1>3, <2>1 DEF FitsArray
<1>5. PICK i \in Brought(d) : Opener(i) = Opener(m) /\ f[i] = Append(parent, 1)
  BY <1>3, FirstElement
<1>6. Within(j) = "ARRAY_START"
  BY DEF Within
<1> QED
  BY <1>2, <1>4, <1>5, <1>6 DEF Peers

LEMMA MisfitIsOdd ==
  ASSUME NEW f, NEW d, Ground(f, d), TreeUpTo(f, tree, d), At(f, parent, setting, d),
         NEW m, m = d + 1, m \in 1..n, Kind(m) \in ScalarKinds, ~ Follows(m),
         ~ FitsArray(TypeOf(Kind(m)))
  PROVE  Odd
<1>1. d \in Nat /\ m \in 1..n + 1 /\ n \in Nat /\ d <= n /\ Brought(d) \subseteq 1..d /\ PlacesOK
  <2>1. d \in Nat /\ n \in Nat /\ d <= n /\ Brought(d) \subseteq 1..d
    BY Nodes
  <2>2. PlacesOK
    BY DEF Ground
  <2> QED
    BY <2>1, <2>2
<1>2. InArray /\ Children(parent) # {} /\ tree[Append(parent, 1)].type # TypeOf(Kind(m))
  BY DEF FitsArray
<1>3. Within(m) = "ARRAY_START"
  BY <1>1, <1>2, ParentIs
<1>4. PICK i \in Brought(d) : Opener(i) = Opener(m) /\ f[i] = Append(parent, 1)
  BY <1>1, <1>2, FirstElement
<1>5. Within(i) = "ARRAY_START" /\ i \in 1..n /\ May(i)
  <2>1. Within(i) = Within(m)
    BY <1>4 DEF Within
  <2> QED
    BY <1>1, <1>3, <2>1 DEF Ground
<1>6. Kind(i) # "NAME"
  <2>1. ~ Grouped(i)
    BY <1>5 DEF Grouped
  <2> QED
    BY <1>1, <1>5, <2>1, Neighbours
<1>7. ValueAt(i) = i /\ ~ (ValueAt(i) > d)
  BY <1>1, <1>6 DEF ValueAt
<1>8. tree[f[i]].type = TypeOf(Kind(i))
  <2>1. Right(tree, f, i, d)
    BY DEF TreeUpTo
  <2> QED
    BY <1>1, <1>7, <2>1, NamesAre
<1>9. Kind(m) # "NAME" /\ ValueAt(m) = m /\ Bears(m)
  BY <1>3, KindsDiffer DEF ValueAt, Distinct, Bears, Follows
<1>10. SettingOf(i).type = TypeOf(Kind(i)) /\ SettingOf(m).type = TypeOf(Kind(m))
  BY <1>7, <1>9 DEF SettingOf, SettingUpTo
<1>11. i \in Bearers /\ m \in Bearers /\ i < m
  BY <1>1, <1>5, <1>9 DEF Bearers, Brought
<1> QED
  BY <1>2, <1>4, <1>5, <1>8, <1>10, <1>11 DEF Odd

LEMMA TakenIsTwin ==
  ASSUME NEW f, NEW d, Ground(f, d), TreeUpTo(f, tree, d), At(f, parent, setting, d), Named,
         read \in Seq(TokenSet), NEW m, m = d + 1, m \in 1..n, Kind(m) = "NAME", Taken(read[m].name)
  PROVE  Twins
<1>1. d \in Nat /\ m <= d + 1 /\ parent = f[Owner(Opener(m))] /\ n \in Nat /\ d <= n
      /\ Brought(d) \subseteq 1..d /\ m \in 1..n + 1 /\ PlacesOK
  <2>1. d \in Nat /\ n \in Nat /\ d <= n /\ Brought(d) \subseteq 1..d
    BY Nodes
  <2>2. PlacesOK
    BY DEF Ground
  <2> QED
    BY <2>1, <2>2 DEF At
<1>2. Planted(f, tree, d) /\ \A j \in Brought(d) : Right(tree, f, j, d)
  BY DEF TreeUpTo
<1>3. PICK q \in Children(parent) : tree[q].name = read[m].name
  BY DEF Taken
<1>4. PICK j \in Elements(Opener(m), d) : q = f[j]
  BY <1>1, <1>2, Siblings
<1>5. j \in Brought(d) /\ Opener(j) = Opener(m) /\ j \in 1..n /\ j < m
  BY <1>1 DEF Elements, Brought
<1>6. read[j].name = read[m].name
  BY <1>1, <1>2, <1>3, <1>4, <1>5, NamesAre
<1>7. Kind(j) = "NAME" /\ Kind(j) = read[j].kind /\ Kind(m) = read[m].kind
  BY <1>1, <1>5, <1>6 DEF Named, PlacesOK
<1>8. read[j] \in TokenSet /\ read[m] \in TokenSet
  BY <1>1, <1>5 DEF PlacesOK
<1>9. read[j] = read[m]
  BY <1>6, <1>7, <1>8 DEF TokenSet
<1> QED
  BY <1>5, <1>7, <1>9 DEF Twins

LEMMA NotMixed ==
  ASSUME NEW f, NEW d, Ground(f, d), TreeUpTo(f, tree, d)
  PROVE  ~ Mixed
<1> SUFFICES ASSUME NEW p \in DOMAIN tree, tree[p].type = "ARRAY",
                    NEW q \in Children(p), NEW r \in Children(p)
             PROVE  tree[q].type = tree[r].type
  BY DEF Mixed
<1>1. d \in Nat /\ n \in Nat /\ d <= n /\ f[0] = << >> /\ Brought(d) \subseteq 1..d
  BY Nodes
<1>2. Planted(f, tree, d) /\ Peers(f, tree, d) /\ tree[<< >>] = Setting(Nil, "GROUP", 0)
      /\ \A j \in Brought(d) : Right(tree, f, j, d)
  BY DEF TreeUpTo
<1>3. PICK i, j \in Brought(d) : q = f[i] /\ r = f[j] /\ Front(f[i]) = p /\ Front(f[j]) = p
  BY <1>1, <1>2 DEF Planted, Children
<1>4. i \in 1..n /\ i \in 1..n + 1 /\ i <= d + 1 /\ j \in 1..n /\ j \in 1..n + 1 /\ j <= d + 1
  BY <1>1
<1>5. p = f[Owner(Opener(i))] /\ p = f[Owner(Opener(j))]
      /\ Owner(Opener(i)) \in {0} \cup Brought(d) /\ Owner(Opener(j)) \in {0} \cup Brought(d)
  BY <1>3, <1>4, Nodes
<1>6. Opener(i) = Opener(j)
  <2>1. Owner(Opener(i)) = Owner(Opener(j))
    BY <1>2, <1>5 DEF Planted
  <2> QED
    BY <1>4, <2>1, SameOwner
<1>7. Opener(i) # 0 /\ Kind(Opener(i)) \in OpenKinds /\ Owner(Opener(i)) # 0
      /\ ValueAt(Owner(Opener(i))) = Opener(i) /\ Opener(i) \in 0..d
  <2>1. Opener(i) = 0 => p = << >>
    BY <1>1, <1>5 DEF Owner
  <2>2. Opener(i) # 0
    BY <1>2, <2>1 DEF Setting
  <2> QED
    BY <1>4, <2>2, Nodes
<1>8. tree[p].type = TypeOf(Kind(Opener(i)))
  <2>1. Owner(Opener(i)) \in Brought(d) /\ ~ (ValueAt(Owner(Opener(i))) > d)
    BY <1>1, <1>5, <1>7
  <2>2. Right(tree, f, Owner(Opener(i)), d)
    BY <1>2, <2>1
  <2>3. tree[f[Owner(Opener(i))]].type = TypeOf(Kind(ValueAt(Owner(Opener(i)))))
    BY <1>1, <2>1, <2>2, NamesAre
  <2> QED
    BY <1>5, <1>7, <2>3
<1>9. Within(i) = "ARRAY_START"
  BY <1>7, <1>8, TypesOfBrackets DEF Within
<1> QED
  BY <1>2, <1>3, <1>6, <1>9 DEF Peers

\* At the end every setting has its value.
LEMMA AllSet ==
  ASSUME NEW f, Ground(f, n), TreeUpTo(f, tree, n), n # 0, Kind(n) = "EOF", NEW i \in Brought(n)
  PROVE  tree[f[i]] = SettingOf(i)
<1>1. n \in Nat /\ i \in 1..n
  BY Nodes DEF Brought
<1>2. ~ (ValueAt(i) > n)
  BY Pending
<1> PICK v : v = ValueAt(i)
  OBVIOUS
<1>3. Right(tree, f, i, n)
  BY DEF TreeUpTo
<1>4. PICK last \in v..n :
        /\ Kind(v) = "STRING" => last < n /\ RunEnds(v, last)
        /\ tree[f[i]] = SettingUpTo(i, last)
  BY <1>2, <1>3 DEF Right
<1>5. v \in Nat /\ (Kind(i) = "STRING" => Kind(v) = "STRING")
  BY <1>1 DEF ValueAt
<1> PICK c : c = CHOOSE j \in v..n : RunEnds(v, j)
  OBVIOUS
<1>6. Kind(v) = "STRING" => c = last
  <2> SUFFICES ASSUME Kind(v) = "STRING" PROVE c = last
    OBVIOUS
  <2>1. c \in v..n /\ RunEnds(v, c) /\ RunEnds(v, last)
    BY <1>4
  <2>2. ASSUME NEW a \in v..n, NEW b \in v..n, RunEnds(v, a), RunEnds(v, b), a < b PROVE FALSE
    <3>1. a + 1 \in v..b
      BY <1>1, <1>5, <2>2
    <3> QED
      BY <2>2, <3>1 DEF RunEnds
  <2> QED
    BY <1>1, <1>4, <1>5, <2>1, <2>2
<1>7. SettingUpTo(i, last) = SettingUpTo(i, c)
  <2>1. CASE Kind(v) = "STRING"
    BY <1>6, <2>1
  <2>2. CASE Kind(v) # "STRING"
    BY <1>5, <2>2 DEF SettingUpTo
  <2> QED
    BY <2>1, <2>2
<1> QED
  BY <1>4, <1>7 DEF SettingOf

LEMMA Complete ==
  ASSUME NEW f, Ground(f, n), TreeUpTo(f, tree, n), n # 0, Kind(n) = "EOF", read \in Seq(TokenSet)
  PROVE  tree = TreeOf /\ ~ Twins /\ ~ Odd
<1>1. n \in Nat /\ f[0] = << >> /\ PlacesOK /\ Paths(f) /\ \A i \in 1..n - 1 : May(i)
  <2>1. n \in Nat /\ f[0] = << >>
    BY Nodes
  <2> QED
    BY <2>1 DEF Ground
<1>2. pathOf = f
  BY <1>1, PathsAre
<1>3. Bearers = Brought(n)
  BY DEF Bearers, Brought
<1>4. Planted(f, tree, n) /\ Peers(f, tree, n) /\ tree[<< >>] = Setting(Nil, "GROUP", 0)
  BY DEF TreeUpTo
<1>5. \A i \in Bearers : tree[f[i]] = SettingOf(i) /\ i # 0
  BY <1>3, AllSet DEF Brought
<1>6. tree = TreeOf
  <2>1. DOMAIN tree = {f[i] : i \in Bearers \cup {0}}
    BY <1>3, <1>4 DEF Planted
  <2>2. \A p \in DOMAIN tree :
          tree[p] = IF p = << >> THEN Setting(Nil, "GROUP", 0)
                    ELSE SettingOf(CHOOSE i \in Bearers : f[i] = p)
    <3> TAKE p \in DOMAIN tree
    <3>1. CASE p = << >>
      BY <1>4, <3>1
    <3>2. CASE p # << >>
      <4>1. PICK i \in Bearers : p = f[i]
        BY <1>1, <2>1, <3>2
      <4>2. \A j \in Bearers : f[j] = p => j = i
        BY <1>3, <1>4, <4>1 DEF Planted
      <4>3. (CHOOSE j \in Bearers : f[j] = p) = i
        BY <4>1, <4>2
      <4> QED
        BY <1>5, <3>2, <4>1, <4>3
    <3> QED
      BY <3>1, <3>2
  <2>3. tree = [p \in DOMAIN tree |-> tree[p]]
    BY <1>4 DEF Planted
  <2>4. tree = [p \in {f[i] : i \in Bearers \cup {0}} |->
                  IF p = << >> THEN Setting(Nil, "GROUP", 0)
                  ELSE SettingOf(CHOOSE i \in Bearers : f[i] = p)]
    <3>1. [p \in DOMAIN tree |-> tree[p]] =
            [p \in DOMAIN tree |-> IF p = << >> THEN Setting(Nil, "GROUP", 0)
                                   ELSE SettingOf(CHOOSE i \in Bearers : f[i] = p)]
      BY <2>2
    <3> QED
      BY <2>1, <2>3, <3>1
  <2> QED
    BY <1>2, <2>4 DEF TreeOf
<1>7. ~ Twins
  <2> SUFFICES ASSUME NEW i \in 1..n, NEW j \in 1..n, i < j, Kind(i) = "NAME", read[i] = read[j],
                      Opener(i) = Opener(j)
               PROVE  FALSE
    BY DEF Twins
  <2>1. Kind(j) = "NAME"
    BY <1>1 DEF PlacesOK
  <2>2. i \in Brought(n) /\ j \in Brought(n) /\ i # j
    BY <1>1, <2>1 DEF Brought, Bears
  <2> QED
    BY <1>4, <2>2 DEF Peers
<1>8. ~ Odd
  <2> SUFFICES ASSUME NEW i \in Bearers, NEW j \in Bearers, i # j, Opener(i) = Opener(j),
                      Within(i) = "ARRAY_START"
               PROVE  SettingOf(i).type = SettingOf(j).type
    <3>1. \A i, j \in Bearers : i < j => i # j
      BY <1>1 DEF Bearers
    <3> QED
      BY <3>1 DEF Odd
  <2> QED
    BY <1>3, <1>4, <1>5 DEF Peers
<1> QED
  BY <1>6, <1>7, <1>8

(***************************************************************************)
(* The actions build it.                                                   *)
(***************************************************************************)

Acting == IsKind(Top, ActingKinds)

\* Of the tokens consumed, those behind the d-th are a string that is put together, and
\* one that is to be acted on.
Running(d) ==
  /\ Consumed = d + Len(joined) + (IF Acting THEN 1 ELSE 0)
  /\ joined \in Seq(Nat) /\ (joined # << >> <=> Top \in {22, 31})
  /\ \A k \in 1..Len(joined) :
       joined[k] = d + k /\ Kind(d + k) = "STRING" /\ opens[d + k + 1] = opens[d + 1]
  /\ Top \in {15, 22, 31} => Before(d + 1) # "STRING"
  /\ size \in Nat /\ Len(states) < size
  /\ error = Nil \/ error[1] = "include"

Cause ==
  yyresult = "error" => /\ error[1] = "duplicate setting name" => Twins
                        /\ error[1] = "mismatched element type in array" => Odd

\* The configuration is that of the first d tokens.
TreeAt(f, d) ==
  /\ Paths(f) /\ d \in 0..Consumed /\ TreeUpTo(f, tree, d)
  /\ yyresult = "running" => At(f, parent, setting, d) /\ Running(d)
  /\ yyresult = "ok" => d = n

TreeInv == Named /\ Nested /\ Cause /\ \E f, d : TreeAt(f, d)

\* What the tables say of the states that act, again.
LEMMA Neutral == ~ IsKind(0, ActingKinds)
  BY DEF IsKind, yystos, ActingKinds, ActsOn, yytranslate

LEMMA InitTree == ParserInit => TreeInv
<1> SUFFICES ASSUME ParserInit PROVE TreeInv
  OBVIOUS
<1>1. /\ states = <<0>> /\ look = << >> /\ read = << >> /\ joined = << >> /\ size = InitDepth
      /\ tree = [p \in {<< >>} |-> Setting(Nil, "GROUP", 0)] /\ parent = << >> /\ setting = << >>
      /\ yyresult = "running" /\ error = Nil
  BY DEF ParserInit
<1>2. StackInv /\ Typed
  BY InitStack DEF StackInv
<1>3. PlacesOK /\ n = 0 /\ Consumed = 0 /\ Top = 0 /\ Len(states) = 1
  BY <1>1, <1>2, TypedFacts DEF n, Consumed, Top, Last
<1>4. opens[1] = << >> /\ Opener(1) = 0
  BY <1>3, OpenerIs DEF PlacesOK
<1>5. Named /\ Nested /\ Cause
  BY <1>1, <1>3, <1>4 DEF Named, Nested, Cause
<1> DEFINE f == [i \in 0..0 |-> << >>]
<1>6. Paths(f) /\ f[0] = << >> /\ Brought(0) = {}
  <2>1. << >> \in Seq(Nat)
    OBVIOUS
  <2> QED
    BY <1>3, <2>1 DEF Paths, Brought
<1> HIDE DEF f
<1>7. TreeUpTo(f, tree, 0)
  <2>1. Planted(f, tree, 0)
    BY <1>1, <1>6 DEF Planted
  <2> QED
    BY <1>1, <1>6, <2>1 DEF TreeUpTo, Peers
<1>8. At(f, parent, setting, 0)
  BY <1>1, <1>4, <1>6 DEF At, Owner
<1>9. Running(0)
  <2>1. ~ Acting
    BY <1>3, Neutral DEF Acting
  <2>2. InitDepth \in Nat /\ 1 < InitDepth
    BY DepthAssumption
  <2> QED
    BY <1>1, <1>3, <2>1, <2>2 DEF Running
<1>10. TreeAt(f, 0)
  BY <1>1, <1>3, <1>6, <1>7, <1>8, <1>9 DEF TreeAt
<1> QED
  BY <1>5, <1>10 DEF TreeInv

\* Nothing of the language changes while nothing is read.
LEMMA SameLanguage ==
  ASSUME read' = read
  PROVE  /\ Named' = Named /\ Nested' = Nested /\ Twins' = Twins /\ Odd' = Odd
         /\ \A f : Paths(f)' = Paths(f)
         /\ \A f, p, s, d : At(f, p, s, d)' = At(f, p, s, d)
         /\ \A f, t, d : TreeUpTo(f, t, d)' = TreeUpTo(f, t, d)
<1>1. n' = n /\ opens' = opens
      /\ \A i : Kind(i)' = Kind(i) /\ Opener(i)' = Opener(i) /\ Within(i)' = Within(i) /\ Before(i)' = Before(i)
  BY SameRead
<1>2. \A i : Bears(i)' = Bears(i) /\ ValueAt(i)' = ValueAt(i) /\ Owner(i)' = Owner(i)
  BY <1>1 DEF Bears, ValueAt, Owner
<1>3. \A o, i : Elements(o, i)' = Elements(o, i)
  BY <1>1, <1>2 DEF Elements
<1>4. \A d : Brought(d)' = Brought(d)
  BY <1>2 DEF Brought
<1>5. \A v, j : RunEnds(v, j)' = RunEnds(v, j)
  BY <1>1 DEF RunEnds
<1>6. \A i, l : SettingUpTo(i, l)' = SettingUpTo(i, l)
  BY <1>1, <1>2 DEF SettingUpTo
<1>7. Named' = Named /\ Nested' = Nested
  BY <1>1 DEF Named, Nested
<1>8. Twins' = Twins
  BY <1>1 DEF Twins
<1>9. Odd' = Odd
  <2>1. Bearers' = Bearers
    BY <1>1, <1>2 DEF Bearers
  <2>2. \A i : SettingOf(i)' = SettingOf(i)
    BY <1>1, <1>2, <1>5, <1>6 DEF SettingOf
  <2> QED
    BY <1>1, <2>1, <2>2 DEF Odd
<1>10. \A f : Paths(f)' = Paths(f)
  BY <1>1, <1>2, <1>3 DEF Paths
<1>11. \A f, p, s, d : At(f, p, s, d)' = At(f, p, s, d)
  BY <1>1, <1>2 DEF At
<1>12. \A f, t, i, d : Right(t, f, i, d)' = Right(t, f, i, d)
  <2> TAKE f, t, i, d
  <2>1. PICK v : v = ValueAt(i) /\ v = ValueAt(i)'
    BY <1>2
  <2>2. Kind(v)' = Kind(v) /\ \A l : RunEnds(v, l)' = RunEnds(v, l)
    BY <1>1, <1>5
  <2>3. ASSUME NEW l
        PROVE  (/\ Kind(v) = "STRING" => l < n /\ RunEnds(v, l)
                /\ t[f[i]] = SettingUpTo(i, l))' <=>
               (/\ Kind(v) = "STRING" => l < n /\ RunEnds(v, l)
                /\ t[f[i]] = SettingUpTo(i, l))
    BY <1>1, <1>6, <2>2
  <2> QED
    BY <2>1, <2>3 DEF Right
<1>13. \A f, t, d : TreeUpTo(f, t, d)' = TreeUpTo(f, t, d)
  <2> TAKE f, t, d
  <2>1. Planted(f, t, d)' = Planted(f, t, d)
    BY <1>1, <1>2, <1>4 DEF Planted
  <2>2. Peers(f, t, d)' = Peers(f, t, d)
    BY <1>1, <1>4 DEF Peers
  <2> QED
    BY <1>4, <1>12, <2>1, <2>2 DEF TreeUpTo
<1> QED
  BY <1>7, <1>8, <1>9, <1>10, <1>11, <1>13

LEMMA SameTree ==
  ASSUME UNCHANGED read, NEW f, NEW d, NEW t, t = tree', TreeUpTo(f, t, d)
  PROVE  TreeUpTo(f, tree, d)'
<1>1. TreeUpTo(f, t, d)' = TreeUpTo(f, t, d)
  BY SameLanguage
<1>2. TreeUpTo(f, t, d)'
  BY <1>1
<1> QED
  BY <1>2 DEF TreeUpTo, Planted, Peers, Right

LEMMA SamePlace ==
  ASSUME UNCHANGED read, NEW f, NEW d, NEW p, NEW s, p = parent', s = setting', At(f, p, s, d)
  PROVE  At(f, parent, setting, d)'
<1>1. At(f, p, s, d)' = At(f, p, s, d)
  BY SameLanguage
<1>2. At(f, p, s, d)'
  BY <1>1
<1> QED
  BY <1>2 DEF At

\* What is known where something is to be done.
LEMMA Standing ==
  ASSUME StackInv, NEW f, NEW d, TreeAt(f, d), yyresult = "running"
  PROVE  /\ Ground(f, d) /\ TreeUpTo(f, tree, d) /\ At(f, parent, setting, d) /\ Running(d)
         /\ Typed /\ n \in Nat /\ d \in Nat /\ d <= Consumed /\ Consumed \in 0..n
         /\ Len(joined) \in Nat /\ read \in Seq(TokenSet)
         /\ \A i \in 1..Consumed : May(i)
         /\ look = << >> => Consumed = n
         /\ look # << >> => n = Consumed + 1 /\ n \in 1..n /\ read[look[1]].kind = Kind(n)
         /\ Top \in States
<1>1. Typed /\ (\A i \in 1..Consumed : May(i)) /\ Running(d) /\ Paths(f) /\ d \in 0..Consumed
      /\ TreeUpTo(f, tree, d) /\ At(f, parent, setting, d) /\ read \in Seq(TokenSet)
  BY DEF StackInv, Told, TreeAt, Typed
<1>2. /\ PlacesOK /\ n \in Nat /\ Consumed \in 0..n /\ Top \in States
      /\ look = << >> => Consumed = n
      /\ look # << >> => n = Consumed + 1 /\ n \in 1..n /\ read[look[1]].kind = Kind(n)
  BY <1>1, TypedFacts
<1>3. d \in Nat /\ d <= Consumed /\ d \in 0..n /\ \A i \in 1..d : May(i)
  BY <1>1, <1>2
<1>4. Len(joined) \in Nat
  BY <1>1 DEF Running
<1> QED
  BY <1>1, <1>2, <1>3, <1>4 DEF Ground

\* The token an action is about.
LEMMA TopToken ==
  ASSUME StackInv, NEW k \in ActingKinds, IsKind(Top, {k})
  PROVE  /\ look = << >> /\ Consumed = n /\ n \in 1..n /\ Kind(n) = k /\ Last(vals) = n
         /\ Acting /\ IsToken(Top)
<1>1. Typed /\ Known
  BY DEF StackInv
<1>2. /\ PlacesOK /\ n \in Nat /\ Consumed \in 0..n /\ Top \in States /\ Len(states) \in Nat \ {0}
      /\ Top = states[Len(states)] /\ (look = << >> => Consumed = n)
      /\ (look # << >> => n \in 1..n)
  BY <1>1, TypedFacts
<1>3. k \in TokenKinds
  BY DEF ActingKinds, ActsOn, TokenKinds, yytranslate
<1>4. IsKind(Top, ActingKinds) /\ yystos[Top + 1] = yytranslate[k]
  BY DEF IsKind
<1>5. IsToken(Top) /\ Top # 0
  <2>1. yytranslate[k] \in 0..YYNTOKENS - 1 /\ YYNTOKENS \in Nat
    BY <1>3, Translated DEF YYNTOKENS
  <2>2. IsToken(Top)
    BY <1>4, <2>1 DEF IsToken
  <2> QED
    BY <1>4, <2>2, Neutral
<1>6. look = << >>
  <2>1. Ahead = Unread
    <3> DEFINE q == <<Top, Before(Consumed + 1), Ahead>>
    <3>1. q \in Situations /\ q[1] = Top /\ q[3] = Ahead
      BY <1>1 DEF Known
    <3> HIDE DEF q
    <3> QED
      BY <1>4, <3>1, ActionsAssumption
  <2>2. look # << >> => Kind(n) # Unread
    BY <1>2, Translated DEF PlacesOK
  <2> QED
    BY <2>1, <2>2 DEF Ahead
<1>7. PICK e : Covers(e)
  BY DEF StackInv
<1> PICK h : h = Len(states)
  OBVIOUS
<1>8. h # 1 /\ h \in 2..h /\ h - 1 \in 1..h /\ h \in Nat
  <2>1. states[1] = 0
    BY <1>1 DEF Typed
  <2>2. h # 1
    BY <1>2, <1>5, <2>1
  <2> QED
    BY <1>2, <2>2
<1>9. Linked(states[h], e[h - 1], e[h], vals[h]) /\ e[h] = Consumed /\ e[h - 1] \in Nat
  <2>1. Linked(states[h], e[h - 1], e[h], vals[h]) /\ e[h] = Consumed
    BY <1>7, <1>8 DEF Covers
  <2>2. e[h - 1] \in Nat
    BY <1>7, <1>8 DEF Covers
  <2> QED
    BY <2>1, <2>2
<1>10. Consumed = e[h - 1] + 1 /\ vals[h] = Consumed /\ yystos[Top + 1] = yytranslate[Kind(Consumed)]
  BY <1>2, <1>5, <1>9 DEF Linked
<1>11. Consumed = n /\ n \in 1..n
  BY <1>2, <1>6, <1>9, <1>10
<1>12. Kind(n) = k
  <2>1. Kind(n) \in TokenKinds
    BY <1>2, <1>11 DEF PlacesOK
  <2> QED
    BY <1>3, <1>4, <1>10, <1>11, <2>1, Translated
<1>13. Last(vals) = n
  <2>1. Len(vals) = h
    BY <1>1 DEF Typed
  <2> QED
    BY <1>10, <1>11, <2>1 DEF Last
<1> QED
  BY <1>4, <1>5, <1>6, <1>11, <1>12, <1>13 DEF Acting

\* Where a rule of an action is reduced.
LEMMA Acts ==
  ASSUME StackInv, NEW f, NEW d, TreeAt(f, d), yyresult = "running", NEW k \in ActingKinds, yyn \in ActsOn[k]
  PROVE  /\ look = << >> /\ Consumed = n /\ n \in 1..n /\ Kind(n) = k /\ Last(vals) = n /\ May(n)
         /\ n = d + Len(joined) + 1
         /\ yyn # 22 => joined = << >> /\ n = d + 1
         /\ yyn \in {21, 22} => Before(d + 1) # "STRING"
<1>1. Running(d) /\ Top \in States /\ d \in Nat /\ n \in Nat /\ (\A i \in 1..Consumed : May(i))
      /\ Len(joined) \in Nat
  BY Standing
<1>2. IsKind(Top, {k})
  BY <1>1, ActionsAssumption DEF yyn
<1>3. /\ look = << >> /\ Consumed = n /\ n \in 1..n /\ Kind(n) = k /\ Last(vals) = n
      /\ Acting /\ IsToken(Top)
  BY <1>2, TopToken
<1>4. n = d + Len(joined) + 1
  BY <1>1, <1>3 DEF Running
<1>5. Top # 22
  <2>1. Top = 22 => yystos[Top + 1] = StringSymbol
    BY <1>1, ActionsAssumption
  <2> QED
    BY <1>3, <2>1 DEF IsToken, YYNTOKENS, StringSymbol
<1>6. (yyn = 22 <=> Top = 31) /\ (yyn = 21 <=> Top = 15)
  BY <1>1, ActionsAssumption DEF yyn
<1>7. yyn # 22 => joined = << >>
  BY <1>1, <1>5, <1>6 DEF Running
<1>8. yyn # 22 => n = d + 1
  <2>1. joined = << >> => Len(joined) = 0
    OBVIOUS
  <2> QED
    BY <1>1, <1>4, <1>7, <2>1
<1>9. yyn \in {21, 22} => Before(d + 1) # "STRING"
  BY <1>1, <1>6 DEF Running
<1> QED
  BY <1>1, <1>3, <1>4, <1>7, <1>8, <1>9

\* The stacks are grown before they are full.
LEMMA PushRuns ==
  ASSUME NEW s, NEW v, NEW below, NEW belowVals, Push(s, v, below, belowVals),
         size \in Nat, Len(below) \in Nat, Len(below) + 1 <= size
  PROVE  /\ yyresult' \in {"running", "ok", "exhausted"}
         /\ yyresult' \in {"running", "ok"} =>
              size' \in Nat /\ Len(below) + 1 < size' /\ UNCHANGED error
<1> DEFINE full == Len(below) + 1 >= size
           grown == IF full THEN IF 2 * size > MaxDepth THEN MaxDepth ELSE 2 * size ELSE size
<1>1. IF full /\ MaxDepth <= size
        THEN yyresult' = "exhausted"
        ELSE /\ size' = grown
             /\ yyresult' = IF Len(below) + 1 >= grown THEN "error"
                            ELSE IF s = YYFINAL THEN "ok" ELSE "running"
             /\ UNCHANGED error
  BY DEF Push
<1>2. CASE full /\ MaxDepth <= size
  BY <1>1, <1>2
<1>3. CASE ~ (full /\ MaxDepth <= size)
  <2>1. grown \in Nat /\ Len(below) + 1 < grown /\ ~ (Len(below) + 1 >= grown)
    BY <1>3, DepthAssumption
  <2> QED
    BY <1>1, <1>3, <2>1
<1> QED
  BY <1>2, <1>3

\* The states where a string begins and goes on.
LEMMA StringStates == \A s \in {15, 31} : s \in States /\ IsKind(s, {"STRING"}) /\ IsKind(s, ActingKinds)
<1>1. 15 \in States /\ 31 \in States /\ "STRING" \in ActingKinds /\ ActsOn["STRING"] = {21, 22}
  BY DEF States, ActingKinds, ActsOn
<1>2. yydefact[15 + 1] = 21 /\ yydefact[31 + 1] = 22
  BY <1>1, ActionsAssumption
<1>3. \A s \in {15, 31} : s \in States /\ yydefact[s + 1] \in ActsOn["STRING"]
  BY <1>1, <1>2
<1>4. \A s \in {15, 31} : IsKind(s, {"STRING"})
  BY <1>1, <1>3, ActionsAssumption
<1>5. \A s : IsKind(s, {"STRING"}) => IsKind(s, ActingKinds)
  BY <1>1 DEF IsKind
<1> QED
  BY <1>3, <1>4, <1>5

\* What is on top after a reduction is no token.
LEMMA ReducedTop ==
  ASSUME StackInv, Ready, Shifts = 0, yyn # 0, Goto
  PROVE  ~ Acting' /\ Top' \notin {15, 31} /\ (Top' = 22 <=> yyn \in {21, 22})
<1>1. Top \in States /\ Top # YYFINAL
  BY TypedFacts DEF StackInv, Answered, Ready
<1>2. Top' \in States /\ yystos[Top' + 1] = yyr1[yyn + 1]
  BY ReduceStack
<1>3. yyn \in 1..39
  BY <1>1, EdgesAssumption DEF yyn
<1>4. yyr1[yyn + 1] >= YYNTOKENS /\ (yyr1[yyn + 1] = StringSymbol <=> yyn \in {21, 22})
  BY <1>3, ActionsAssumption
<1>5. ~ IsKind(Top', ActingKinds)
  <2>1. ActingKinds \subseteq TokenKinds
    BY DEF ActingKinds, ActsOn, TokenKinds, yytranslate
  <2>2. \A k \in ActingKinds : yytranslate[k] \in 0..YYNTOKENS - 1 /\ YYNTOKENS \in Nat
    BY <2>1, Translated DEF YYNTOKENS
  <2>3. \A k \in ActingKinds : ~ (yytranslate[k] >= YYNTOKENS)
    BY <2>2
  <2> QED
    BY <1>2, <1>4, <2>3 DEF IsKind
<1>6. Top' \notin {15, 31}
  BY <1>5, StringStates
<1>7. Top' = 22 <=> yyn \in {21, 22}
  BY <1>2, <1>4, ActionsAssumption
<1> QED
  BY <1>5, <1>6, <1>7 DEF Acting

\* What an action and the reduction that goes with it leave.
LEMMA Reduction ==
  ASSUME StackInv, NEW f, NEW d, TreeAt(f, d), Named, Nested, Ready, Shifts = 0, yyn # 0, Goto,
         NEW t, t = tree', NEW p, p = parent', NEW s, s = setting', NEW l \in 0..Consumed,
         TreeUpTo(f, t, l), At(f, p, s, l),
         joined' \in Seq(Nat), Consumed = l + Len(joined'), joined' # << >> <=> yyn \in {21, 22},
         \A k \in 1..Len(joined') :
           joined'[k] = l + k /\ Kind(l + k) = "STRING" /\ opens[l + k + 1] = opens[l + 1],
         yyn \in {21, 22} => Before(l + 1) # "STRING"
  PROVE  TreeInv'
<1>0. yyresult = "running"
  BY DEF Ready
<1>1. /\ Running(d) /\ Typed /\ n \in Nat /\ Consumed \in 0..n /\ Top \in States
      /\ Top # YYFINAL
  BY <1>0, Standing DEF StackInv, Answered
<1>2. UNCHANGED <<look, read>>
  BY DEF Goto
<1>3. /\ StackInv' /\ Top' \in States /\ yystos[Top' + 1] = yyr1[yyn + 1]
      /\ yyr2[yyn + 1] \in 0..5 /\ yyr2[yyn + 1] < Len(states)
      /\ Len(states') = Len(states) - yyr2[yyn + 1] + 1
      /\ Top' = GotoOn(states[Len(states) - yyr2[yyn + 1]], Lhs(yyn))
  BY ReduceStack
<1>4. yyn \in 1..39
  BY <1>1, EdgesAssumption DEF yyn
<1>5. yyr1[yyn + 1] >= YYNTOKENS /\ (yyr1[yyn + 1] = StringSymbol <=> yyn \in {21, 22})
  BY <1>4, ActionsAssumption
<1>6. ~ Acting' /\ Top' \notin {15, 31} /\ (Top' = 22 <=> yyn \in {21, 22})
  BY ReducedTop
<1>7. Consumed' = Consumed /\ n' = n /\ \A i : Kind(i)' = Kind(i) /\ Before(i)' = Before(i)
  BY <1>2, SameRead DEF Consumed
<1>8. opens' = opens
  BY <1>2, SameRead
<1>9. /\ yyresult' \in {"running", "ok", "exhausted"}
      /\ yyresult' = "ok" => Top' = YYFINAL
      /\ yyresult' = "running" =>
           size' \in Nat /\ Len(states') < size' /\ (error' = Nil \/ error'[1] = "include")
  <2> DEFINE len == yyr2[yyn + 1]
  <2> PICK a : a = SubSeq(states, 1, Len(states) - len)
    OBVIOUS
  <2> PICK b : b = SubSeq(vals, 1, Len(vals) - len)
    OBVIOUS
  <2> PICK x : x = GotoOn(Last(a), Lhs(yyn))
    OBVIOUS
  <2> PICK v : v = IF len = 0 THEN 0 ELSE vals[Len(vals) + 1 - len]
    OBVIOUS
  <2>1. Push(x, v, a, b)
    BY DEF Goto
  <2>2. Len(states) \in Nat /\ Len(states) - len \in 0..Len(states)
    <3>1. Len(states) \in Nat /\ len \in 0..5 /\ len < Len(states)
      BY <1>1, <1>3, TypedFacts
    <3> HIDE DEF len
    <3> QED
      BY <3>1
  <2>3. Len(a) = Len(states) - len
    <3> PICK c : c = Len(states) - len
      OBVIOUS
    <3>1. states \in Seq(States) /\ c \in 0..Len(states) /\ a = SubSeq(states, 1, c)
      BY <1>1, <2>2 DEF Typed
    <3>2. Len(SubSeq(states, 1, c)) = c
      BY <3>1, PrefixOf
    <3> QED
      BY <3>1, <3>2
  <2>4. Len(a) \in Nat /\ Len(a) + 1 <= size /\ size \in Nat /\ Len(states') = Len(a) + 1
    <3> HIDE DEF len
    <3>1. len \in 0..5 /\ Len(states') = Len(states) - len + 1
      BY <1>3 DEF len
    <3> QED
      BY <1>1, <2>2, <2>3, <3>1 DEF Running
  <2>5. states' = Append(a, x)
    BY <2>1 DEF Push
  <2>6. Top' = x
    <3>1. Len(states') = Len(a) + 1
      BY <2>4
    <3>2. Append(a, x)[Len(a) + 1] = x
      <4>1. a \in Seq(States)
        <5>1. states \in Seq(States)
          BY <1>1 DEF Typed
        <5> HIDE DEF len
        <5> QED
          BY <2>2, <5>1, PrefixOf
      <4> QED
        BY <4>1
    <3> QED
      BY <2>5, <3>1, <3>2 DEF Top, Last
  <2>7. error = Nil \/ error[1] # "syntax error"
    BY <1>0 DEF StackInv, Answered
  <2> HIDE DEF len
  <2>8. yyresult' = "ok" => x = YYFINAL
    BY <2>1, <2>7, PushResult
  <2>9. /\ yyresult' \in {"running", "ok", "exhausted"}
        /\ yyresult' \in {"running", "ok"} =>
             size' \in Nat /\ Len(a) + 1 < size' /\ UNCHANGED error
    BY <2>1, <2>4, PushRuns
  <2> QED
    BY <1>1, <2>4, <2>6, <2>8, <2>9 DEF Running
<1>10. yyresult' # "ok"
  <2>1. Top' # YYFINAL
    BY <1>3, <1>5, Translated DEF YYNTOKENS
  <2> QED
    BY <1>9, <2>1
<1>11. yyresult' = "running" => Running(l)'
  <2> SUFFICES ASSUME yyresult' = "running" PROVE Running(l)'
    OBVIOUS
  <2>1. Consumed' = l + Len(joined') + 0
    BY <1>1, <1>7
  <2> QED
    BY <1>6, <1>7, <1>8, <1>9, <2>1 DEF Running
<1>12. Named' /\ Nested' /\ Paths(f)' /\ TreeUpTo(f, tree, l)' /\ At(f, parent, setting, l)'
  <2>1. Paths(f)
    BY DEF TreeAt
  <2>2. Named' /\ Nested' /\ Paths(f)'
    BY <1>2, <2>1, SameLanguage
  <2> QED
    BY <1>2, <2>2, SameTree, SamePlace
<1>13. TreeAt(f, l)'
  BY <1>7, <1>10, <1>11, <1>12 DEF TreeAt
<1>14. Cause'
  BY <1>9 DEF Cause
<1> QED
  BY <1>12, <1>13, <1>14 DEF TreeInv

LEMMA Aborted ==
  ASSUME StackInv, NEW f, NEW d, TreeAt(f, d), Named, Nested, yyresult = "running", NEW text, Abort(text),
         text = "duplicate setting name" => Twins,
         text = "mismatched element type in array" => Odd
  PROVE  TreeInv'
<1>1. /\ UNCHANGED <<states, vals, size, look, read, tree, parent, setting>> /\ yyresult' = "error"
      /\ error' = IF error = Nil THEN <<text, n>> ELSE error
  BY DEF Abort, Report, engine, ctx, n
<1>2. n' = n /\ Consumed' = Consumed
  BY <1>1, SameRead DEF Consumed
<1>3. Named' /\ Nested' /\ (\A g : Paths(g)' = Paths(g)) /\ Twins' = Twins /\ Odd' = Odd
  BY <1>1, SameLanguage
<1>4. TreeUpTo(f, tree, d)'
  <2>1. PICK t : t = tree
    OBVIOUS
  <2>2. TreeUpTo(f, t, d) /\ t = tree'
    BY <1>1, <2>1 DEF TreeAt
  <2> QED
    BY <1>1, <2>2, SameTree
<1>5. TreeAt(f, d)'
  BY <1>1, <1>2, <1>3, <1>4 DEF TreeAt
<1>6. Cause'
  <2>1. error = Nil \/ error[1] = "include"
    BY DEF TreeAt, Running
  <2>2. CASE error = Nil
    <3>1. error'[1] = text
      BY <1>1, <2>2
    <3> QED
      BY <1>3, <3>1 DEF Cause
  <2>3. CASE error # Nil
    <3>1. error'[1] = "include"
      BY <1>1, <2>1, <2>3
    <3> QED
      BY <3>1 DEF Cause
  <2> QED
    BY <2>2, <2>3
<1> QED
  BY <1>3, <1>5, <1>6 DEF TreeInv

\* The reductions but those that join strings.
LEMMA PlainReduction ==
  ASSUME StackInv, NEW f, NEW d, TreeAt(f, d), Named, Nested, Ready, Shifts = 0, yyn # 0, Goto,
         yyn \notin {21, 22},
         NEW t, t = tree', NEW p, p = parent', NEW s, s = setting', joined' = << >>,
         TreeUpTo(f, t, Consumed), At(f, p, s, Consumed)
  PROVE  TreeInv'
<1>1. Consumed \in Nat /\ Consumed \in 0..Consumed
  BY Standing DEF Ready
<1>2. joined' \in Seq(Nat) /\ Len(joined') = 0
  OBVIOUS
<1> PICK l \in 0..Consumed : l = Consumed
  BY <1>1
<1> QED
  BY <1>1, <1>2, Reduction

LEMMA KindOfRule ==
  /\ 11 \in ActsOn["NAME"] /\ 13 \in ActsOn["ARRAY_START"] /\ 14 \in ActsOn["ARRAY_END"]
  /\ 15 \in ActsOn["LIST_START"] /\ 16 \in ActsOn["LIST_END"] /\ 38 \in ActsOn["GROUP_START"]
  /\ 39 \in ActsOn["GROUP_END"] /\ 21 \in ActsOn["STRING"] /\ 22 \in ActsOn["STRING"]
  /\ 23 \in ActsOn["BOOLEAN"] /\ 24 \in ActsOn["INTEGER"] /\ 25 \in ActsOn["INTEGER64"]
  /\ 26 \in ActsOn["HEX"] /\ 27 \in ActsOn["HEX64"] /\ 28 \in ActsOn["FLOAT"]
  /\ {"NAME", "STRING"} \cup OpenKinds \cup CloseKinds \cup ScalarKinds \subseteq ActingKinds
  BY DEF ActsOn, ActingKinds, OpenKinds, CloseKinds, ScalarKinds

LEMMA NameOf ==
  ASSUME Named, read \in Seq(TokenSet), NEW i \in 1..n, Kind(i) # "NAME"
  PROVE  read[i].name = Nil
  BY DEF Named

LEMMA DeclareTree ==
  ASSUME StackInv, NEW f, NEW d, TreeAt(f, d), Named, Nested, Declare
  PROVE  TreeInv'
<1>1. Ready /\ Shifts = 0 /\ yyn = 11 /\ Goto /\ yyresult = "running"
  BY DEF Declare, Reduces, Ready
<1>2. /\ Ground(f, d) /\ TreeUpTo(f, tree, d) /\ At(f, parent, setting, d) /\ n \in Nat
  BY <1>1, Standing
<1>3. /\ Consumed = n /\ n \in 1..n /\ Kind(n) = "NAME" /\ May(n) /\ joined = << >> /\ n = d + 1
  <2>1. "NAME" \in ActingKinds /\ yyn \in ActsOn["NAME"] /\ yyn # 22
    BY <1>1, KindOfRule
  <2> QED
    BY <1>1, <2>1, Acts
<1> PICK m : m = n
  OBVIOUS
<1>4. NameText(Last(vals)) = read[m].name /\ Len(read) = m
  BY DEF NameText, n
<1>5. /\ ~ Taken(read[m].name) /\ tree' = With(NextOf(parent), Setting(read[m].name, "NONE", m))
      /\ setting' = NextOf(parent) /\ UNCHANGED <<parent, joined>>
  BY <1>4 DEF Declare
<1> PICK t : t = tree'
  OBVIOUS
<1>6. TreeUpTo(f, t, m) /\ At(f, parent, NextOf(parent), m)
  BY <1>2, <1>3, <1>5, NameToken
<1> PICK p : p = parent'
  OBVIOUS
<1> PICK s : s = setting'
  OBVIOUS
<1>7. TreeUpTo(f, t, Consumed) /\ At(f, p, s, Consumed)
  BY <1>3, <1>5, <1>6
<1> QED
  BY <1>1, <1>3, <1>5, <1>7, PlainReduction

LEMMA DuplicateTree ==
  ASSUME StackInv, NEW f, NEW d, TreeAt(f, d), Named, Nested, DuplicateName
  PROVE  TreeInv'
<1>1. yyn = 11 /\ yyresult = "running" /\ Abort("duplicate setting name") /\ Taken(NameText(Last(vals)))
  BY DEF DuplicateName, Reduces, Ready
<1>2. /\ Ground(f, d) /\ TreeUpTo(f, tree, d) /\ At(f, parent, setting, d) /\ n \in Nat
      /\ read \in Seq(TokenSet)
  BY <1>1, Standing
<1>3. /\ n \in 1..n /\ Kind(n) = "NAME" /\ May(n) /\ n = d + 1
  <2>0. yyn = 11
    BY <1>1
  <2>1. "NAME" \in ActingKinds /\ yyn \in ActsOn["NAME"] /\ yyn # 22
    BY <2>0, KindOfRule
  <2> QED
    BY <1>1, <2>1, Acts
<1> PICK m : m = n
  OBVIOUS
<1>4. NameText(Last(vals)) = read[m].name
  BY DEF NameText, n
<1>5. Twins
  BY <1>1, <1>2, <1>3, <1>4, TakenIsTwin
<1> QED
  BY <1>1, <1>5, Aborted

\* The value of a scalar and of a bracket.
LEMMA TypesOf ==
  /\ TypeOf("ARRAY_START") = "ARRAY" /\ TypeOf("LIST_START") = "LIST" /\ TypeOf("GROUP_START") = "GROUP"
  /\ TypeOf("BOOLEAN") = "BOOL" /\ TypeOf("INTEGER") = "INT" /\ TypeOf("HEX") = "INT"
  /\ TypeOf("INTEGER64") = "INT64" /\ TypeOf("HEX64") = "INT64" /\ TypeOf("FLOAT") = "FLOAT"
  /\ TypeOf("STRING") = "STRING"
  BY DEF TypeOf

Fields == {"name", "type", "hex", "value", "pos"}
IsSetting(s) == DOMAIN s = Fields /\ s = [k \in Fields |-> s[k]]

LEMMA SameSetting ==
  ASSUME NEW s, NEW r, IsSetting(s), IsSetting(r),
         s.name = r.name, s.type = r.type, s.hex = r.hex, s.value = r.value, s.pos = r.pos
  PROVE  s = r
<1>1. \A k \in Fields : s[k] = r[k]
  BY DEF Fields
<1> QED
  BY <1>1 DEF IsSetting

LEMMA SettingsAre ==
  ASSUME NEW name, NEW type, NEW pos
  PROVE  /\ IsSetting(Setting(name, type, pos))
         /\ Setting(name, type, pos).name = name /\ Setting(name, type, pos).type = type
         /\ Setting(name, type, pos).hex = FALSE /\ Setting(name, type, pos).value = << >>
         /\ Setting(name, type, pos).pos = pos
  BY DEF IsSetting, Fields, Setting

\* What a setting becomes that gets its type.
LEMMA Retyped ==
  ASSUME NEW name, NEW type, NEW pos, NEW x
  PROVE  [Setting(name, type, pos) EXCEPT !.type = x] = Setting(name, x, pos)
<1> PICK s : s = Setting(name, type, pos)
  OBVIOUS
<1> PICK r : r = Setting(name, x, pos)
  OBVIOUS
<1>0. IsSetting(r) /\ r.name = name /\ r.hex = FALSE /\ r.value = << >> /\ r.pos = pos /\ r.type = x
  BY DEF Setting, IsSetting, Fields
<1>1. IsSetting(s) /\ s.name = name /\ s.hex = FALSE /\ s.value = << >> /\ s.pos = pos
  BY DEF Setting, IsSetting, Fields
<1> DEFINE u == [s EXCEPT !.type = x]
<1>2. IsSetting(u) /\ u.name = name /\ u.hex = FALSE /\ u.value = << >> /\ u.pos = pos /\ u.type = x
  BY <1>1 DEF IsSetting, Fields
<1>3. u = r
  <2> HIDE DEF u
  <2> QED
    BY <1>0, <1>2, SameSetting
<1> QED
  BY <1>3

LEMMA OpenSetting ==
  ASSUME NEW i, Kind(ValueAt(i)) \in OpenKinds, Kind(i) # "STRING", NEW l
  PROVE  SettingUpTo(i, l) = Setting(read[i].name, TypeOf(Kind(ValueAt(i))), i)
<1>1. (Kind(ValueAt(i)) \in {"HEX", "HEX64"}) = FALSE
  BY DEF OpenKinds
<1> QED
  BY <1>1 DEF Setting, SettingUpTo

LEMMA StartTree ==
  ASSUME StackInv, NEW f, NEW d, TreeAt(f, d), Named, Nested, StartAggregate
  PROVE  TreeInv'
<1>1. Ready /\ Shifts = 0 /\ yyn \in {13, 15, 38} /\ yyn # 0 /\ Goto /\ yyresult = "running"
      /\ UNCHANGED joined
  BY DEF StartAggregate, Reduces, Ready
<1>2. /\ Ground(f, d) /\ TreeUpTo(f, tree, d) /\ At(f, parent, setting, d) /\ n \in Nat
      /\ read \in Seq(TokenSet) /\ d \in Nat
  BY <1>1, Standing
<1>3. PICK k \in OpenKinds : yyn \in ActsOn[k] /\ TypeOf(k) = (IF yyn = 13 THEN "ARRAY" ELSE IF yyn = 15
                                                          THEN "LIST" ELSE "GROUP")
  BY <1>1, KindOfRule, TypesOf DEF OpenKinds
<1>4. /\ Consumed = n /\ n \in 1..n /\ Kind(n) = k /\ May(n) /\ joined = << >> /\ n = d + 1
  <2>1. k \in ActingKinds /\ yyn # 22
    BY <1>1, KindOfRule
  <2> QED
    BY <1>1, <1>3, <2>1, Acts
<1> PICK m : m = n
  OBVIOUS
<1>5. Start(TypeOf(k)) /\ Len(read) = m
  BY <1>1, <1>3 DEF StartAggregate, n
<1>6. k \in StartKinds /\ k # "STRING" /\ ~ Follows(m) /\ k # "NAME" /\ k \notin {"HEX", "HEX64"}
  BY <1>4 DEF StartKinds, Follows, OpenKinds
<1>7. PlacesOK /\ m \in 1..n + 1 /\ Within(m) # "ARRAY_START" /\ Within(m) \in Contexts
  <2>1. PlacesOK /\ m \in 1..n + 1
    BY <1>2, <1>4 DEF Ground
  <2> QED
    BY <1>4, <2>1, Neighbours, OpenerIs
<1>8. InList <=> ~ Grouped(m)
  <2>1. InList <=> Within(m) = "LIST_START"
    BY <1>2, <1>4, <1>7, ParentIs
  <2> QED
    BY <1>7, <2>1 DEF Grouped, Contexts, OpenKinds
<1>9. Spans(m, m)
  BY <1>2, <1>4, <1>6 DEF Spans
<1> PICK t : t = tree'
  OBVIOUS
<1> PICK p : p = parent'
  OBVIOUS
<1> PICK s : s = setting'
  OBVIOUS
<1>10. TreeUpTo(f, t, m) /\ (IF Grouped(m) THEN p = f[d - 1] ELSE p = f[m])
  <2>1. CASE InList
    <3>1. t = With(NextOf(parent), Setting(Nil, TypeOf(k), m)) /\ p = NextOf(parent)
      BY <1>5, <2>1 DEF Start
    <3>2. Setting(Nil, TypeOf(k), m) = SettingUpTo(m, m)
      <4>1. read[m].name = Nil /\ ValueAt(m) = m
        BY <1>2, <1>4, <1>6, NameOf DEF ValueAt
      <4> QED
        BY <1>4, <1>6, <4>1, OpenSetting
    <3>3. Within(m) # "ARRAY_START"
      BY <1>7
    <3>4. TreeUpTo(f, t, m) /\ NextOf(parent) = f[m]
      BY <1>2, <1>4, <1>6, <1>8, <1>9, <2>1, <3>1, <3>2, <3>3, ElementToken
    <3> QED
      BY <1>8, <2>1, <3>1, <3>4
  <2>2. CASE ~ InList
    <3>1. t = [tree EXCEPT ![setting].type = TypeOf(k)] /\ p = setting
      BY <1>5, <2>2 DEF Start
    <3>2. /\ setting = f[d - 1] /\ setting \in DOMAIN tree /\ ValueAt(d - 1) = m /\ Kind(d - 1) = "NAME"
          /\ tree[setting] = Setting(read[d - 1].name, "NONE", d - 1)
          /\ tree = [q \in DOMAIN tree |-> tree[q]]
          /\ \A u : /\ DOMAIN u = DOMAIN tree /\ u = [q \in DOMAIN u |-> u[q]]
                    /\ \A q \in DOMAIN tree : q # setting => u[q] = tree[q]
                    /\ u[setting] = SettingUpTo(d - 1, m)
                    => TreeUpTo(f, u, m)
      BY <1>2, <1>4, <1>6, <1>8, <1>9, <2>2, ValueToken
    <3>3. t[setting] = SettingUpTo(d - 1, m)
      <4>1. t[setting] = [tree[setting] EXCEPT !.type = TypeOf(k)]
        BY <3>1, <3>2
      <4>2. t[setting] = Setting(read[d - 1].name, TypeOf(k), d - 1)
        BY <3>2, <4>1, Retyped
      <4> QED
        BY <1>4, <1>6, <3>2, <4>2, OpenSetting
    <3>4. /\ DOMAIN t = DOMAIN tree /\ t = [q \in DOMAIN t |-> t[q]]
          /\ \A q \in DOMAIN tree : q # setting => t[q] = tree[q]
      BY <3>1, <3>2
    <3>5. TreeUpTo(f, t, m)
      BY <3>2, <3>3, <3>4
    <3> QED
      BY <1>8, <2>2, <3>1, <3>2, <3>5
  <2> QED
    BY <2>1, <2>2
<1>11. At(f, p, s, m)
  BY <1>2, <1>4, <1>10, AfterOpen
<1>12. TreeUpTo(f, t, Consumed) /\ At(f, p, s, Consumed)
  BY <1>4, <1>10, <1>11
<1> QED
  BY <1>1, <1>4, <1>12, PlainReduction

LEMMA EndTree ==
  ASSUME StackInv, NEW f, NEW d, TreeAt(f, d), Named, Nested, EndAggregate
  PROVE  TreeInv'
<1>1. Ready /\ Shifts = 0 /\ yyn \in {14, 16, 39} /\ yyn # 0 /\ Goto /\ yyresult = "running"
      /\ UNCHANGED <<joined, tree, setting>> /\ parent' = Up
  BY DEF EndAggregate, Reduces, Ready
<1>2. /\ Ground(f, d) /\ TreeUpTo(f, tree, d) /\ At(f, parent, setting, d) /\ n \in Nat
  BY <1>1, Standing
<1>3. PICK k \in CloseKinds : yyn \in ActsOn[k]
  BY <1>1, KindOfRule DEF CloseKinds
<1>4. /\ Consumed = n /\ n \in 1..n /\ Kind(n) = k /\ May(n) /\ joined = << >> /\ n = d + 1
  <2>1. k \in ActingKinds /\ yyn # 22
    BY <1>1, KindOfRule
  <2> QED
    BY <1>1, <1>3, <2>1, Acts
<1> PICK m : m = n
  OBVIOUS
<1>5. TreeUpTo(f, tree, m) /\ At(f, Up, setting, m)
  BY <1>2, <1>3, <1>4, CloseToken
<1> PICK t : t = tree'
  OBVIOUS
<1> PICK p : p = parent'
  OBVIOUS
<1> PICK s : s = setting'
  OBVIOUS
<1>6. TreeUpTo(f, t, Consumed) /\ At(f, p, s, Consumed)
  BY <1>1, <1>4, <1>5
<1> QED
  BY <1>1, <1>4, <1>6, PlainReduction

LEMMA ScalarSetting ==
  ASSUME NEW i, NEW v, v = ValueAt(i), Kind(v) \in ScalarKinds, NEW l
  PROVE  LET s == SettingUpTo(i, l)
         IN /\ IsSetting(s) /\ s.name = read[i].name /\ s.type = TypeOf(Kind(v))
            /\ s.hex = (Kind(v) \in {"HEX", "HEX64"})
            /\ s.value = IF Kind(v) = "STRING" THEN [k \in 1..l - v + 1 |-> v + k - 1] ELSE <<v>>
            /\ s.pos = IF Kind(i) = "STRING" THEN l + 1 ELSE i
<1>1. Kind(v) \notin OpenKinds
  BY KindsDiffer DEF Distinct
<1> DEFINE s == SettingUpTo(i, l)
<1>2. IsSetting(s) /\ s.name = read[i].name /\ s.type = TypeOf(Kind(v))
  BY DEF SettingUpTo, IsSetting, Fields
<1>3. s.hex = (Kind(v) \in {"HEX", "HEX64"}) /\ s.pos = IF Kind(i) = "STRING" THEN l + 1 ELSE i
  BY DEF SettingUpTo
<1>4. s.value = IF Kind(v) = "STRING" THEN [k \in 1..l - v + 1 |-> v + k - 1] ELSE <<v>>
  BY <1>1 DEF SettingUpTo
<1> QED
  BY <1>2, <1>3, <1>4

\* A value that is a scalar, or a string of several tokens.
LEMMA ValueTree ==
  ASSUME NEW f, NEW d, Ground(f, d), TreeUpTo(f, tree, d), At(f, parent, setting, d), Named,
         read \in Seq(TokenSet), NEW m, m = d + 1, m \in 1..n, May(m), Kind(m) \in ScalarKinds,
         ~ Follows(m), NEW l, Spans(m, l), opens[l + 1] = opens[m],
         NEW type, type = TypeOf(Kind(m)), NEW hex, hex = (Kind(m) \in {"HEX", "HEX64"}),
         NEW value,
         value = IF Kind(m) = "STRING" THEN [k \in 1..l - m + 1 |-> m + k - 1] ELSE <<m>>,
         n = IF Kind(m) = "STRING" THEN l + 1 ELSE m,
         FitsArray(type), Value(type, hex, value), NEW t, t = tree'
  PROVE  TreeUpTo(f, t, l) /\ \A s : At(f, parent, s, l)
<1>1. PlacesOK /\ m \in 1..n + 1 /\ n \in Nat /\ d \in Nat
  <2>1. n \in Nat /\ d \in Nat
    BY Nodes
  <2>2. PlacesOK
    BY DEF Ground
  <2> QED
    BY <2>1, <2>2
<1>2. Kind(m) \in StartKinds /\ Kind(m) # "NAME"
  BY KindsDiffer DEF Distinct
<1>3. InArray \/ InList <=> ~ Grouped(m)
  <2>1. (InArray <=> Within(m) = "ARRAY_START") /\ (InList <=> Within(m) = "LIST_START")
    BY <1>1, ParentIs
  <2>2. Within(m) \in Contexts
    BY <1>1, OpenerIs
  <2> QED
    BY <2>1, <2>2 DEF Grouped, Contexts, OpenKinds
<1>4. CASE InArray \/ InList
  <2> PICK old : old = Setting(Nil, type, n)
    OBVIOUS
  <2> PICK x : x = [old EXCEPT !.value = value, !.hex = hex]
    OBVIOUS
  <2>1. t = With(NextOf(parent), x)
    BY <1>4 DEF Value, n
  <2>2. IsSetting(old) /\ old.name = Nil /\ old.type = type /\ old.pos = n
    BY DEF Setting, IsSetting, Fields
  <2>3. /\ IsSetting(x) /\ x.name = Nil /\ x.type = type /\ x.hex = hex /\ x.value = value
        /\ x.pos = n
    BY <2>2 DEF IsSetting, Fields
  <2>4. ValueAt(m) = m /\ read[m].name = Nil
    BY <1>2, NameOf DEF ValueAt
  <2>5. SettingUpTo(m, l) = x
    <3> PICK y : y = SettingUpTo(m, l)
      OBVIOUS
    <3>1. /\ IsSetting(y) /\ y.name = Nil /\ y.type = type /\ y.hex = hex /\ y.value = value
          /\ y.pos = n
      BY <2>4, ScalarSetting
    <3> QED
      BY <2>3, <3>1, SameSetting
  <2>6. \A j \in Brought(d) : Opener(j) = Opener(m) /\ Within(m) = "ARRAY_START" =>
          TypeOf(Kind(m)) = tree[f[j]].type
    BY <1>1, FitsPeers
  <2>7. t = With(NextOf(parent), SettingUpTo(m, l))
    BY <2>1, <2>5
  <2>8. TreeUpTo(f, t, l)
    BY <1>2, <1>3, <1>4, <2>6, <2>7, ElementToken
  <2> QED
    BY <2>8, AfterScalar
<1>5. CASE ~ (InArray \/ InList)
  <2>1. t = [tree EXCEPT ![setting] =
                    [@ EXCEPT !.type = type, !.value = value, !.hex = hex]]
    BY <1>5 DEF Value
  <2>2. /\ setting = f[d - 1] /\ setting \in DOMAIN tree /\ ValueAt(d - 1) = m /\ Kind(d - 1) = "NAME"
        /\ tree[setting] = Setting(read[d - 1].name, "NONE", d - 1)
        /\ tree = [q \in DOMAIN tree |-> tree[q]]
        /\ \A u : /\ DOMAIN u = DOMAIN tree /\ u = [q \in DOMAIN u |-> u[q]]
                  /\ \A q \in DOMAIN tree : q # setting => u[q] = tree[q]
                  /\ u[setting] = SettingUpTo(d - 1, l)
                  => TreeUpTo(f, u, l)
    BY <1>2, <1>3, <1>5, ValueToken
  <2> PICK c : c = d - 1
    OBVIOUS
  <2> PICK old : old = tree[setting]
    OBVIOUS
  <2> PICK x : x = [old EXCEPT !.type = type, !.value = value, !.hex = hex]
    OBVIOUS
  <2> PICK name : name = read[c].name
    OBVIOUS
  <2>3. IsSetting(old) /\ old.name = name /\ old.pos = c
    BY <2>2 DEF Setting, IsSetting, Fields
  <2>4. /\ IsSetting(x) /\ x.name = name /\ x.type = type /\ x.hex = hex /\ x.value = value
        /\ x.pos = c
    BY <2>3 DEF IsSetting, Fields
  <2>5. SettingUpTo(c, l) = x
    <3> PICK y : y = SettingUpTo(c, l)
      OBVIOUS
    <3>1. ValueAt(c) = m /\ Kind(c) = "NAME"
      BY <2>2
    <3>2. /\ IsSetting(y) /\ y.name = name /\ y.type = type /\ y.hex = hex /\ y.value = value
          /\ y.pos = c
      BY <3>1, ScalarSetting
    <3> QED
      BY <2>4, <3>2, SameSetting
  <2>6. /\ DOMAIN t = DOMAIN tree /\ t = [q \in DOMAIN t |-> t[q]]
        /\ \A q \in DOMAIN tree : q # setting => t[q] = tree[q]
        /\ t[setting] = x
    BY <2>1, <2>2
  <2>7. TreeUpTo(f, t, l)
    BY <2>2, <2>5, <2>6
  <2> QED
    BY <2>7, AfterScalar
<1> QED
  BY <1>4, <1>5

LEMMA ScalarRule ==
  ASSUME yyn \in 23..28
  PROVE  \E k \in ScalarKinds \ {"STRING"} :
           /\ yyn \in ActsOn[k] /\ scalarType[yyn] = TypeOf(k)
           /\ (yyn \in {26, 27}) = (k \in {"HEX", "HEX64"})
<1>1. yyn \in {23, 24, 25, 26, 27, 28}
  OBVIOUS
<1> DEFINE Fits(k) == /\ yyn \in ActsOn[k] /\ scalarType[yyn] = TypeOf(k)
                      /\ (yyn \in {26, 27}) = (k \in {"HEX", "HEX64"})
<1>2. yyn = 23 => Fits("BOOLEAN")
  BY KindOfRule, TypesOf DEF scalarType
<1>3. yyn = 24 => Fits("INTEGER")
  BY KindOfRule, TypesOf DEF scalarType
<1>4. yyn = 25 => Fits("INTEGER64")
  BY KindOfRule, TypesOf DEF scalarType
<1>5. yyn = 26 => Fits("HEX")
  BY KindOfRule, TypesOf DEF scalarType
<1>6. yyn = 27 => Fits("HEX64")
  BY KindOfRule, TypesOf DEF scalarType
<1>7. yyn = 28 => Fits("FLOAT")
  BY KindOfRule, TypesOf DEF scalarType
<1>8. {"BOOLEAN", "INTEGER", "INTEGER64", "HEX", "HEX64", "FLOAT"} \subseteq ScalarKinds \ {"STRING"}
  BY DEF ScalarKinds
<1> HIDE DEF Fits
<1>9. \E k \in ScalarKinds \ {"STRING"} : Fits(k)
  BY <1>1, <1>2, <1>3, <1>4, <1>5, <1>6, <1>7, <1>8
<1> QED
  BY <1>9 DEF Fits

\* Where a scalar token is on top.
LEMMA AtScalar ==
  ASSUME StackInv, NEW f, NEW d, TreeAt(f, d), yyresult = "running", yyn \in 23..28
  PROVE  /\ Consumed = n /\ n \in 1..n /\ n = d + 1 /\ May(n) /\ joined = << >> /\ Last(vals) = n
         /\ Kind(n) \in ScalarKinds \ {"STRING"} /\ scalarType[yyn] = TypeOf(Kind(n))
         /\ (yyn \in {26, 27}) = (Kind(n) \in {"HEX", "HEX64"})
         /\ ~ Follows(n) /\ Spans(n, n) /\ opens[n + 1] = opens[n]
<1>1. PICK k \in ScalarKinds \ {"STRING"} :
        /\ yyn \in ActsOn[k] /\ scalarType[yyn] = TypeOf(k)
        /\ (yyn \in {26, 27}) = (k \in {"HEX", "HEX64"})
  BY ScalarRule
<1>2. /\ Consumed = n /\ n \in 1..n /\ Kind(n) = k /\ Last(vals) = n /\ May(n)
      /\ joined = << >> /\ n = d + 1
  <2>1. k \in ActingKinds /\ yyn # 22
    BY KindOfRule
  <2> QED
    BY <1>1, <2>1, Acts
<1>3. n \in Nat /\ PlacesOK
  BY Standing DEF Ground
<1>4. ~ Follows(n) /\ Spans(n, n)
  BY <1>1, <1>2, <1>3 DEF Follows, Spans
<1>5. opens[n + 1] = opens[n]
  <2>1. k \notin OpenKinds \cup CloseKinds
    BY <1>1, KindsDiffer DEF Distinct
  <2> QED
    BY <1>2, <1>3, <2>1, After
<1> QED
  BY <1>1, <1>2, <1>4, <1>5

LEMMA ScalarTree ==
  ASSUME StackInv, NEW f, NEW d, TreeAt(f, d), Named, Nested, ScalarValue
  PROVE  TreeInv'
<1>1. /\ Ready /\ Shifts = 0 /\ yyn \in 23..28 /\ yyn # 0 /\ Goto /\ yyresult = "running"
      /\ UNCHANGED <<joined, parent, setting>> /\ FitsArray(scalarType[yyn])
      /\ Value(scalarType[yyn], yyn \in {26, 27}, <<Last(vals)>>)
  BY DEF ScalarValue, Reduces, Ready
<1>2. /\ Ground(f, d) /\ TreeUpTo(f, tree, d) /\ At(f, parent, setting, d)
      /\ read \in Seq(TokenSet)
  BY <1>1, Standing
<1>3. /\ Consumed = n /\ n \in 1..n /\ n = d + 1 /\ May(n) /\ joined = << >> /\ Last(vals) = n
      /\ Kind(n) \in ScalarKinds \ {"STRING"} /\ scalarType[yyn] = TypeOf(Kind(n))
      /\ (yyn \in {26, 27}) = (Kind(n) \in {"HEX", "HEX64"})
      /\ ~ Follows(n) /\ Spans(n, n) /\ opens[n + 1] = opens[n]
  BY <1>1, AtScalar
<1> PICK m : m = n
  OBVIOUS
<1> PICK type : type = scalarType[yyn]
  OBVIOUS
<1> PICK hex : hex = (yyn \in {26, 27})
  OBVIOUS
<1> PICK value : value = <<m>>
  OBVIOUS
<1> PICK t : t = tree'
  OBVIOUS
<1>4. FitsArray(type) /\ Value(type, hex, value)
  BY <1>1, <1>3
<1>5. TreeUpTo(f, t, m) /\ \A s : At(f, parent, s, m)
  BY <1>2, <1>3, <1>4, ValueTree
<1> PICK p : p = parent'
  OBVIOUS
<1> PICK s : s = setting'
  OBVIOUS
<1>6. TreeUpTo(f, t, Consumed) /\ At(f, p, s, Consumed)
  BY <1>1, <1>3, <1>5
<1>7. yyn \notin {21, 22}
  BY <1>1
<1> QED
  BY <1>1, <1>3, <1>6, <1>7, PlainReduction

\* Where a string is complete.
LEMMA AtString ==
  ASSUME StackInv, NEW f, NEW d, TreeAt(f, d), Ready, Shifts = 0, yyn = 29
  PROVE  /\ d + 1 \in 1..n /\ May(d + 1) /\ Kind(d + 1) = "STRING" /\ ~ Follows(d + 1)
         /\ n = Consumed + 1 /\ Spans(d + 1, Consumed) /\ opens[Consumed + 1] = opens[d + 1]
         /\ joined = [k \in 1..Consumed - (d + 1) + 1 |-> (d + 1) + k - 1]
<1>0. yyresult = "running"
  BY DEF Ready
<1>1. /\ Running(d) /\ Typed /\ n \in Nat /\ d \in Nat /\ d <= Consumed /\ Consumed \in 0..n
      /\ Len(joined) \in Nat /\ (\A i \in 1..Consumed : May(i)) /\ Top \in States
      /\ look # << >> => n = Consumed + 1 /\ n \in 1..n /\ read[look[1]].kind = Kind(n)
  BY <1>0, Standing
<1>2. Top = 22 /\ yystos[Top + 1] = StringSymbol
  BY <1>1, ActionsAssumption DEF yyn
<1>3. ~ Decides(22)
  <2>1. "STRING" \in TokenKinds
    BY DEF TokenKinds, yytranslate
  <2>2. ShiftOn(22, "STRING") = 31
    BY <2>1, ActionsAssumption
  <2> QED
    BY <2>2 DEF ShiftOn
<1>4. look # << >>
  BY <1>2, <1>3 DEF Ready, Decided
<1>5. Kind(n) # "STRING"
  <2>1. ShiftOn(22, Kind(n)) = 0
    BY <1>1, <1>2, <1>4 DEF Shifts
  <2>2. Kind(n) \in TokenKinds
    BY <1>1, <1>4, TypedFacts DEF PlacesOK
  <2> QED
    BY <2>1, <2>2, ActionsAssumption
<1>6. ~ Acting
  <2>1. \A k \in ActingKinds : ~ IsKind(Top, {k})
    <3>1. ~ IsToken(Top)
      BY <1>2 DEF IsToken, YYNTOKENS, StringSymbol
    <3> QED
      BY <3>1, TopToken
  <2> QED
    BY <2>1 DEF Acting, IsKind
<1> PICK h : h = Len(joined)
  OBVIOUS
<1>7. Consumed = d + h /\ h \in Nat /\ h # 0 /\ Before(d + 1) # "STRING"
  <2>1. Consumed = d + Len(joined) /\ joined # << >> /\ Before(d + 1) # "STRING" /\ joined \in Seq(Nat)
    BY <1>1, <1>2, <1>6 DEF Running
  <2>2. Len(joined) # 0
    BY <2>1, EmptySeq
  <2> QED
    BY <1>1, <2>1, <2>2
<1>8. \A k \in 1..h :
        joined[k] = d + k /\ Kind(d + k) = "STRING" /\ opens[d + k + 1] = opens[d + 1]
  BY <1>1 DEF Running
<1>9. \A i \in d + 1..Consumed : Kind(i) = "STRING"
  <2> TAKE i \in d + 1..Consumed
  <2>1. i - d \in 1..h /\ d + (i - d) = i
    BY <1>1, <1>7
  <2> QED
    BY <1>8, <2>1
<1>10. opens[Consumed + 1] = opens[d + 1] /\ Kind(d + 1) = "STRING"
  <2>1. h \in 1..h /\ 1 \in 1..h
    BY <1>7
  <2> QED
    BY <1>7, <1>8, <2>1
<1>11. joined = [k \in 1..Consumed - (d + 1) + 1 |-> (d + 1) + k - 1]
  <2>1. Consumed - (d + 1) + 1 = h /\ \A k \in 1..h : (d + 1) + k - 1 = d + k
    BY <1>1, <1>7
  <2>2. joined = [k \in 1..h |-> joined[k]]
    BY <1>1 DEF Running
  <2>3. [k \in 1..h |-> joined[k]] = [k \in 1..h |-> (d + 1) + k - 1]
    BY <1>8, <2>1
  <2> QED
    BY <2>1, <2>2, <2>3
<1>12. Spans(d + 1, Consumed)
  <2>1. Consumed \in Nat /\ d + 1 <= Consumed /\ Consumed < n /\ n = Consumed + 1
    BY <1>1, <1>4, <1>7
  <2> QED
    BY <1>5, <1>9, <1>10, <2>1 DEF Spans, RunEnds
<1>13. d + 1 \in 1..n /\ d + 1 \in 1..Consumed
  BY <1>1, <1>7
<1> QED
  BY <1>1, <1>4, <1>7, <1>10, <1>11, <1>12, <1>13 DEF Follows

LEMMA NotHex ==
  ASSUME NEW k, NEW hex, hex = FALSE, ~ (k \in {"HEX", "HEX64"})
  PROVE  hex = (k \in {"HEX", "HEX64"})
<1>1. (k \in {"HEX", "HEX64"}) = FALSE
  OBVIOUS
<1>2. (k \in {"HEX", "HEX64"}) = hex
  BY <1>1
<1> QED
  BY <1>2

LEMMA StringTree ==
  ASSUME StackInv, NEW f, NEW d, TreeAt(f, d), Named, Nested, StringValue
  PROVE  TreeInv'
<1>1. /\ Ready /\ Shifts = 0 /\ yyn = 29 /\ Goto /\ yyresult = "running"
      /\ UNCHANGED <<parent, setting>> /\ joined' = << >> /\ FitsArray("STRING")
      /\ Value("STRING", FALSE, joined)
  BY DEF StringValue, Reduces, Ready
<1>2. /\ Ground(f, d) /\ TreeUpTo(f, tree, d) /\ At(f, parent, setting, d)
      /\ read \in Seq(TokenSet)
  BY <1>1, Standing
<1> PICK m : m = d + 1
  OBVIOUS
<1> PICK l : l = Consumed
  OBVIOUS
<1>3. /\ m \in 1..n /\ May(m) /\ Kind(m) = "STRING" /\ ~ Follows(m)
      /\ n = l + 1 /\ Spans(m, l) /\ opens[l + 1] = opens[m]
      /\ joined = [k \in 1..l - m + 1 |-> m + k - 1]
  BY <1>1, AtString
<1> PICK type : type = "STRING"
  OBVIOUS
<1> PICK hex : hex = FALSE
  OBVIOUS
<1> PICK value : value = joined
  OBVIOUS
<1> PICK t : t = tree'
  OBVIOUS
<1>4. FitsArray(type) /\ Value(type, hex, value)
  BY <1>1
<1>5. /\ Kind(m) \in ScalarKinds /\ type = TypeOf(Kind(m)) /\ hex = (Kind(m) \in {"HEX", "HEX64"})
      /\ value = IF Kind(m) = "STRING" THEN [k \in 1..l - m + 1 |-> m + k - 1] ELSE <<m>>
      /\ n = IF Kind(m) = "STRING" THEN l + 1 ELSE m
  <2>1. Kind(m) = "STRING"
    BY <1>3
  <2>2. Kind(m) \in ScalarKinds /\ type = TypeOf(Kind(m))
    BY <2>1, TypesOf DEF ScalarKinds
  <2>3. ~ (Kind(m) \in {"HEX", "HEX64"})
    BY <2>1
  <2>4. hex = (Kind(m) \in {"HEX", "HEX64"})
    BY <2>3, NotHex
  <2>5. value = [k \in 1..l - m + 1 |-> m + k - 1] /\ n = l + 1
    BY <1>3
  <2>6. value = IF Kind(m) = "STRING" THEN [k \in 1..l - m + 1 |-> m + k - 1] ELSE <<m>>
    BY <2>1, <2>5
  <2>7. n = IF Kind(m) = "STRING" THEN l + 1 ELSE m
    BY <2>1, <2>5
  <2> QED
    BY <2>2, <2>4, <2>6, <2>7
<1>6. TreeUpTo(f, t, l) /\ \A s : At(f, parent, s, l)
  BY <1>2, <1>3, <1>4, <1>5, ValueTree
<1> PICK p : p = parent'
  OBVIOUS
<1> PICK s : s = setting'
  OBVIOUS
<1>7. TreeUpTo(f, t, Consumed) /\ At(f, p, s, Consumed)
  BY <1>1, <1>6
<1>8. yyn \notin {21, 22} /\ yyn # 0
  BY <1>1
<1> QED
  BY <1>1, <1>7, <1>8, PlainReduction

LEMMA MismatchTree ==
  ASSUME StackInv, NEW f, NEW d, TreeAt(f, d), Named, Nested, Mismatch
  PROVE  TreeInv'
<1>1. /\ Ready /\ Shifts = 0 /\ yyn \in 23..29 /\ yyresult = "running" /\ ~ FitsArray(scalarType[yyn])
      /\ Abort("mismatched element type in array")
  BY DEF Mismatch, Reduces, Ready
<1>2. /\ Ground(f, d) /\ TreeUpTo(f, tree, d) /\ At(f, parent, setting, d)
  BY <1>1, Standing
<1> PICK m : m = d + 1
  OBVIOUS
<1>3. m \in 1..n /\ Kind(m) \in ScalarKinds /\ ~ Follows(m) /\ scalarType[yyn] = TypeOf(Kind(m))
  <2>1. CASE yyn = 29
    <3>1. m \in 1..n /\ Kind(m) = "STRING" /\ ~ Follows(m)
      BY <1>1, <2>1, AtString
    <3>2. scalarType[29] = "STRING"
      BY DEF scalarType
    <3> QED
      BY <2>1, <3>1, <3>2, TypesOf DEF ScalarKinds
  <2>2. CASE yyn # 29
    <3> PICK r : r = yyn
      OBVIOUS
    <3>1. r \in 23..29 /\ r # 29
      BY <1>1, <2>2
    <3>2. r \in 23..28
      BY <3>1
    <3> QED
      BY <1>1, <3>2, AtScalar
  <2> QED
    BY <2>1, <2>2
<1>4. Odd
  BY <1>1, <1>2, <1>3, MisfitIsOdd
<1>5. "mismatched element type in array" # "duplicate setting name"
  OBVIOUS
<1> QED
  BY <1>1, <1>4, <1>5, Aborted

LEMMA JoinTree ==
  ASSUME StackInv, NEW f, NEW d, TreeAt(f, d), Named, Nested, JoinString
  PROVE  TreeInv'
<1>1. /\ Ready /\ Shifts = 0 /\ yyn \in {21, 22} /\ yyn # 0 /\ Goto /\ yyresult = "running"
      /\ UNCHANGED <<tree, parent, setting>> /\ joined' = Append(joined, Last(vals))
  BY DEF JoinString, Reduces, Ready, ctx
<1>2. /\ Running(d) /\ TreeUpTo(f, tree, d) /\ At(f, parent, setting, d) /\ n \in Nat /\ d \in Nat
      /\ Len(joined) \in Nat /\ PlacesOK
  BY <1>1, Standing DEF Ground
<1>3. /\ Consumed = n /\ n \in 1..n /\ Kind(n) = "STRING" /\ Last(vals) = n
      /\ n = d + Len(joined) + 1 /\ Before(d + 1) # "STRING"
  <2>1. "STRING" \in ActingKinds /\ yyn \in ActsOn["STRING"]
    BY <1>1, KindOfRule
  <2> QED
    BY <1>1, <2>1, Acts
<1> PICK h : h = Len(joined)
  OBVIOUS
<1> PICK t : t = tree'
  OBVIOUS
<1> PICK p : p = parent'
  OBVIOUS
<1> PICK s : s = setting'
  OBVIOUS
<1>4. TreeUpTo(f, t, d) /\ At(f, p, s, d)
  BY <1>1, <1>2
<1>5. /\ joined' \in Seq(Nat) /\ Len(joined') = h + 1 /\ joined' # << >>
      /\ joined'[h + 1] = n /\ \A k \in 1..h : joined'[k] = joined[k]
  <2>1. joined \in Seq(Nat)
    BY <1>2 DEF Running
  <2> QED
    BY <1>1, <1>2, <1>3, <2>1
<1>6. \A k \in 1..h :
        joined[k] = d + k /\ Kind(d + k) = "STRING" /\ opens[d + k + 1] = opens[d + 1]
  BY <1>2 DEF Running
<1>7. opens[n + 1] = opens[n] /\ opens[n] = opens[d + 1]
  <2>1. "STRING" \notin OpenKinds \cup CloseKinds
    BY DEF OpenKinds, CloseKinds
  <2>2. opens[n + 1] = opens[n]
    BY <1>2, <1>3, <2>1, After
  <2>3. n = d + h + 1 /\ (h # 0 => h \in 1..h)
    BY <1>2, <1>3
  <2>4. opens[n] = opens[d + 1]
    BY <1>2, <1>6, <2>3
  <2> QED
    BY <2>2, <2>4
<1>8. \A k \in 1..Len(joined') :
        joined'[k] = d + k /\ Kind(d + k) = "STRING" /\ opens[d + k + 1] = opens[d + 1]
  <2> TAKE k \in 1..Len(joined')
  <2>1. CASE k = h + 1
    <3>1. d + k = n
      BY <1>2, <1>3, <2>1
    <3> QED
      BY <1>3, <1>5, <1>7, <2>1, <3>1
  <2>2. CASE k # h + 1
    <3>1. k \in 1..h
      BY <1>2, <1>5, <2>2
    <3> QED
      BY <1>5, <1>6, <3>1
  <2> QED
    BY <2>1, <2>2
<1>9. Consumed = d + Len(joined') /\ d \in 0..Consumed
  BY <1>2, <1>3, <1>5
<1> QED
  BY <1>1, <1>3, <1>4, <1>5, <1>8, <1>9, Reduction

LEMMA NoActionTree ==
  ASSUME StackInv, NEW f, NEW d, TreeAt(f, d), Named, Nested, NoAction
  PROVE  TreeInv'
<1>1. /\ Ready /\ Shifts = 0 /\ yyn \in (1..39) \ ({11, 13, 14, 15, 16, 38, 39} \cup 21..29) /\ yyn # 0
      /\ Goto /\ yyresult = "running" /\ UNCHANGED <<tree, parent, setting, joined>>
  BY DEF NoAction, Reduces, Ready, ctx
<1>2. /\ Running(d) /\ TreeUpTo(f, tree, d) /\ At(f, parent, setting, d) /\ Top \in States
      /\ d \in Nat
  BY <1>1, Standing
<1>3. yyn \notin {21, 22, 29}
  BY <1>1
<1>4. joined = << >>
  <2>1. Top \notin {22, 31}
    BY <1>2, <1>3, ActionsAssumption DEF yyn
  <2> QED
    BY <1>2, <2>1 DEF Running
<1>5. ~ Acting
  <2>1. \A k \in ActingKinds : yyn \notin ActsOn[k]
    BY <1>1 DEF ActingKinds, ActsOn
  <2>2. \A k \in ActingKinds : ~ IsKind(Top, {k})
    BY <1>2, <2>1, ActionsAssumption DEF yyn
  <2> QED
    BY <2>2 DEF Acting, IsKind
<1>6. Consumed = d
  <2>1. Consumed = d + Len(joined) + 0
    BY <1>2, <1>5 DEF Running
  <2>2. Len(joined) = 0
    BY <1>4
  <2> QED
    BY <1>2, <2>1, <2>2
<1> PICK t : t = tree'
  OBVIOUS
<1> PICK p : p = parent'
  OBVIOUS
<1> PICK s : s = setting'
  OBVIOUS
<1>7. TreeUpTo(f, t, Consumed) /\ At(f, p, s, Consumed)
  BY <1>1, <1>2, <1>6
<1> QED
  BY <1>1, <1>3, <1>4, <1>7, PlainReduction


LEMMA SyntaxErrorTree ==
  ASSUME StackInv, NEW f, NEW d, TreeAt(f, d), Named, Nested, SyntaxError
  PROVE  TreeInv'
<1>1. yyresult = "running" /\ Abort("syntax error")
  BY DEF SyntaxError, Ready
<1>2. "syntax error" # "duplicate setting name" /\ "syntax error" # "mismatched element type in array"
  OBVIOUS
<1> QED
  BY <1>1, <1>2, Aborted

\* A shift, with nothing to be done about the token on top.
LEMMA Shifting ==
  ASSUME StackInv, NEW f, NEW d, TreeAt(f, d), Shift
  PROVE  /\ n = d + Len(joined) + 1 /\ n \in 1..n /\ May(n) /\ d + 1 \in Nat /\ Len(joined) \in Nat
         /\ n' = n /\ Consumed' = n /\ (Acting' <=> Kind(n) \in ActingKinds)
         /\ Top' # 22 /\ (joined # << >> <=> Top' = 31) /\ (joined # << >> => Kind(n) \in ActingKinds)
         /\ (Top' = 15 => Kind(n) \in ActingKinds /\ Before(d + 1) # "STRING")
         /\ (joined # << >> => Before(d + 1) # "STRING")
         /\ yyresult' \in {"running", "ok", "exhausted"}
         /\ yyresult' \in {"running", "ok"} =>
              size' \in Nat /\ Len(states') < size' /\ UNCHANGED error
         /\ yyresult' = "ok" => Kind(n) = "EOF"
<1>1. /\ yyresult = "running" /\ look # << >> /\ Shifts # 0 /\ look' = << >>
      /\ Push(Shifts, look[1], states, vals) /\ UNCHANGED <<read, tree, parent, setting, joined>>
  BY DEF Shift, Shifts, Ready, ctx
<1>2. /\ Running(d) /\ Typed /\ d \in Nat /\ Len(joined) \in Nat /\ Top \in States /\ n \in Nat
      /\ n = Consumed + 1 /\ n \in 1..n /\ read[look[1]].kind = Kind(n) /\ PlacesOK /\ Known
  BY <1>1, Standing DEF Ground, StackInv
<1>3. ~ Acting
  <2> SUFFICES ASSUME Acting PROVE FALSE
    OBVIOUS
  <2>1. PICK k \in ActingKinds : IsKind(Top, {k})
    BY DEF Acting, IsKind
  <2> QED
    BY <1>1, <2>1, TopToken
<1>4. n = d + Len(joined) + 1
  BY <1>2, <1>3 DEF Running
<1> PICK to : to = Shifts
  OBVIOUS
<1>5. /\ to # 0 /\ to = ShiftOn(Top, Kind(n)) /\ Kind(n) \in TokenKinds /\ to \in States
      /\ yystos[to + 1] = yytranslate[Kind(n)]
  <2>1. to # 0 /\ to = ShiftOn(Top, Kind(n)) /\ Kind(n) \in TokenKinds
    BY <1>1, <1>2 DEF Shifts, PlacesOK
  <2>2. <<Top, to>> \in Edges /\ yystos[to + 1] = yytranslate[Kind(n)]
    BY <1>2, <2>1, EdgesAssumption
  <2>3. to \in States
    BY <2>2, EdgesAssumption
  <2> QED
    BY <2>1, <2>2, <2>3
<1>6. IsKind(to, ActingKinds) <=> Kind(n) \in ActingKinds
  <2>1. ActingKinds \subseteq TokenKinds
    BY DEF ActingKinds, ActsOn, TokenKinds, yytranslate
  <2> QED
    BY <1>5, <2>1, Translated DEF IsKind
<1>7. StackInv' /\ Len(states') = Len(states) + 1
  BY ShiftStack
<1>8. Top' = to
  <2>1. states' = Append(states, to) /\ states \in Seq(States)
    BY <1>1, <1>2 DEF Push, Typed
  <2>2. Append(states, to)[Len(states) + 1] = to
    BY <2>1
  <2> QED
    BY <1>7, <2>1, <2>2 DEF Top, Last
<1>9. n' = n /\ Consumed' = n /\ \A i : Kind(i)' = Kind(i) /\ May(i)' = May(i)
  <2>1. n' = n /\ \A i : Kind(i)' = Kind(i) /\ May(i)' = May(i)
    BY <1>1, SameRead
  <2> QED
    BY <1>1, <1>2, <2>1 DEF Consumed
<1>10. May(n)
  <2>1. \A i \in 1..Consumed' : May(i)'
    BY <1>7 DEF StackInv, Told
  <2> QED
    BY <1>2, <1>9, <2>1
<1>11. to # 22
  <2>1. yystos[to + 1] \in 0..YYNTOKENS - 1
    BY <1>5, Translated
  <2>2. yystos[to + 1] # StringSymbol
    BY <2>1 DEF YYNTOKENS, StringSymbol
  <2> QED
    BY <1>5, <2>2, ActionsAssumption
<1>12. to = 31 <=> Top = 22
  <2>1. to = 31 => Top = 22
    BY <1>2, <1>5, ActionsAssumption
  <2>2. ShiftOn(22, Kind(n)) \in {0, 31}
    BY <1>5, ActionsAssumption
  <2>3. Top = 22 => to = 31
    BY <1>5, <2>2
  <2> QED
    BY <2>1, <2>3
<1>13. joined # << >> <=> Top = 22
  <2>1. Top # 31
    BY <1>3, StringStates DEF Acting
  <2> QED
    BY <1>2, <2>1 DEF Running
<1>14. to \in {15, 31} => Kind(n) \in ActingKinds
  BY <1>6, StringStates
<1>15. to = 15 => Before(d + 1) # "STRING"
  <2> SUFFICES ASSUME to = 15 PROVE Before(d + 1) # "STRING"
    OBVIOUS
  <2>1. Len(joined) = 0
    BY <1>12, <1>13
  <2>2. d + 1 = n
    BY <1>2, <1>4, <2>1
  <2> DEFINE q == <<Top, Before(n), Kind(n)>>
  <2>3. q \in Situations /\ q[1] = Top /\ q[2] = Before(n) /\ q[3] = Kind(n)
    BY <1>1, <1>2 DEF Known, Ahead
  <2>4. Kind(n) # Unread
    BY <1>5, Translated
  <2> HIDE DEF q
  <2> QED
    BY <1>5, <2>2, <2>3, <2>4, ActionsAssumption
<1>16. /\ yyresult' \in {"running", "ok", "exhausted"}
       /\ yyresult' \in {"running", "ok"} =>
            size' \in Nat /\ Len(states') < size' /\ UNCHANGED error
  <2> PICK v : v = look[1]
    OBVIOUS
  <2>1. Push(to, v, states, vals)
    BY <1>1
  <2>2. size \in Nat /\ Len(states) \in Nat /\ Len(states) + 1 <= size
    <3>1. size \in Nat /\ Len(states) < size /\ Len(states) \in Nat
      BY <1>2, TypedFacts DEF Running
    <3> QED
      BY <3>1
  <2> QED
    BY <1>7, <2>1, <2>2, PushRuns
<1>17. yyresult' = "ok" => Kind(n) = "EOF"
  <2>1. Answered'
    BY <1>7 DEF StackInv
  <2>2. yyresult' = "ok" => Kind(n)' = "EOF"
    BY <2>1 DEF Answered
  <2>3. Kind(n)' = Kind(n)
    BY <1>9
  <2> QED
    BY <2>2, <2>3
<1>18. joined # << >> => Before(d + 1) # "STRING"
  BY <1>2 DEF Running
<1> QED
  BY <1>2, <1>4, <1>6, <1>8, <1>9, <1>10, <1>11, <1>12, <1>13, <1>14, <1>15, <1>16, <1>17, <1>18 DEF Acting

LEMMA ShiftTree ==
  ASSUME StackInv, NEW f, NEW d, TreeAt(f, d), Named, Nested, Shift
  PROVE  TreeInv'
<1>1. yyresult = "running" /\ look' = << >> /\ UNCHANGED <<read, tree, parent, setting, joined>>
  BY DEF Shift, Ready, ctx
<1>2. /\ Running(d) /\ d \in Nat /\ n \in Nat /\ d <= Consumed /\ Consumed \in 0..n /\ Ground(f, d)
      /\ TreeUpTo(f, tree, d) /\ At(f, parent, setting, d)
  BY <1>1, Standing
<1>3. /\ n = d + Len(joined) + 1 /\ n \in 1..n /\ May(n) /\ Len(joined) \in Nat
      /\ n' = n /\ Consumed' = n /\ (Acting' <=> Kind(n) \in ActingKinds)
      /\ Top' # 22 /\ (joined # << >> <=> Top' = 31) /\ (joined # << >> => Kind(n) \in ActingKinds)
      /\ (Top' = 15 => Kind(n) \in ActingKinds /\ Before(d + 1) # "STRING")
      /\ (joined # << >> => Before(d + 1) # "STRING")
      /\ yyresult' \in {"running", "ok", "exhausted"}
      /\ yyresult' \in {"running", "ok"} =>
           size' \in Nat /\ Len(states') < size' /\ UNCHANGED error
      /\ yyresult' = "ok" => Kind(n) = "EOF"
  BY Shifting
<1>4. /\ opens' = opens /\ (\A i : Kind(i)' = Kind(i) /\ Before(i)' = Before(i))
      /\ Named' /\ Nested' /\ Paths(f)'
  <2>1. Paths(f)
    BY DEF TreeAt
  <2> QED
    BY <1>1, <2>1, SameRead, SameLanguage
<1>5. Cause'
  BY <1>3 DEF Cause
<1>6. "EOF" \notin ActingKinds
  BY DEF ActingKinds, ActsOn
<1>7. CASE Kind(n) \in ActingKinds
  <2>1. TreeUpTo(f, tree, d)' /\ At(f, parent, setting, d)'
    BY <1>1, <1>2, SameTree, SamePlace
  <2>2. yyresult' = "running" => Running(d)'
    <3> SUFFICES ASSUME yyresult' = "running" PROVE Running(d)'
      OBVIOUS
    <3>1. Consumed' = d + Len(joined') + 1 /\ Acting'
      BY <1>1, <1>3, <1>7
    <3>2. /\ joined \in Seq(Nat) /\ (error = Nil \/ error[1] = "include")
          /\ \A k \in 1..Len(joined) :
               joined[k] = d + k /\ Kind(d + k) = "STRING" /\ opens[d + k + 1] = opens[d + 1]
      BY <1>2 DEF Running
    <3>3. joined' # << >> <=> Top' \in {22, 31}
      BY <1>1, <1>3
    <3>4. Top' \in {15, 22, 31} => Before(d + 1)' # "STRING"
      BY <1>3, <1>4
    <3>5. \A k \in 1..Len(joined') :
             joined'[k] = d + k /\ Kind(d + k)' = "STRING" /\ opens'[d + k + 1] = opens'[d + 1]
      BY <1>1, <1>4, <3>2
    <3>6. /\ joined' \in Seq(Nat) /\ size' \in Nat /\ Len(states') < size'
          /\ (error' = Nil \/ error'[1] = "include")
      BY <1>1, <1>3, <3>2
    <3> QED
      BY <3>1, <3>3, <3>4, <3>5, <3>6 DEF Running
  <2>3. d \in 0..Consumed' /\ yyresult' # "ok"
    BY <1>2, <1>3, <1>6, <1>7
  <2>4. TreeAt(f, d)'
    BY <1>4, <2>1, <2>2, <2>3 DEF TreeAt
  <2> QED
    BY <1>4, <1>5, <2>4 DEF TreeInv
<1>8. CASE Kind(n) \notin ActingKinds
  <2>1. joined = << >> /\ Len(joined) = 0 /\ ~ Acting' /\ Top' \notin {15, 22, 31}
    BY <1>3, <1>8
  <2> PICK m : m = n
    OBVIOUS
  <2>2. m = d + 1 /\ m \in Nat /\ m \in 1..n /\ May(m) /\ Kind(m) \notin ActingKinds
    BY <1>2, <1>3, <1>8, <2>1
  <2>3. TreeUpTo(f, tree, m) /\ At(f, parent, setting, m)
    BY <1>2, <2>2, PassToken
  <2>4. TreeUpTo(f, tree, m)' /\ At(f, parent, setting, m)'
    BY <1>1, <2>3, SameTree, SamePlace
  <2>5. yyresult' = "running" => Running(m)'
    <3> SUFFICES ASSUME yyresult' = "running" PROVE Running(m)'
      OBVIOUS
    <3>1. Consumed' = m + Len(joined') + 0 /\ joined' = << >> /\ joined' \in Seq(Nat) /\ Len(joined') = 0
      BY <1>1, <1>3, <2>1, <2>2
    <3>2. error = Nil \/ error[1] = "include"
      BY <1>2 DEF Running
    <3>3. /\ size' \in Nat /\ Len(states') < size' /\ (error' = Nil \/ error'[1] = "include")
      BY <1>3, <3>2
    <3> QED
      BY <2>1, <3>1, <3>3 DEF Running
  <2>6. m \in 0..Consumed' /\ m = n'
    BY <1>2, <1>3
  <2>7. TreeAt(f, m)'
    BY <1>4, <2>4, <2>5, <2>6 DEF TreeAt
  <2> QED
    BY <1>4, <1>5, <2>7 DEF TreeInv
<1> QED
  BY <1>7, <1>8


LEMMA ReceiveTree ==
  ASSUME StackInv, NEW f, NEW d, TreeAt(f, d), Named, Nested, NEW x \in Tokens \cup {EOF}, Receive(x)
  PROVE  TreeInv'
<1>1. /\ yyresult = "running" /\ look = << >> /\ read' = Append(read, x) /\ look' = <<n + 1>>
      /\ error' = IF x.kind = "ERROR" THEN <<"include", n + 1>> ELSE error
      /\ UNCHANGED <<states, size, tree, parent, setting, joined, yyresult>>
  BY DEF Receive, ctx, n
<1>2. /\ Ground(f, d) /\ TreeUpTo(f, tree, d) /\ At(f, parent, setting, d) /\ Running(d)
      /\ d \in Nat /\ Consumed = n /\ d <= n /\ read \in Seq(TokenSet) /\ Paths(f)
      /\ Len(joined) \in Nat /\ \A i \in 1..n : May(i)
  BY <1>1, Standing DEF TreeAt
<1>3. x \in TokenSet /\ (x.kind = "NAME" <=> x.name # Nil)
  <2>1. "EOF" # "NAME"
    OBVIOUS
  <2> QED
    BY <2>1, AllTokens DEF Tokens, EOF, Symbol
<1>4. /\ n' = n + 1 /\ n \in Nat
      /\ \A i \in 1..n : read'[i] = read[i] /\ Kind(i)' = Kind(i)
      /\ \A i \in {n + 1} : read'[i] = x /\ Kind(i)' = x.kind
      /\ \A i \in 1..n + 1 : /\ opens'[i] = opens[i] /\ Opener(i)' = Opener(i)
                             /\ Within(i)' = Within(i) /\ Before(i)' = Before(i)
  BY <1>1, <1>2, <1>3, MoreRead
<1>5. /\ \A i \in 1..n : (Bears(i)' <=> Bears(i)) /\ ValueAt(i)' = ValueAt(i)
      /\ \A o \in 0..n : Owner(o)' = Owner(o)
  BY <1>1, <1>2, <1>3, MorePlaces
<1>6. PICK g : Paths(g)' /\ \A i \in 0..n : g[i] = f[i]
  BY <1>1, <1>2, <1>3, PathsMore
<1>7. Nested'
  BY <1>1, <1>2, <1>3, NestedMore
<1>8. Named'
  <2>1. \A i \in 1..n' : i \in 1..n \/ i \in {n + 1}
    BY <1>4
  <2>2. \A i \in 1..n' : Kind(i)' = "NAME" <=> read'[i].name # Nil
    BY <1>3, <1>4, <2>1 DEF Named
  <2> QED
    BY <2>2 DEF Named
<1> PICK t : t = tree'
  OBVIOUS
<1>9. t = tree /\ t = tree'
  BY <1>1
<1>10. /\ Brought(d) \subseteq 1..d /\ Brought(d)' = Brought(d)
       /\ \A i \in {0} \cup Brought(d) : i \in 0..n /\ g[i] = f[i]
       /\ \A i \in Brought(d) : i \in 1..n /\ i \in 1..n + 1 /\ i <= d + 1
  <2>1. Brought(d) \subseteq 1..d
    BY DEF Brought
  <2>2. \A i \in 1..d : i \in 1..n /\ i \in 1..n + 1 /\ i \in 0..n /\ i <= d + 1
    BY <1>2, <1>4
  <2>3. Brought(d)' = Brought(d)
    BY <1>5, <2>2 DEF Brought
  <2>4. 0 \in 0..n
    BY <1>4
  <2> QED
    BY <1>6, <2>1, <2>2, <2>3, <2>4
<1>11. Planted(g, t, d)'
  <2>1. Planted(f, t, d)
    BY <1>2, <1>9 DEF TreeUpTo
  <2>2. \A i \in Brought(d) : /\ g[Owner(Opener(i))] = f[Owner(Opener(i))]
                              /\ Owner(Opener(i))' = Owner(Opener(i))
    <3> TAKE i \in Brought(d)
    <3>1. i \in 1..n + 1 /\ i <= d + 1 /\ Opener(i)' = Opener(i)
      BY <1>4, <1>10
    <3>2. Opener(i) \in 0..d /\ Owner(Opener(i)) \in {0} \cup Brought(d)
      BY <1>2, <3>1, Nodes
    <3> PICK o : o = Opener(i) /\ o = Opener(i)'
      BY <3>1
    <3>3. o \in 0..n
      BY <1>2, <1>4, <3>2
    <3>4. Owner(o)' = Owner(o)
      BY <1>5, <3>3
    <3> QED
      BY <1>10, <3>2, <3>4
  <2>3. {g[i] : i \in {0} \cup Brought(d)} = {f[i] : i \in {0} \cup Brought(d)}
    BY <1>10
  <2> QED
    BY <1>10, <2>1, <2>2, <2>3 DEF Planted
<1>12. Peers(g, t, d)'
  <2>1. Peers(f, t, d)
    BY <1>2, <1>9 DEF TreeUpTo
  <2>2. \A i \in Brought(d) : /\ g[i] = f[i] /\ read'[i] = read[i] /\ Kind(i)' = Kind(i)
                              /\ Opener(i)' = Opener(i) /\ Within(i)' = Within(i)
    BY <1>4, <1>10
  <2> QED
    BY <1>10, <2>1, <2>2 DEF Peers
<1>13. ASSUME NEW i \in Brought(d) PROVE Right(t, g, i, d)'
  <2>1. Right(t, f, i, d)
    BY <1>2, <1>9 DEF TreeUpTo
  <2>2. i \in 1..n /\ g[i] = f[i] /\ read'[i] = read[i] /\ Kind(i)' = Kind(i)
    BY <1>4, <1>10
  <2> PICK v : v = ValueAt(i) /\ v = ValueAt(i)'
    BY <1>5, <2>2
  <2>3. v \in Nat /\ v # 0
    BY <2>2 DEF ValueAt
  <2>4. CASE v > d
    BY <2>1, <2>2, <2>4 DEF Right
  <2>5. CASE ~ (v > d)
    <3>1. PICK last \in v..d : /\ Kind(v) = "STRING" => last < n /\ RunEnds(v, last)
                               /\ t[f[i]] = SettingUpTo(i, last)
      BY <2>1, <2>5 DEF Right
    <3>2. v \in 1..n /\ Kind(v)' = Kind(v)
      BY <1>2, <1>4, <2>3, <2>5
    <3>3. SettingUpTo(i, last)' = SettingUpTo(i, last)
      BY <2>2, <3>2 DEF SettingUpTo
    <3>4. Kind(v)' = "STRING" => last < n' /\ RunEnds(v, last)'
      <4> SUFFICES ASSUME Kind(v) = "STRING" PROVE last < n' /\ RunEnds(v, last)'
        BY <3>2
      <4>1. last < n /\ RunEnds(v, last) /\ last \in Nat
        BY <2>3, <3>1
      <4>2. last + 1 \in 1..n /\ last < n' /\ \A k \in v..last : k \in 1..n
        BY <1>4, <2>3, <4>1
      <4>3. Kind(last + 1)' = Kind(last + 1) /\ \A k \in v..last : Kind(k)' = Kind(k)
        BY <1>4, <4>2
      <4> QED
        BY <4>1, <4>2, <4>3 DEF RunEnds
    <3>5. t[g[i]] = SettingUpTo(i, last)'
      BY <2>2, <3>1, <3>3
    <3> QED
      BY <2>5, <3>1, <3>4, <3>5 DEF Right
  <2> QED
    BY <2>4, <2>5
<1>14. TreeUpTo(g, t, d)'
  <2>1. t[<< >>] = Setting(Nil, "GROUP", 0)
    BY <1>2, <1>9 DEF TreeUpTo
  <2> QED
    BY <1>10, <1>11, <1>12, <1>13, <2>1 DEF TreeUpTo
<1>15. TreeUpTo(g, tree, d)'
  BY <1>9, <1>14 DEF TreeUpTo, Planted, Peers, Right
<1>16. At(g, parent, setting, d)'
  <2> PICK m : m = d + 1
    OBVIOUS
  <2>1. m \in 1..n + 1 /\ m <= d + 1
    BY <1>2, <1>4
  <2>2. Opener(m)' = Opener(m) /\ Opener(m) \in 0..d /\ Owner(Opener(m)) \in 0..d
    BY <1>2, <1>4, <2>1, Nodes
  <2> PICK o : o = Opener(m) /\ o = Opener(m)'
    BY <2>2
  <2>3. o \in 0..n /\ Owner(o) \in 0..n
    BY <1>2, <1>4, <2>2
  <2>4. Owner(o)' = Owner(o) /\ g[Owner(o)] = f[Owner(o)]
    BY <1>5, <1>6, <2>3
  <2>5. d # 0 => d \in 0..n /\ d - 1 \in 0..n /\ Kind(d)' = Kind(d)
    BY <1>2, <1>4
  <2>6. d # 0 => g[d] = f[d] /\ g[d - 1] = f[d - 1]
    BY <1>6, <2>5
  <2> QED
    BY <1>1, <1>2, <2>4, <2>5, <2>6 DEF At
<1>17. Running(d)'
  <2>1. Consumed' = Consumed /\ Acting' = Acting /\ Top' = Top
    <3>1. Len(look') = 1
      BY <1>1
    <3>2. Consumed' = n
      BY <1>4, <3>1 DEF Consumed
    <3> QED
      BY <1>1, <1>2, <3>2 DEF Acting, Top
  <2>2. n = d + Len(joined) + (IF Acting THEN 1 ELSE 0)
    BY <1>2 DEF Running
  <2>3. ASSUME NEW k \in 1..Len(joined)
        PROVE  joined[k] = d + k /\ Kind(d + k)' = "STRING" /\ opens'[d + k + 1] = opens'[d + 1]
    <3>1. joined[k] = d + k /\ Kind(d + k) = "STRING" /\ opens[d + k + 1] = opens[d + 1]
      BY <1>2 DEF Running
    <3>2. d + k \in 1..n /\ d + k + 1 \in 1..n + 1 /\ d + 1 \in 1..n + 1
      BY <1>2, <1>4, <2>2
    <3> QED
      BY <1>4, <3>1, <3>2
  <2>4. Before(d + 1)' = Before(d + 1)
    <3>1. d + 1 \in 1..n + 1
      BY <1>2, <1>4
    <3> QED
      BY <1>4, <3>1
  <2>5. error' = Nil \/ error'[1] = "include"
    BY <1>1, <1>2 DEF Running
  <2> QED
    BY <1>1, <1>2, <2>1, <2>3, <2>4, <2>5 DEF Running
<1>18. TreeAt(g, d)'
  <2>1. d \in 0..Consumed'
    <3>1. Len(look') = 1
      BY <1>1
    <3>2. Consumed' = n
      BY <1>4, <3>1 DEF Consumed
    <3> QED
      BY <1>2, <1>4, <3>2
  <2> QED
    BY <1>1, <1>6, <1>15, <1>16, <1>17, <2>1 DEF TreeAt
<1>19. Cause'
  BY <1>1 DEF Cause
<1> QED
  BY <1>7, <1>8, <1>18, <1>19 DEF TreeInv


LEMMA StayTree ==
  ASSUME NEW f, NEW d, TreeAt(f, d), Named, Nested, Cause, UNCHANGED parserVars
  PROVE  TreeInv'
<1>1. UNCHANGED <<states, size, look, read, tree, parent, setting, joined, yyresult, error>>
  BY DEF parserVars, engine, ctx
<1>2. /\ Named' /\ Nested' /\ Paths(f)' = Paths(f) /\ Twins' = Twins /\ Odd' = Odd
      /\ n' = n /\ opens' = opens /\ \A i : Kind(i)' = Kind(i) /\ Before(i)' = Before(i)
  BY <1>1, SameLanguage, SameRead
<1>3. Consumed' = Consumed /\ Top' = Top /\ Acting' = Acting
  BY <1>1, <1>2 DEF Consumed, Top, Acting
<1>4. Cause'
  BY <1>1, <1>2 DEF Cause
<1>5. TreeUpTo(f, tree, d)'
  BY <1>1, SameTree DEF TreeAt
<1>6. yyresult' = "running" => At(f, parent, setting, d)' /\ Running(d)'
  <2> SUFFICES ASSUME yyresult = "running" PROVE At(f, parent, setting, d)' /\ Running(d)'
    BY <1>1
  <2>1. At(f, parent, setting, d) /\ Running(d)
    BY DEF TreeAt
  <2>2. At(f, parent, setting, d)'
    BY <1>1, <2>1, SamePlace
  <2>3. Running(d)'
    BY <1>1, <1>2, <1>3, <2>1 DEF Running
  <2> QED
    BY <2>2, <2>3
<1>7. TreeAt(f, d)'
  BY <1>1, <1>2, <1>3, <1>5, <1>6 DEF TreeAt
<1> QED
  BY <1>2, <1>4, <1>7 DEF TreeInv

LEMMA NextTree == StackInv /\ TreeInv /\ [ParserNext]_parserVars => TreeInv'
<1> SUFFICES ASSUME StackInv, TreeInv, [ParserNext]_parserVars PROVE TreeInv'
  OBVIOUS
<1>1. PICK f, d : TreeAt(f, d)
  BY DEF TreeInv
<1>2. Named /\ Nested /\ Cause
  BY DEF TreeInv
<1>3. CASE Lex
  <2>1. PICK x \in Tokens \cup {EOF} : Receive(x)
    BY <1>3 DEF Lex
  <2> QED
    BY <1>1, <1>2, <2>1, ReceiveTree
<1>4. CASE Shift
  BY <1>1, <1>2, <1>4, ShiftTree
<1>5. CASE SyntaxError
  BY <1>1, <1>2, <1>5, SyntaxErrorTree
<1>6. CASE Declare
  BY <1>1, <1>2, <1>6, DeclareTree
<1>7. CASE DuplicateName
  BY <1>1, <1>2, <1>7, DuplicateTree
<1>8. CASE StartAggregate
  BY <1>1, <1>2, <1>8, StartTree
<1>9. CASE EndAggregate
  BY <1>1, <1>2, <1>9, EndTree
<1>10. CASE JoinString
  BY <1>1, <1>2, <1>10, JoinTree
<1>11. CASE ScalarValue
  BY <1>1, <1>2, <1>11, ScalarTree
<1>12. CASE StringValue
  BY <1>1, <1>2, <1>12, StringTree
<1>13. CASE Mismatch
  BY <1>1, <1>2, <1>13, MismatchTree
<1>14. CASE NoAction
  BY <1>1, <1>2, <1>14, NoActionTree
<1>15. CASE UNCHANGED parserVars
  BY <1>1, <1>2, <1>15, StayTree
<1> QED
  BY <1>3, <1>4, <1>5, <1>6, <1>7, <1>8, <1>9, <1>10, <1>11, <1>12, <1>13, <1>14, <1>15
     DEF ParserNext, Step, ParserDone

LEMMA TreeInductive == ParserSpec => [](StackInv /\ TreeInv)
<1>1. ParserInit => StackInv /\ TreeInv
  BY InitStack, InitTree
<1>2. (StackInv /\ TreeInv) /\ [ParserNext]_parserVars => (StackInv /\ TreeInv)'
  BY NextStack, NextTree
<1> QED
  BY <1>1, <1>2, PTL DEF ParserSpec

\* What is accepted has been consumed to its end.
LEMMA Accepted ==
  ASSUME StackInv, NEW f, NEW d, TreeAt(f, d), yyresult = "ok"
  PROVE  Ground(f, n) /\ TreeUpTo(f, tree, n) /\ n # 0 /\ Kind(n) = "EOF" /\ read \in Seq(TokenSet)
<1>1. Typed /\ Told /\ n # 0 /\ look = << >> /\ Kind(n) = "EOF"
  BY DEF StackInv, Answered
<1>2. PlacesOK /\ n \in Nat /\ Consumed = n
  BY <1>1, TypedFacts
<1>3. Paths(f) /\ d = n /\ TreeUpTo(f, tree, n)
  BY DEF TreeAt
<1> QED
  BY <1>1, <1>2, <1>3 DEF Ground, Told, Typed

LEMMA NeverMixed ==
  ASSUME StackInv, NEW f, NEW d, TreeAt(f, d)
  PROVE  ~ Mixed
<1>1. Typed /\ Told /\ Paths(f) /\ d \in 0..Consumed /\ TreeUpTo(f, tree, d)
  BY DEF StackInv, TreeAt
<1>2. PlacesOK /\ n \in Nat /\ Consumed \in 0..n
  BY <1>1, TypedFacts
<1>3. d \in 0..n /\ \A i \in 1..d : i \in 1..Consumed
  BY <1>1, <1>2
<1>4. Ground(f, d)
  BY <1>1, <1>2, <1>3 DEF Ground, Told
<1> QED
  BY <1>1, <1>4, NotMixed

\* A configuration that is accepted is the one its text describes: the settings of its
\* tokens, nested as its brackets are, each with the name, type, format and value of
\* its own tokens, although the actions run at different distances behind the scanner
\* and a name is fetched from the scanner's buffer.
THEOREM TreeIsTheText == ParserSpec => []BuildsTheTree
<1>1. StackInv /\ TreeInv => BuildsTheTree
  <2> SUFFICES ASSUME StackInv, TreeInv, yyresult = "ok" PROVE tree = TreeOf
    BY DEF BuildsTheTree
  <2>1. PICK f, d : TreeAt(f, d)
    BY DEF TreeInv
  <2> QED
    BY <2>1, Accepted, Complete
<1> QED
  BY <1>1, TreeInductive, PTL

\* A text is refused for its first token that cannot follow, for a name its group has
\* already, or for an element of another type than its array's, and only if it has one;
\* no array of the configuration ever has elements of two types.
THEOREM RefusalsHaveCauses == ParserSpec => []RefusesForCause
<1>1. StackInv /\ TreeInv => RefusesForCause
  <2> SUFFICES ASSUME StackInv, TreeInv PROVE RefusesForCause
    OBVIOUS
  <2>1. PICK f, d : TreeAt(f, d)
    BY DEF TreeInv
  <2>2. ~ Mixed
    BY <2>1, NeverMixed
  <2>3. yyresult = "ok" => ~ Twins /\ ~ Odd
    BY <2>1, Accepted, Complete
  <2>4. yyresult = "error" => /\ error[1] = "duplicate setting name" => Twins
                              /\ error[1] = "mismatched element type in array" => Odd
    BY DEF TreeInv, Cause
  <2>5. "duplicate setting name" # "mismatched element type in array"
    OBVIOUS
  <2>6. Language
    BY AlwaysLanguage
  <2> QED
    BY <2>2, <2>3, <2>4, <2>5, <2>6 DEF RefusesForCause
<1> QED
  BY <1>1, TreeInductive, PTL

(***************************************************************************)
(* The parser's memory.                                                    *)
(***************************************************************************)

\* There is room on the stacks for what is on them, and for more while the parser runs.
Roomy ==
  /\ size \in Nat /\ Len(states) <= size
  /\ yyresult = "running" => Len(states) < size

\* The string of a token is the parser's until it is joined, which is done next.
Holding == n # 0 /\ Kind(n) = "STRING" /\ (look # << >> \/ Top \in {15, 31})
OwnInv == Roomy /\ owned = {i \in {n} : Holding}

LEMMA InitOwn == ParserInit => OwnInv
<1> SUFFICES ASSUME ParserInit PROVE OwnInv
  OBVIOUS
<1>1. states = <<0>> /\ read = << >> /\ size = InitDepth /\ owned = {}
  BY DEF ParserInit
<1>2. n = 0 /\ Len(states) = 1
  BY <1>1 DEF n
<1>3. InitDepth \in Nat /\ 1 < InitDepth
  BY DepthAssumption
<1>4. Roomy
  BY <1>1, <1>2, <1>3 DEF Roomy
<1> QED
  BY <1>1, <1>2, <1>4 DEF OwnInv, Holding

LEMMA PushRoom ==
  ASSUME Roomy, yyresult = "running", NEW s, NEW v, NEW below, NEW belowVals, Push(s, v, below, belowVals),
         Len(below) \in Nat, Len(below) <= Len(states), Len(states) \in Nat, Len(states') = Len(below) + 1
  PROVE  Roomy'
<1>1. size \in Nat /\ Len(below) + 1 <= size
  BY DEF Roomy
<1>2. /\ yyresult' \in {"running", "ok", "exhausted"}
      /\ yyresult' \in {"running", "ok"} => size' \in Nat /\ Len(below) + 1 < size'
  BY <1>1, PushRuns
<1>3. yyresult' = "exhausted" => size' = size
  BY <1>1 DEF Push
<1> QED
  BY <1>1, <1>2, <1>3 DEF Roomy

LEMMA ShiftOwn ==
  ASSUME StackInv, OwnInv, Shift
  PROVE  OwnInv'
<1>1. /\ yyresult = "running" /\ look # << >> /\ Shifts # 0 /\ look' = << >>
      /\ Push(Shifts, look[1], states, vals) /\ UNCHANGED <<read, owned>>
  BY DEF Shift, Shifts, Ready
<1>2. /\ Typed /\ PlacesOK /\ Top \in States /\ n \in 1..n /\ n \in Nat /\ Len(states) \in Nat
      /\ read[look[1]].kind = Kind(n) /\ Kind(n) \in TokenKinds
  BY <1>1, TypedFacts DEF StackInv, PlacesOK
<1>3. Len(states') = Len(states) + 1
  BY ShiftStack
<1>4. Roomy'
  <2> PICK v : v = look[1]
    OBVIOUS
  <2> PICK s : s = Shifts
    OBVIOUS
  <2>1. Push(s, v, states, vals) /\ Roomy
    BY <1>1 DEF OwnInv
  <2> QED
    BY <1>1, <1>2, <1>3, <2>1, PushRoom
<1> PICK to : to = Shifts
  OBVIOUS
<1>5. to # 0 /\ to = ShiftOn(Top, Kind(n))
  BY <1>1, <1>2 DEF Shifts
<1>6. to \in States /\ yystos[to + 1] = yytranslate[Kind(n)]
  <2>1. <<Top, to>> \in Edges /\ yystos[to + 1] = yytranslate[Kind(n)]
    BY <1>2, <1>5, EdgesAssumption
  <2> QED
    BY <2>1, EdgesAssumption
<1>7. Top' = to
  <2>1. states' = Append(states, to) /\ states \in Seq(States)
    BY <1>1, <1>2 DEF Push, Typed
  <2>2. Append(states, to)[Len(states) + 1] = to
    BY <2>1
  <2> QED
    BY <1>3, <2>1, <2>2 DEF Top, Last
<1>8. to \in {15, 31} <=> Kind(n) = "STRING"
  <2>1. "STRING" \in TokenKinds /\ "STRING" \in ActingKinds /\ ActsOn["STRING"] = {21, 22}
    BY DEF TokenKinds, yytranslate, ActingKinds, ActsOn
  <2>2. IsKind(to, {"STRING"}) <=> Kind(n) = "STRING"
    BY <1>2, <1>6, <2>1, Translated DEF IsKind
  <2>3. IsKind(to, {"STRING"}) <=> yydefact[to + 1] \in {21, 22}
    BY <1>6, <2>1, ActionsAssumption
  <2>4. yydefact[to + 1] \in {21, 22} <=> to \in {15, 31}
    BY <1>6, ActionsAssumption
  <2> QED
    BY <2>2, <2>3, <2>4
<1>9. n' = n /\ Kind(n)' = Kind(n)
  <2>1. n' = n /\ \A i : Kind(i)' = Kind(i)
    BY <1>1, SameRead
  <2> QED
    BY <2>1
<1>10. Holding <=> Kind(n) = "STRING"
  BY <1>1, <1>2 DEF Holding
<1>11. Holding' <=> Kind(n) = "STRING"
  BY <1>1, <1>2, <1>7, <1>8, <1>9 DEF Holding
<1>12. owned' = {i \in {n} : Holding'}
  BY <1>1, <1>10, <1>11 DEF OwnInv
<1> QED
  BY <1>4, <1>9, <1>12 DEF OwnInv

LEMMA ReduceOwn ==
  ASSUME StackInv, OwnInv, Ready, Shifts = 0, yyn # 0, Goto,
         owned' = IF yyn \in {21, 22} THEN owned \ {Last(vals)} ELSE owned
  PROVE  OwnInv'
<1>1. /\ Typed /\ PlacesOK /\ Top \in States /\ n \in Nat /\ Len(states) \in Nat
      /\ yyresult = "running"
  BY TypedFacts DEF StackInv, PlacesOK, Ready
<1>2. UNCHANGED <<look, read>>
  BY DEF Goto
<1>3. Roomy'
  <2> DEFINE len == yyr2[yyn + 1]
  <2>1. len \in 0..5 /\ len < Len(states) /\ Len(states') = Len(states) - len + 1
    BY ReduceStack
  <2> PICK a : a = SubSeq(states, 1, Len(states) - len)
    OBVIOUS
  <2> PICK b : b = SubSeq(vals, 1, Len(vals) - len)
    OBVIOUS
  <2> PICK x : x = GotoOn(Last(a), Lhs(yyn))
    OBVIOUS
  <2> PICK v : v = IF len = 0 THEN 0 ELSE vals[Len(vals) + 1 - len]
    OBVIOUS
  <2>2. Push(x, v, a, b)
    BY DEF Goto
  <2> HIDE DEF len
  <2> PICK c : c = Len(states) - len
    OBVIOUS
  <2>3. c \in 0..Len(states) /\ states \in Seq(States) /\ a = SubSeq(states, 1, c)
    BY <1>1, <2>1 DEF Typed
  <2>4. Len(a) = c
    BY <2>3, PrefixOf
  <2>5. Len(a) \in Nat /\ Len(a) <= Len(states) /\ Len(states') = Len(a) + 1
    BY <1>1, <2>1, <2>3, <2>4
  <2>6. Roomy
    BY DEF OwnInv
  <2> QED
    BY <1>1, <2>2, <2>5, <2>6, PushRoom
<1>4. Top' \notin {15, 31}
  BY ReducedTop
<1>5. n' = n /\ Kind(n)' = Kind(n)
  <2>1. n' = n /\ \A i : Kind(i)' = Kind(i)
    BY <1>2, SameRead
  <2> QED
    BY <2>1
<1>6. CASE yyn \in {21, 22}
  <2>1. IsKind(Top, {"STRING"}) /\ "STRING" \in ActingKinds
    <3>1. "STRING" \in ActingKinds /\ ActsOn["STRING"] = {21, 22}
      BY DEF ActingKinds, ActsOn
    <3> QED
      BY <1>1, <1>6, <3>1, ActionsAssumption DEF yyn
  <2>2. look = << >> /\ Last(vals) = n
    BY <2>1, TopToken
  <2>3. owned' = {}
    BY <1>6, <2>2 DEF OwnInv
  <2>4. ~ Holding'
    BY <1>2, <1>4, <2>2 DEF Holding
  <2> QED
    BY <1>3, <1>5, <2>3, <2>4 DEF OwnInv
<1>7. CASE yyn \notin {21, 22}
  <2>1. Top \notin {15, 31}
    BY <1>1, <1>7, ActionsAssumption DEF yyn
  <2>2. Holding' <=> Holding
    BY <1>2, <1>4, <1>5, <2>1 DEF Holding
  <2>3. owned' = owned
    BY <1>7
  <2> QED
    BY <1>3, <1>5, <2>2, <2>3 DEF OwnInv
<1> QED
  BY <1>6, <1>7

LEMMA SameOwn ==
  ASSUME OwnInv, UNCHANGED <<states, size, look, read, owned>>, yyresult' \in {yyresult, "error"}
  PROVE  OwnInv'
<1>1. n' = n /\ \A i : Kind(i)' = Kind(i)
  BY SameRead
<1>2. Kind(n)' = Kind(n) /\ Top' = Top
  BY <1>1 DEF Top
<1>3. Holding' <=> Holding
  BY <1>1, <1>2 DEF Holding
<1>4. Roomy'
  BY DEF OwnInv, Roomy
<1> QED
  BY <1>1, <1>3, <1>4 DEF OwnInv

LEMMA ReceiveOwn ==
  ASSUME StackInv, OwnInv, NEW x \in Tokens \cup {EOF}, Receive(x)
  PROVE  OwnInv'
<1>1. /\ yyresult = "running" /\ ~ Decided /\ look = << >> /\ read' = Append(read, x)
      /\ owned' = IF x.kind = "STRING" THEN owned \cup {n + 1} ELSE owned
      /\ look' = <<n + 1>> /\ UNCHANGED <<states, size, yyresult>>
  BY DEF Receive, n
<1>2. Typed /\ Top \in States /\ read \in Seq(TokenSet) /\ x \in TokenSet
  BY TypedFacts, AllTokens DEF StackInv, Typed
<1>3. n' = n + 1 /\ n \in Nat /\ Kind(n)' = x.kind
  <2>1. n' = n + 1 /\ n \in Nat /\ read'[n + 1] = x
    BY <1>1, <1>2, MoreRead
  <2>2. read'[n'].kind = x.kind
    BY <2>1
  <2> QED
    BY <2>1, <2>2 DEF Kind
<1>4. Top \notin {15, 31}
  <2>1. \A s \in {15, 31} : Decides(s)
    <3>1. "STRING" \in ActingKinds
      BY DEF ActingKinds, ActsOn
    <3> QED
      BY <3>1, StringStates, ActionsAssumption
  <2> QED
    BY <1>1, <2>1 DEF Decided
<1>5. owned = {}
  BY <1>1, <1>4 DEF OwnInv, Holding
<1>6. Holding' <=> x.kind = "STRING"
  BY <1>1, <1>3 DEF Holding
<1>7. Roomy'
  BY <1>1 DEF OwnInv, Roomy
<1> QED
  BY <1>1, <1>3, <1>5, <1>6, <1>7 DEF OwnInv

LEMMA NextOwn == StackInv /\ OwnInv /\ [ParserNext]_parserVars => OwnInv'
<1> SUFFICES ASSUME StackInv, OwnInv, [ParserNext]_parserVars PROVE OwnInv'
  OBVIOUS
<1>1. CASE Lex
  <2>1. PICK x \in Tokens \cup {EOF} : Receive(x)
    BY <1>1 DEF Lex
  <2> QED
    BY <2>1, ReceiveOwn
<1>2. CASE Shift
  BY <1>2, ShiftOwn
<1>3. ASSUME NEW text, Abort(text), UNCHANGED owned PROVE OwnInv'
  <2>1. UNCHANGED <<states, size, look, read, owned>> /\ yyresult' = "error"
    BY <1>3 DEF Abort, engine
  <2> QED
    BY <2>1, SameOwn
<1>4. ASSUME NEW rules, Reduces(rules), Goto, UNCHANGED owned, rules \cap {21, 22} = {} PROVE OwnInv'
  <2>1. Ready /\ Shifts = 0 /\ yyn # 0 /\ yyn \notin {21, 22}
    BY <1>4 DEF Reduces
  <2> QED
    BY <1>4, <2>1, ReduceOwn
<1>5. CASE SyntaxError
  BY <1>3, <1>5 DEF SyntaxError
<1>6. CASE DuplicateName
  BY <1>3, <1>6 DEF DuplicateName
<1>7. CASE Mismatch
  BY <1>3, <1>7 DEF Mismatch
<1>8. CASE Declare
  <2>1. Reduces({11}) /\ Goto /\ UNCHANGED owned /\ {11} \cap {21, 22} = {}
    BY <1>8 DEF Declare
  <2> QED
    BY <1>4, <2>1
<1>9. CASE StartAggregate
  <2>1. Reduces({13, 15, 38}) /\ Goto /\ UNCHANGED owned /\ {13, 15, 38} \cap {21, 22} = {}
    BY <1>9 DEF StartAggregate
  <2> QED
    BY <1>4, <2>1
<1>10. CASE EndAggregate
  <2>1. Reduces({14, 16, 39}) /\ Goto /\ UNCHANGED owned /\ {14, 16, 39} \cap {21, 22} = {}
    BY <1>10 DEF EndAggregate
  <2> QED
    BY <1>4, <2>1
<1>11. CASE JoinString
  <2>1. Ready /\ Shifts = 0 /\ yyn # 0 /\ yyn \in {21, 22} /\ Goto /\ owned' = owned \ {Last(vals)}
    BY <1>11 DEF JoinString, Reduces
  <2> QED
    BY <2>1, ReduceOwn
<1>12. CASE ScalarValue
  <2>1. Reduces(23..28) /\ Goto /\ UNCHANGED owned /\ (23..28) \cap {21, 22} = {}
    BY <1>12 DEF ScalarValue
  <2> QED
    BY <1>4, <2>1
<1>13. CASE StringValue
  <2>1. Reduces({29}) /\ Goto /\ UNCHANGED owned /\ {29} \cap {21, 22} = {}
    BY <1>13 DEF StringValue
  <2> QED
    BY <1>4, <2>1
<1>14. CASE NoAction
  <2> DEFINE rules == (1..39) \ ({11, 13, 14, 15, 16, 38, 39} \cup 21..29)
  <2>1. Reduces(rules) /\ Goto /\ UNCHANGED owned
    BY <1>14 DEF NoAction
  <2>2. rules \cap {21, 22} = {}
    OBVIOUS
  <2> HIDE DEF rules
  <2> QED
    BY <1>4, <2>1, <2>2
<1>15. CASE UNCHANGED parserVars
  BY <1>15, SameOwn DEF parserVars, engine
<1> QED
  BY <1>1, <1>2, <1>5, <1>6, <1>7, <1>8, <1>9, <1>10, <1>11, <1>12, <1>13, <1>14, <1>15
     DEF ParserNext, Step, ParserDone

LEMMA OwnInductive == ParserSpec => [](StackInv /\ OwnInv)
<1>1. ParserInit => StackInv /\ OwnInv
  BY InitStack, InitOwn
<1>2. (StackInv /\ OwnInv) /\ [ParserNext]_parserVars => (StackInv /\ OwnInv)'
  BY NextStack, NextOwn
<1> QED
  BY <1>1, <1>2, PTL DEF ParserSpec

\* The engine never writes behind the end of its stacks: they are grown before they
\* are full, or the parser gives up.
THEOREM StacksHaveRoom == ParserSpec => [](Len(states) <= size)
<1>1. OwnInv => Len(states) <= size
  BY DEF OwnInv, Roomy
<1> QED
  BY <1>1, OwnInductive, PTL

\* Of the strings the scanner allocated, the parser has freed all but at most the one
\* read last, and that too if the text is accepted: a text that is refused costs at
\* most one, that of the last token read.
THEOREM StringsAreFreed ==
  ParserSpec => [](owned \subseteq {n} /\ (yyresult = "ok" => owned = {}))
<1>1. StackInv /\ OwnInv => owned \subseteq {n} /\ (yyresult = "ok" => owned = {})
  <2> SUFFICES ASSUME StackInv, OwnInv PROVE owned \subseteq {n} /\ (yyresult = "ok" => owned = {})
    OBVIOUS
  <2>1. owned = {i \in {n} : Holding}
    BY DEF OwnInv
  <2>2. yyresult = "ok" => Kind(n) = "EOF"
    BY DEF StackInv, Answered
  <2>3. yyresult = "ok" => ~ Holding
    BY <2>2 DEF Holding
  <2> QED
    BY <2>1, <2>3
<1> QED
  BY <1>1, OwnInductive, PTL
=============================================================================
