---------------------------- MODULE ScannerProofs ----------------------------
(***************************************************************************)
(* The scanner treats each of its texts as if it were in memory as a       *)
(* whole, and its automaton matches what the rules of scanner.l say: for   *)
(* texts, buffers and reads of any length.                                 *)
(***************************************************************************)
EXTENDS Scanner, FiniteSetTheorems, WellFoundedInduction, TLAPS

\* What is in a buffer of n characters, from p on, is what was read of the text and not matched.
Holds(r, n, p) ==
  /\ n \in Nat /\ p \in 1..(n + 1) /\ Len(r.chars) = n
  /\ r.got - r.offset = n + 1 - p
  /\ \A i \in p..n : r.chars[i] = r.text[r.offset + i + 1 - p]

BufferTypes(r) ==
  r \in [chars : Seq(STRING), n : Nat, pos : Nat, size : Nat, bol : BOOLEAN,
         status : {"NEW", "NORMAL", "EOF_PENDING"}, line : Nat, fill : BOOLEAN,
         interactive : BOOLEAN, text : Seq(STRING), got : Nat, offset : Nat]

\* How far a buffer is with its text.
Told(r) ==
  /\ BufferTypes(r)
  /\ r.offset <= r.got /\ r.got <= Len(r.text)
  /\ r.fill => r.size > 0
  /\ r.line = 1 + Newlines(SubSeq(r.text, 1, r.offset))

Machine ==
  /\ start \in {INITIAL, IN_COMMENT, IN_STRING, IN_INCLUDE} /\ atEnd \in BOOLEAN
  /\ \A k \in DOMAIN buffers : Told(buffers[k])
  /\ result = "running" => Holds(b, nChars, pos)

\* Included files have the numbers behind those of the including ones.
Nest ==
  /\ stack \in Seq(Nat) /\ \A k \in 1..Len(stack) : stack[k] = k
  /\ current \in Nat
  /\ DOMAIN buffers = 1..Len(stack) \cup ({current} \ {0})
  /\ buffers = [k \in DOMAIN buffers |-> buffers[k]]
  /\ result \in {"running", "ended"} => current = Len(stack) + 1
  /\ result = "ended" => stack = << >>
  /\ result = "stopped" => current > Len(stack)
  /\ result = "destroyed" => stack = << >> /\ current = 0
  /\ result \in {"running", "ended", "stopped", "destroyed"}
  /\ result = "running" =>
       \A k \in 1..Len(stack) : Holds(buffers[k], buffers[k].n, buffers[k].pos)

SInv == Machine /\ Nest

\* Every set of natural numbers has a least one, ...
LEMMA NatLess == IsWellFoundedOn({p \in Nat \X Nat : p[1] < p[2]}, Nat)
  BY NatLessThanWellFounded DEF OpToRel

\* ... so a set that has 0 and with every number the next has them all.
LEMMA SetInduction ==
  ASSUME NEW S \in SUBSET Nat, 0 \in S, \A n \in S : n + 1 \in S
  PROVE S = Nat
<1> SUFFICES ASSUME S # Nat PROVE FALSE
  OBVIOUS
<1> DEFINE R == {p \in Nat \X Nat : p[1] < p[2]}
           rest == Nat \ S
<1>1. IsWellFoundedOn(R, Nat)
  BY NatLess
<1>2. \A y, x \in rest : <<y, x>> \in R <=> y < x
  OBVIOUS
<1>3. rest \in SUBSET Nat /\ rest # {} /\ 0 \notin rest
  OBVIOUS
<1> HIDE DEF R
<1>4. PICK x \in rest : \A y \in rest : ~ (<<y, x>> \in R)
  <2> HIDE DEF rest
  <2> QED
    BY <1>1, <1>3, WFMin
<1>5. \A y \in rest : ~ (y < x)
  BY <1>2, <1>4
<1>6. x - 1 \in Nat /\ x - 1 < x /\ x - 1 \notin rest /\ (x - 1) + 1 = x
  BY <1>3, <1>4, <1>5
<1> QED
  BY <1>4, <1>6
-----------------------------------------------------------------------------
(* The match.                                                              *)

Left == nChars - pos + 1

LEMMA Classes ==
  ASSUME NEW i \in Nat
  PROVE  /\ i > nChars => CharClass(i) = 0
         /\ i <= nChars /\ nChars \in Nat => CharClass(i) \in Class \ {0}
         /\ i <= nChars /\ nChars \in Nat /\ b.chars[i] = "\n" => CharClass(i) = ClassOf("\n")
<1>1. ASSUME NEW c PROVE ClassOf(c) \in Class \ {0}
  BY ClassesAssumption DEF ClassOf, Class
<1>2. NUL # "\n"
  BY DEF NUL
<1> QED
  BY <1>1, <1>2 DEF CharClass, Class

Condition(s) == s \in {INITIAL, IN_COMMENT, IN_STRING, IN_INCLUDE}

\* The states f of a match up to the n-th character.
Goes(f, n) ==
  /\ f \in [0..n -> AutomatonStates]
  /\ f[0] = start + (IF b.bol THEN 1 ELSE 0)
  /\ \A k \in 1..n : f[k] = next[f[k - 1]][CharClass(pos + k - 1) + 1]

LEMMA MatchGoes ==
  ASSUME nChars \in Nat, pos \in Nat \ {0}, Condition(start), NEW n \in Nat
  PROVE  \E f : Goes(f, n)
<1> DEFINE S == {i \in Nat : \E f : Goes(f, i)}
<1>1. 0 \in S
  <2> DEFINE f == [k \in 0..0 |-> start + (IF b.bol THEN 1 ELSE 0)]
  <2>1. start + (IF b.bol THEN 1 ELSE 0) \in AutomatonStates
    BY DEF Condition, INITIAL, IN_COMMENT, IN_STRING, IN_INCLUDE, AutomatonStates
  <2>2. Goes(f, 0)
    BY <2>1 DEF Goes
  <2> QED
    BY <2>2
<1>2. ASSUME NEW i \in S PROVE i + 1 \in S
  <2>1. PICK f : Goes(f, i)
    OBVIOUS
  <2> DEFINE g == [k \in 0..(i + 1) |->
                     IF k = i + 1 THEN next[f[i]][CharClass(pos + i) + 1] ELSE f[k]]
  <2>2. CharClass(pos + i) \in Class
    BY Classes DEF Class
  <2>3. f[i] \in AutomatonStates /\ next[f[i]][CharClass(pos + i) + 1] \in AutomatonStates
    BY <2>1, <2>2, TransitionsAssumption DEF Goes
  <2>4. Goes(g, i + 1)
    <3>1. g \in [0..(i + 1) -> AutomatonStates] /\ g[0] = start + (IF b.bol THEN 1 ELSE 0)
      BY <2>1, <2>3 DEF Goes
    <3>2. ASSUME NEW k \in 1..(i + 1)
          PROVE  g[k] = next[g[k - 1]][CharClass(pos + k - 1) + 1]
      <4>1. CASE k = i + 1
        <5>1. g[k] = next[f[i]][CharClass(pos + i) + 1] /\ g[k - 1] = f[i] /\ pos + k - 1 = pos + i
          BY <4>1
        <5> QED
          BY <5>1
      <4>2. CASE k # i + 1
        <5>1. k \in 1..i /\ g[k] = f[k] /\ g[k - 1] = f[k - 1]
          BY <4>2
        <5> QED
          BY <5>1, <2>1 DEF Goes
      <4> QED
        BY <4>1, <4>2
    <3> QED
      BY <3>1, <3>2 DEF Goes
  <2> QED
    BY <2>4
<1> HIDE DEF S
<1>3. S \in SUBSET Nat
  BY DEF S
<1>4. S = Nat
  BY <1>1, <1>2, <1>3, SetInduction
<1> QED
  BY <1>4 DEF S

\* So after is what its definition says.
LEMMA AfterGoes ==
  ASSUME nChars \in Nat, pos \in 1..(nChars + 1), Condition(start)
  PROVE  Goes(after, Left + 2)
<1>0. Left + 2 \in Nat /\ nChars - pos + 3 = Left + 2
  BY DEF Left
<1> DEFINE Body(f) == [k \in 0..(Left + 2) |->
                         IF k = 0 THEN start + (IF b.bol THEN 1 ELSE 0)
                         ELSE next[f[k - 1]][CharClass(pos + k - 1) + 1]]
<1>1. PICK f : Goes(f, Left + 2)
  BY <1>0, MatchGoes
<1>2. f = Body(f)
  <2>1. f = [k \in 0..(Left + 2) |-> f[k]]
    BY <1>1 DEF Goes
  <2>2. \A k \in 0..(Left + 2) : f[k] = Body(f)[k]
    BY <1>0, <1>1 DEF Goes
  <2> QED
    BY <2>1, <2>2
<1>3. after = CHOOSE g : g = Body(g)
  BY <1>0 DEF after
<1>4. after = Body(after)
  BY <1>2, <1>3
<1> DEFINE T == {i \in Nat : i <= Left + 2 => after[i] = f[i]}
<1>5. \A k \in 0..(Left + 2) :
        after[k] = IF k = 0 THEN start + (IF b.bol THEN 1 ELSE 0)
                   ELSE next[after[k - 1]][CharClass(pos + k - 1) + 1]
  BY <1>4
<1>6. 0 \in T
  BY <1>0, <1>5, <1>1 DEF Goes
<1>7. ASSUME NEW i \in T PROVE i + 1 \in T
  <2> SUFFICES ASSUME i + 1 <= Left + 2 PROVE after[i + 1] = f[i + 1]
    OBVIOUS
  <2>1. i + 1 \in 1..(Left + 2) /\ (i + 1) - 1 = i /\ after[i] = f[i]
    BY <1>0
  <2> QED
    BY <2>1, <1>5, <1>1 DEF Goes
<1> HIDE DEF T
<1>8. T \in SUBSET Nat
  BY DEF T
<1>9. T = Nat
  BY <1>6, <1>7, <1>8, SetInduction
<1>10. \A k \in 0..(Left + 2) : after[k] = f[k]
  BY <1>9, <1>0 DEF T
<1>11. after = f
  <2>1. f = [k \in 0..(Left + 2) |-> f[k]]
    BY <1>1 DEF Goes
  <2>2. after = [k \in 0..(Left + 2) |-> after[k]]
    BY <1>4
  <2> QED
    BY <2>1, <2>2, <1>10
<1> QED
  BY <1>1, <1>11

LEMMA Least ==
  ASSUME NEW S \in SUBSET Nat, S # {}
  PROVE  Min(S) \in S /\ \A x \in S : Min(S) <= x
<1> DEFINE R == {p \in Nat \X Nat : p[1] < p[2]}
<1>1. \A y, x \in S : <<y, x>> \in R <=> y < x
  OBVIOUS
<1>2. IsWellFoundedOn(R, Nat)
  BY NatLess
<1> HIDE DEF R
<1>3. PICK x \in S : \A y \in S : ~ (<<y, x>> \in R)
  BY <1>2, WFMin
<1>4. \A y \in S : x <= y
  <2> SUFFICES ASSUME NEW y \in S PROVE x <= y
    OBVIOUS
  <2>1. ~ (y < x) /\ x \in Nat /\ y \in Nat
    BY <1>1, <1>3
  <2> QED
    BY <2>1
<1> QED
  BY <1>3, <1>4 DEF Min

LEMMA Greatest ==
  ASSUME NEW n \in Nat, NEW S \in SUBSET (0..n), S # {}
  PROVE  Max(S) \in S /\ \A x \in S : x <= Max(S)
<1> DEFINE T == {n - x : x \in S}
<1>1. T \in SUBSET Nat /\ T # {}
  <2>1. \A x \in S : x \in Nat /\ n - x \in Nat
    OBVIOUS
  <2> QED
    BY <2>1
<1> HIDE DEF T
<1>2. Min(T) \in T /\ \A t \in T : Min(T) <= t
  BY <1>1, Least
<1>3. PICK x \in S : Min(T) = n - x
  BY <1>2 DEF T
<1>4. \A y \in S : y <= x
  <2> SUFFICES ASSUME NEW y \in S PROVE y <= x
    OBVIOUS
  <2>1. n - y \in T
    BY DEF T
  <2>2. n - x <= n - y
    BY <2>1, <1>2, <1>3
  <2> QED
    BY <2>2
<1> QED
  BY <1>3, <1>4 DEF Max

\* The match goes on through the characters that are left, and may meet the end of the buffer.
LEMMA MatchStops ==
  ASSUME nChars \in Nat, pos \in 1..(nChars + 1), Condition(start), atEnd \in BOOLEAN
  PROVE  /\ stop \in 0..(Left + 2)
         /\ \A j \in 0..(stop - 1) : after[j] \in Going /\ (atEnd => j < Left)
         /\ \A j \in 0..stop : j <= Left => after[j] # EndOfBufferState
         /\ stop > Left => after[Left + 1] = EndOfBufferState
         /\ stop > Left + 1 => after[Left + 2] = Jam
         /\ Stops(after[stop]) \/ (atEnd /\ pos + stop > nChars)
<1>0. Left \in Nat
  BY DEF Left
<1> DEFINE Over(k) == Stops(after[k]) \/ (atEnd /\ pos + k > nChars)
           K == {k \in 0..(Left + 2) : Over(k)}
<1>1. Goes(after, Left + 2)
  BY AfterGoes
<1>2. stop = Min(K)
  BY <1>1 DEF stop, Goes
<1>3. ASSUME NEW j \in 0..(Left + 2), ~ Over(j)
      PROVE  after[j] \in Going /\ (atEnd => j < Left)
  BY <1>0, <1>1, <1>3 DEF Going, Goes, Left
<1>4. ASSUME NEW n \in 0..(Left + 2), \A j \in 0..(n - 1) : ~ Over(j)
      PROVE  /\ \A j \in 0..n : j <= Left => after[j] # EndOfBufferState
             /\ n > Left => after[Left + 1] = EndOfBufferState
             /\ n > Left + 1 => after[Left + 2] = Jam
  <2>1. ASSUME NEW j \in 0..n, j <= Left PROVE after[j] # EndOfBufferState
    <3>1. CASE j = 0
      BY <3>1, <1>1 DEF Goes, Condition, INITIAL, IN_COMMENT, IN_STRING, IN_INCLUDE, EndOfBufferState
    <3>2. CASE j > 0
      <4>1. j - 1 \in 0..(n - 1) /\ j - 1 \in 0..(Left + 2) /\ j \in 1..(Left + 2)
        BY <1>0, <3>2
      <4>2. after[j - 1] \in Going
        BY <4>1, <1>3, <1>4
      <4>3. CharClass(pos + j - 1) \in Class \ {0}
        <5>1. pos + j - 1 \in Nat /\ pos + j - 1 <= nChars
          BY <1>0, <2>1, <3>2 DEF Left
        <5> QED
          BY <5>1, Classes
      <4>4. after[j] = next[after[j - 1]][CharClass(pos + j - 1) + 1]
        BY <4>1, <1>1 DEF Goes
      <4> QED
        BY <4>2, <4>3, <4>4, TransitionsAssumption
    <3> QED
      BY <3>1, <3>2
  <2>2. ASSUME n > Left PROVE after[Left + 1] = EndOfBufferState
    <3>1. after[Left] \in Going /\ after[Left] # EndOfBufferState
      <4>1. Left \in 0..(n - 1) /\ Left \in 0..(Left + 2)
        BY <1>0, <2>2
      <4> QED
        BY <4>1, <1>3, <1>4, <2>1
    <3>2. CharClass(pos + (Left + 1) - 1) = 0
      <4>1. pos + (Left + 1) - 1 \in Nat /\ pos + (Left + 1) - 1 > nChars
        BY <1>0 DEF Left
      <4> QED
        BY <4>1, Classes
    <3>3. after[Left + 1] = next[after[(Left + 1) - 1]][CharClass(pos + (Left + 1) - 1) + 1]
      BY <1>0, <1>1 DEF Goes
    <3>4. (Left + 1) - 1 = Left
      BY <1>0
    <3> QED
      BY <3>1, <3>2, <3>3, <3>4, TransitionsAssumption
  <2>3. ASSUME n > Left + 1 PROVE after[Left + 2] = Jam
    <3>1. after[Left + 1] \in Going /\ after[Left + 1] = EndOfBufferState
      <4>1. Left + 1 \in 0..(n - 1) /\ Left + 1 \in 0..(Left + 2) /\ n > Left
        BY <1>0, <2>3
      <4> QED
        BY <4>1, <1>3, <1>4, <2>2
    <3>2. CharClass(pos + (Left + 2) - 1) = 0
      <4>1. pos + (Left + 2) - 1 \in Nat /\ pos + (Left + 2) - 1 > nChars
        BY <1>0 DEF Left
      <4> QED
        BY <4>1, Classes
    <3>3. after[Left + 2] = next[after[(Left + 2) - 1]][CharClass(pos + (Left + 2) - 1) + 1]
      BY <1>0, <1>1 DEF Goes
    <3>4. (Left + 2) - 1 = Left + 1
      BY <1>0
    <3> QED
      BY <3>1, <3>2, <3>3, <3>4, TransitionsAssumption
  <2> QED
    BY <2>1, <2>2, <2>3
<1>5. K # {}
  <2> SUFFICES ASSUME \A k \in 0..(Left + 2) : ~ Over(k) PROVE FALSE
    OBVIOUS
  <2>1. after[Left + 2] = Jam
    BY <1>4, <1>0
  <2>2. Stops(Jam)
    BY AcceptingAssumption
  <2> QED
    BY <2>1, <2>2, <1>0
<1>6. K \in SUBSET Nat
  BY <1>0
<1> HIDE DEF K
<1>7. stop \in K /\ \A k \in K : stop <= k
  BY <1>2, <1>5, <1>6, Least
<1>8. stop \in 0..(Left + 2) /\ \A j \in 0..(stop - 1) : j \in 0..(Left + 2) /\ ~ Over(j)
  BY <1>7, <1>0 DEF K
<1>9. Stops(after[stop]) \/ (atEnd /\ pos + stop > nChars)
  BY <1>7 DEF K
<1> HIDE DEF Over
<1> QED
  BY <1>3, <1>4, <1>8, <1>9

\* The match as a whole.  That of the end of the buffer takes all that is left, and one NUL.
LEMMA MatchFound ==
  ASSUME nChars \in Nat, pos \in 1..(nChars + 1), Condition(start), atEnd \in BOOLEAN
  PROVE  /\ Found[1] \in Nat /\ Found[2] \in Nat
         /\ Found[2] = EndOfBuffer => Found[1] = Left + 1
         /\ Found[2] \notin {0, EndOfBuffer} =>
              /\ Found[1] <= Left
              /\ Found[1] \in 0..stop
              /\ Found[2] = yy_accept[after[Found[1]] + 1]
<1>0. Left \in Nat
  BY DEF Left
<1>1. Goes(after, Left + 2)
  BY AfterGoes
<1>2. stop \in 0..(Left + 2) /\ \A j \in 0..stop : j \in 0..(Left + 2) /\ after[j] \in AutomatonStates
  <2>1. stop \in 0..(Left + 2)
    BY MatchStops
  <2>2. \A j \in 0..stop : j \in 0..(Left + 2)
    BY <2>1, <1>0
  <2> QED
    BY <2>1, <2>2, <1>1 DEF Goes
<1>3. accepting = {j \in 0..stop : yy_accept[after[j] + 1] # 0}
  BY DEF accepting, Accepted
<1>4. CASE accepting = {}
  <2>1. Found = <<0, 0>>
    BY <1>4 DEF Found
  <2> QED
    BY <2>1 DEF EndOfBuffer
<1>5. CASE accepting # {}
  <2> DEFINE k == Max(accepting)
  <2>1. k \in accepting
    <3>1. stop \in Nat /\ accepting \in SUBSET (0..stop)
      BY <1>2, <1>3, <1>0
    <3> QED
      BY <3>1, <1>5, Greatest
  <2>2. Found = <<k, yy_accept[after[k] + 1]>>
    BY <1>5 DEF Found, Accepted
  <2>3. k \in 0..stop /\ after[k] \in AutomatonStates /\ yy_accept[after[k] + 1] # 0
    BY <2>1, <1>2, <1>3
  <2> HIDE DEF k
  <2>4. yy_accept[after[k] + 1] \in Nat
        /\ (yy_accept[after[k] + 1] = EndOfBuffer <=> after[k] = EndOfBufferState)
    BY <2>3, AcceptingAssumption DEF EndOfBuffer
  <2>5. after[k] # Jam
    BY <2>3, AcceptingAssumption
  <2>6. k <= Left + 1
    BY <2>3, <2>5, <1>0, <1>2, MatchStops
  <2>7. after[k] = EndOfBufferState <=> k = Left + 1
    BY <2>3, <2>6, <1>0, <1>2, MatchStops
  <2> QED
    BY <2>2, <2>3, <2>4, <2>6, <2>7, <1>0, <1>2
<1> QED
  BY <1>4, <1>5

\* What the states of a match know of the newlines in it.
LEMMA MatchPassesNewlines ==
  ASSUME nChars \in Nat, pos \in 1..(nChars + 1), Condition(start), atEnd \in BOOLEAN,
         NEW j \in 0..stop, j <= Left
  PROVE  /\ (\E i \in 1..j : b.chars[pos + i - 1] = "\n") => after[j] \in AfterNewline
         /\ (\E i \in 1..(j - 1) : b.chars[pos + i - 1] = "\n") => after[j] \in PastNewline
<1> DEFINE Met(n) == \E i \in 1..n : b.chars[pos + i - 1] = "\n"
           T == {n \in Nat : n <= j => /\ Met(n) => after[n] \in AfterNewline
                                       /\ Met(n - 1) => after[n] \in PastNewline}
<1>0. Left \in Nat /\ stop \in 0..(Left + 2)
  BY MatchStops DEF Left
<1>1. Goes(after, Left + 2)
  BY AfterGoes
<1>2. 0 \in T
  OBVIOUS
<1>3. ASSUME NEW n \in T PROVE n + 1 \in T
  <2> SUFFICES ASSUME n + 1 <= j
               PROVE  /\ Met(n + 1) => after[n + 1] \in AfterNewline
                      /\ Met(n) => after[n + 1] \in PastNewline
    BY <1>3
  <2>1. n \in Nat /\ n \in 0..(stop - 1) /\ n + 1 \in 1..(Left + 2) /\ (n + 1) - 1 = n
        /\ pos + (n + 1) - 1 = pos + n
    BY <1>0
  <2>2. after[n] \in Going
    BY <2>1, MatchStops
  <2>3. after[n + 1] = next[after[n]][CharClass(pos + n) + 1]
    BY <2>1, <1>1 DEF Goes
  <2>4. /\ CharClass(pos + n) \in Class \ {0}
        /\ b.chars[pos + n] = "\n" => CharClass(pos + n) = ClassOf("\n")
    <3>1. pos + n \in Nat /\ pos + n <= nChars
      BY <1>0 DEF Left
    <3> QED
      BY <3>1, Classes
  <2>5. Met(n) => after[n] \in AfterNewline
    BY <2>1
  <2> HIDE DEF T
  <2>6. Met(n) => after[n + 1] \in PastNewline
    BY <2>2, <2>3, <2>4, <2>5, NewlinesAssumption
  <2>7. Met(n + 1) => Met(n) \/ b.chars[pos + n] = "\n"
    <3> SUFFICES ASSUME NEW i \in 1..(n + 1), b.chars[pos + i - 1] = "\n"
                 PROVE  Met(n) \/ b.chars[pos + n] = "\n"
      OBVIOUS
    <3>1. CASE i = n + 1
      BY <3>1, <2>1
    <3>2. CASE i # n + 1
      <4>1. i \in 1..n
        BY <3>2, <2>1
      <4> QED
        BY <4>1
    <3> QED
      BY <3>1, <3>2
  <2>8. b.chars[pos + n] = "\n" => after[n + 1] \in AfterNewline
    BY <2>2, <2>3, <2>4, NewlinesAssumption
  <2>9. PastNewline \subseteq AfterNewline
    BY NewlinesAssumption
  <2> QED
    BY <2>6, <2>7, <2>8, <2>9
<1>4. T \in SUBSET Nat
  OBVIOUS
<1> HIDE DEF T
<1>5. T = Nat
  BY <1>2, <1>3, <1>4, SetInduction
<1>6. j \in T /\ j \in Nat
  BY <1>5, <1>0
<1> QED
  BY <1>6 DEF T

\* The text of a match is what is left, or a part of it from the front; and a rule that is
\* said to match no newline has matched none.
LEMMA MatchText ==
  ASSUME nChars \in Nat, pos \in 1..(nChars + 1), Condition(start), atEnd \in BOOLEAN,
         match.rule \notin {0, EndOfBuffer}
  PROVE  \E n \in 0..Left :
           /\ match.text = SubSeq(b.chars, pos, pos + n - 1)
           /\ CanMatchEol(match.rule) \/ \A i \in 1..n : b.chars[pos + i - 1] # "\n"
<1>0. Left \in Nat /\ Left = nChars - pos + 1 /\ stop \in 0..(Left + 2)
  BY MatchStops DEF Left
<1> DEFINE r == Found[2]
           k == Found[1]
           yyleng == k - (IF r = 39 THEN 1 ELSE 0)
<1>1. /\ match.rule = r
      /\ match.text = SubSeq(b.chars, pos, Min({pos + yyleng - 1, nChars}))
  BY DEF match
<1>2. k \in Nat /\ r \in Nat /\ k <= Left /\ k \in 0..stop /\ r = yy_accept[after[k] + 1] /\ r # 0
  BY <1>1, MatchFound
<1>3. /\ (\E i \in 1..k : b.chars[pos + i - 1] = "\n") => after[k] \in AfterNewline
      /\ (\E i \in 1..(k - 1) : b.chars[pos + i - 1] = "\n") => after[k] \in PastNewline
  BY <1>2, MatchPassesNewlines
<1>4. /\ after[k] \in AfterNewline => r = 39 \/ CanMatchEol(r)
      /\ after[k] \in PastNewline => r # 39
  BY <1>2, NewlinesAssumption
<1> HIDE DEF k, r
<1>5. Min({pos + yyleng - 1, nChars}) = pos + yyleng - 1
  <2>1. pos + yyleng - 1 \in Int /\ pos + yyleng - 1 <= nChars /\ nChars \in Int
    BY <1>0, <1>2
  <2> HIDE DEF yyleng
  <2> QED
    BY <2>1 DEF Min
<1>6. CASE r = 39 /\ k > 0
  <2>1. k - 1 \in 0..Left /\ yyleng = k - 1
    BY <1>0, <1>2, <1>6
  <2>2. match.text = SubSeq(b.chars, pos, pos + (k - 1) - 1)
    BY <2>1, <1>1, <1>5
  <2>3. \A i \in 1..(k - 1) : b.chars[pos + i - 1] # "\n"
    BY <1>3, <1>4, <1>6
  <2> QED
    BY <2>1, <2>2, <2>3
<1>7. CASE r = 39 /\ k = 0
  <2>1. yyleng = -1
    BY <1>7
  <2>2. match.text = SubSeq(b.chars, pos, pos + (-1) - 1)
    BY <2>1, <1>1, <1>5
  <2>3. SubSeq(b.chars, pos, pos + (-1) - 1) = << >> /\ SubSeq(b.chars, pos, pos + 0 - 1) = << >>
    OBVIOUS
  <2> QED
    BY <2>2, <2>3, <1>0
<1>8. CASE r # 39
  <2>1. k \in 0..Left /\ yyleng = k
    BY <1>0, <1>2, <1>8
  <2>2. match.text = SubSeq(b.chars, pos, pos + k - 1)
    BY <2>1, <1>1, <1>5
  <2>3. CanMatchEol(r) \/ \A i \in 1..k : b.chars[pos + i - 1] # "\n"
    BY <1>3, <1>4, <1>8
  <2> QED
    BY <2>1, <2>2, <2>3, <1>1
<1>9. \/ r = 39 /\ k > 0
      \/ r = 39 /\ k = 0
      \/ r # 39
  BY <1>2
<1> QED
  BY <1>6, <1>7, <1>8, <1>9
-----------------------------------------------------------------------------
(* Newlines.                                                               *)

LEMMA NewlinesCount ==
  ASSUME NEW s \in Seq(STRING)
  PROVE  Newlines(s) \in Nat /\ IsFiniteSet({i \in DOMAIN s : s[i] = "\n"})
<1>1. IsFiniteSet(1..Len(s)) /\ DOMAIN s = 1..Len(s)
  BY FS_Interval
<1>2. IsFiniteSet({i \in DOMAIN s : s[i] = "\n"})
  <2>1. {i \in DOMAIN s : s[i] = "\n"} \in SUBSET (1..Len(s))
    BY <1>1
  <2> QED
    BY <1>1, <2>1, FS_Subset
<1> QED
  BY <1>2, FS_CardinalityType DEF Newlines

LEMMA NewlinesGrow ==
  ASSUME NEW text \in Seq(STRING), NEW o \in Nat, NEW n \in Nat, o + n <= Len(text),
         NEW t \in Seq(STRING), Len(t) = n, \A i \in 1..n : t[i] = text[o + i]
  PROVE  Newlines(SubSeq(text, 1, o + n)) = Newlines(SubSeq(text, 1, o)) + Newlines(t)
<1> DEFINE A == {i \in 1..o : text[i] = "\n"}
           B == {i \in 1..n : t[i] = "\n"}
           C == {i \in 1..(o + n) : text[i] = "\n"}
           D == {i + o : i \in B}
<1>1. Newlines(SubSeq(text, 1, o)) = Cardinality(A) /\ IsFiniteSet(A)
  <2> DEFINE s == SubSeq(text, 1, o)
  <2>1. s \in Seq(STRING) /\ DOMAIN s = 1..o /\ \A i \in 1..o : s[i] = text[i]
    OBVIOUS
  <2> HIDE DEF s
  <2>2. {i \in DOMAIN s : s[i] = "\n"} = A
    BY <2>1
  <2> QED
    BY <2>1, <2>2, NewlinesCount DEF Newlines, s
<1>2. Newlines(t) = Cardinality(B) /\ IsFiniteSet(B)
  <2>1. DOMAIN t = 1..n
    OBVIOUS
  <2> QED
    BY <2>1, NewlinesCount DEF Newlines
<1>3. Newlines(SubSeq(text, 1, o + n)) = Cardinality(C)
  <2> DEFINE s == SubSeq(text, 1, o + n)
  <2>1. s \in Seq(STRING) /\ DOMAIN s = 1..(o + n) /\ \A i \in 1..(o + n) : s[i] = text[i]
    OBVIOUS
  <2> HIDE DEF s
  <2>2. {i \in DOMAIN s : s[i] = "\n"} = C
    BY <2>1
  <2> QED
    BY <2>1, <2>2 DEF Newlines, s
<1>4. IsFiniteSet(D) /\ Cardinality(D) = Cardinality(B)
  <2> DEFINE f == [i \in B |-> i + o]
  <2>1. f \in Bijection(B, D)
    <3>1. f \in [B -> D] /\ \A x, y \in B : f[x] = f[y] => x = y
      OBVIOUS
    <3>2. \A y \in D : \E x \in B : f[x] = y
      OBVIOUS
    <3> HIDE DEF f, B, D
    <3> QED
      BY <3>1, <3>2 DEF Bijection, Injection, Surjection, IsInjective
  <2>2. ExistsBijection(B, D)
    BY <2>1 DEF ExistsBijection
  <2> QED
    BY <1>2, <2>2, FS_Bijection
<1>5. C = A \cup D /\ A \cap D = {}
  <2>1. ASSUME NEW i \in C PROVE i \in A \cup D
    <3>1. CASE i <= o
      BY <3>1
    <3>2. CASE i > o
      <4>1. i - o \in 1..n /\ i = (i - o) + o /\ t[i - o] = text[o + (i - o)] /\ o + (i - o) = i
        BY <3>2
      <4>2. i - o \in B
        BY <4>1
      <4> QED
        BY <4>1, <4>2
    <3> QED
      BY <3>1, <3>2
  <2>2. ASSUME NEW i \in B PROVE i + o \in C \ A
    <3>1. t[i] = text[o + i] /\ o + i = i + o /\ i + o \in 1..(o + n) /\ ~ (i + o <= o)
      OBVIOUS
    <3> QED
      BY <3>1
  <2>3. A \subseteq C
    OBVIOUS
  <2> QED
    BY <2>1, <2>2, <2>3
<1> HIDE DEF A, B, C, D
<1>6. Cardinality(C) = Cardinality(A) + Cardinality(D)
  <2>1. Cardinality(A) \in Nat /\ Cardinality(D) \in Nat /\ Cardinality({}) = 0
    BY <1>1, <1>4, FS_CardinalityType, FS_EmptySet
  <2>2. Cardinality(A \cup D) = Cardinality(A) + Cardinality(D) - Cardinality(A \cap D)
    BY <1>1, <1>4, FS_Union
  <2>3. Cardinality(C) = Cardinality(A) + Cardinality(D) - 0
    BY <1>5, <2>1, <2>2
  <2> QED
    BY <2>1, <2>3
<1> QED
  BY <1>1, <1>2, <1>3, <1>4, <1>6

LEMMA NoNewlines ==
  ASSUME NEW s \in Seq(STRING), \A i \in 1..Len(s) : s[i] # "\n"
  PROVE  Newlines(s) = 0
<1>1. {i \in DOMAIN s : s[i] = "\n"} = {}
  OBVIOUS
<1> QED
  BY <1>1, FS_EmptySet DEF Newlines
-----------------------------------------------------------------------------
(* The rules.                                                              *)

LEMMA Part ==
  ASSUME NEW s \in Seq(STRING), NEW p \in Nat \ {0}, NEW k \in Nat, p + k - 1 <= Len(s),
         NEW t, t = SubSeq(s, p, p + k - 1)
  PROVE  t \in Seq(STRING) /\ Len(t) = k /\ \A i \in 1..k : t[i] = s[p + i - 1]
<1>1. p + k - 1 \in Nat
  OBVIOUS
<1> QED
  BY <1>1

LEMMA Joined ==
  ASSUME NEW s \in Seq(STRING), NEW t \in Seq(STRING), NEW u, u = s \o t
  PROVE  /\ u \in Seq(STRING) /\ Len(u) = Len(s) + Len(t)
         /\ \A i \in 1..Len(s) : u[i] = s[i]
         /\ \A i \in (Len(s) + 1)..(Len(s) + Len(t)) : u[i] = t[i - Len(s)]
  OBVIOUS

LEMMA Advance ==
  ASSUME NEW r, Told(r), NEW n, NEW p, Holds(r, n, p), NEW k \in 0..(n + 1 - p),
         NEW q, BufferTypes(q),
         q.text = r.text, q.got = r.got, q.chars = r.chars, q.size = r.size, q.fill = r.fill,
         q.offset = r.offset + k, q.line = r.line + Newlines(SubSeq(r.chars, p, p + k - 1))
  PROVE  Told(q) /\ Holds(q, n, p + k)
<1> DEFINE t == SubSeq(r.chars, p, p + k - 1)
<1>1. /\ BufferTypes(r) /\ r.offset \in Nat /\ r.got \in Nat /\ r.text \in Seq(STRING)
      /\ r.chars \in Seq(STRING) /\ r.line \in Nat /\ r.offset <= r.got /\ r.got <= Len(r.text)
      /\ r.line = 1 + Newlines(SubSeq(r.text, 1, r.offset))
  BY DEF Told, BufferTypes
<1>2. /\ n \in Nat /\ p \in 1..(n + 1) /\ Len(r.chars) = n /\ r.got - r.offset = n + 1 - p
      /\ \A i \in p..n : r.chars[i] = r.text[r.offset + i + 1 - p]
      /\ k \in Nat
  BY DEF Holds
<1>3. t \in Seq(STRING) /\ Len(t) = k /\ \A i \in 1..k : t[i] = r.chars[p + i - 1]
  <2> HIDE DEF t
  <2>1. p \in Nat \ {0} /\ p + k - 1 <= Len(r.chars)
    BY <1>1, <1>2
  <2>2. r.chars \in Seq(STRING) /\ k \in Nat /\ t = SubSeq(r.chars, p, p + k - 1)
    BY <1>1, <1>2 DEF t
  <2> QED
    BY <2>1, <2>2, Part
<1>4. \A i \in 1..k : t[i] = r.text[r.offset + i]
  <2> SUFFICES ASSUME NEW i \in 1..k PROVE t[i] = r.text[r.offset + i]
    OBVIOUS
  <2>1. p + i - 1 \in p..n /\ r.offset + (p + i - 1) + 1 - p = r.offset + i
    BY <1>1, <1>2
  <2> QED
    BY <2>1, <1>2, <1>3
<1> HIDE DEF t
<1>5. r.offset + k <= Len(r.text) /\ r.offset + k <= r.got
  BY <1>1, <1>2
<1>6. Newlines(SubSeq(r.text, 1, r.offset + k)) = Newlines(SubSeq(r.text, 1, r.offset)) + Newlines(t)
  <2> DEFINE text == r.text
             o == r.offset
  <2>1. /\ text \in Seq(STRING) /\ o \in Nat /\ k \in Nat /\ o + k <= Len(text)
        /\ \A i \in 1..k : t[i] = text[o + i]
    BY <1>1, <1>2, <1>4, <1>5
  <2> HIDE DEF text, o
  <2>2. Newlines(SubSeq(text, 1, o + k)) = Newlines(SubSeq(text, 1, o)) + Newlines(t)
    BY <2>1, <1>3, NewlinesGrow
  <2> QED
    BY <2>2 DEF text, o
<1>7. Newlines(SubSeq(r.text, 1, r.offset)) \in Nat /\ Newlines(t) \in Nat
  <2>1. SubSeq(r.text, 1, r.offset) \in Seq(STRING)
    BY <1>1
  <2> QED
    BY <2>1, <1>3, NewlinesCount
<1>8. q.line = 1 + Newlines(SubSeq(q.text, 1, q.offset))
  <2>1. q.line = r.line + Newlines(t) /\ q.offset = r.offset + k /\ q.text = r.text
    BY DEF t
  <2> QED
    BY <2>1, <1>1, <1>6, <1>7
<1>9. Told(q)
  BY <1>1, <1>5, <1>8 DEF Told
<1>10. Holds(q, n, p + k)
  <2>1. p + k \in 1..(n + 1) /\ Len(q.chars) = n /\ q.got - q.offset = n + 1 - (p + k)
    BY <1>1, <1>2
  <2>2. ASSUME NEW i \in (p + k)..n PROVE q.chars[i] = q.text[q.offset + i + 1 - (p + k)]
    <3>1. i \in p..n /\ q.offset + i + 1 - (p + k) = r.offset + i + 1 - p
      BY <1>1, <1>2
    <3> QED
      BY <3>1, <1>2
  <2> QED
    BY <1>2, <2>1, <2>2 DEF Holds
<1> QED
  BY <1>9, <1>10

\* What is known of the current buffer while the scanner runs.
LEMMA Running ==
  ASSUME SInv, result = "running"
  PROVE  /\ nChars \in Nat /\ pos \in 1..(nChars + 1) /\ Condition(start) /\ atEnd \in BOOLEAN
         /\ current \in DOMAIN buffers /\ current = Len(stack) + 1 /\ Len(stack) \in Nat
         /\ DOMAIN buffers = 1..(Len(stack) + 1)
         /\ Told(b) /\ BufferTypes(b) /\ Holds(b, nChars, pos)
         /\ Left \in Nat /\ Left = nChars + 1 - pos
<1>1. Len(stack) \in Nat /\ current = Len(stack) + 1
  BY DEF SInv, Nest
<1>2. DOMAIN buffers = 1..(Len(stack) + 1)
  BY <1>1 DEF SInv, Nest
<1>3. nChars \in Nat /\ pos \in 1..(nChars + 1)
  BY DEF SInv, Machine, Holds
<1> QED
  BY <1>1, <1>2, <1>3 DEF SInv, Machine, b, Told, Condition, Left

LEMMA Matched ==
  ASSUME SInv, result = "running", match.rule \notin {0, EndOfBuffer}
  PROVE  /\ Len(match.text) \in 0..Left
         /\ Told(MatchedBuffer(match))
         /\ Holds(MatchedBuffer(match), nChars, pos + Len(match.text))
         /\ \A k, n \in Nat :
              LET saved == [MatchedBuffer(match) EXCEPT !.pos = k, !.n = n]
              IN Told(saved) /\ Holds(saved, nChars, pos + Len(match.text))
<1> DEFINE q == MatchedBuffer(match)
<1>0. /\ nChars \in Nat /\ pos \in 1..(nChars + 1) /\ Condition(start) /\ atEnd \in BOOLEAN
      /\ Told(b) /\ BufferTypes(b) /\ Holds(b, nChars, pos)
      /\ Left \in Nat /\ Left = nChars + 1 - pos
  BY Running
<1>1. PICK n \in 0..Left :
        /\ match.text = SubSeq(b.chars, pos, pos + n - 1)
        /\ CanMatchEol(match.rule) \/ \A i \in 1..n : b.chars[pos + i - 1] # "\n"
  BY <1>0, MatchText
<1> DEFINE t == SubSeq(b.chars, pos, pos + n - 1)
<1>2. t \in Seq(STRING) /\ Len(t) = n /\ \A i \in 1..n : t[i] = b.chars[pos + i - 1]
  BY <1>0, <1>1 DEF Holds, BufferTypes
<1>3. match.text = t
  BY <1>1
<1> HIDE DEF t
<1>4. Newlines(t) \in Nat /\ (IF CanMatchEol(match.rule) THEN Newlines(t) ELSE 0) = Newlines(t)
  <2>1. Newlines(t) \in Nat
    BY <1>2, NewlinesCount
  <2>2. ~ CanMatchEol(match.rule) => Newlines(t) = 0
    BY <1>1, <1>2, NoNewlines
  <2> QED
    BY <2>1, <2>2
<1>5. q = [b EXCEPT !.line = @ + Newlines(t), !.bol = (Last(t) = "\n"), !.offset = @ + n]
  BY <1>2, <1>3, <1>4 DEF MatchedBuffer
<1>6. /\ BufferTypes(q) /\ q.text = b.text /\ q.got = b.got /\ q.chars = b.chars
      /\ q.size = b.size /\ q.fill = b.fill
      /\ q.offset = b.offset + n /\ q.line = b.line + Newlines(t)
  <2>1. (Last(t) = "\n") \in BOOLEAN
    OBVIOUS
  <2> DEFINE l == Newlines(t)
             x == (Last(t) = "\n")
             c == b
  <2>2. l \in Nat /\ x \in BOOLEAN /\ n \in Nat /\ BufferTypes(c)
        /\ q = [c EXCEPT !.line = @ + l, !.bol = x, !.offset = @ + n]
    BY <1>0, <1>4, <1>5, <2>1
  <2> HIDE DEF l, x, c, q
  <2>3. q = [c EXCEPT !.line = c.line + l, !.bol = x, !.offset = c.offset + n]
    BY <2>2
  <2>4. c.line + l \in Nat /\ c.offset + n \in Nat
    BY <2>2 DEF BufferTypes
  <2>5. /\ BufferTypes(q) /\ q.text = c.text /\ q.got = c.got /\ q.chars = c.chars
        /\ q.size = c.size /\ q.fill = c.fill
        /\ q.offset = c.offset + n /\ q.line = c.line + l
    BY <2>2, <2>3, <2>4 DEF BufferTypes
  <2> QED
    BY <2>5 DEF l, c
<1> HIDE DEF q
<1>7. Told(q) /\ Holds(q, nChars, pos + n)
  BY <1>0, <1>6, Advance DEF t
<1>8. ASSUME NEW i \in Nat, NEW j \in Nat
      PROVE  LET saved == [q EXCEPT !.pos = i, !.n = j] IN Told(saved) /\ Holds(saved, nChars, pos + n)
  <2> DEFINE saved == [q EXCEPT !.pos = i, !.n = j]
  <2>1. /\ BufferTypes(saved) /\ saved.text = q.text /\ saved.got = q.got /\ saved.chars = q.chars
        /\ saved.size = q.size /\ saved.fill = q.fill
        /\ saved.offset = q.offset /\ saved.line = q.line
    BY <1>6 DEF BufferTypes
  <2> HIDE DEF saved
  <2>2. Told(saved) /\ Holds(saved, nChars, pos + n)
    BY <1>7, <2>1 DEF Told, Holds
  <2> QED
    BY <2>2 DEF saved
<1> QED
  BY <1>1, <1>2, <1>3, <1>7, <1>8 DEF q
-----------------------------------------------------------------------------
(* The end of the buffer.                                                  *)

LEMMA GrownMore ==
  ASSUME NEW length \in Nat \ {0}, NEW moved \in Nat
  PROVE  Grown(length, moved) \in Nat /\ Grown(length, moved) > moved + 1
<1> DEFINE Body(f) == [n \in Nat |-> IF n > moved + 1 THEN n ELSE f[n * 2]]
           S == {i \in Nat : \E f \in [Nat -> Nat] :
                  \A n \in Nat : n > 0 /\ n + i > moved + 1 =>
                    f[n] = IF n > moved + 1 THEN n ELSE f[n * 2]}
<1>1. 0 \in S
  <2> DEFINE f == [n \in Nat |-> n]
  <2>1. f \in [Nat -> Nat] /\ \A n \in Nat : n > 0 /\ n + 0 > moved + 1 =>
          f[n] = IF n > moved + 1 THEN n ELSE f[n * 2]
    OBVIOUS
  <2> HIDE DEF f
  <2> QED
    BY <2>1
<1>2. ASSUME NEW i \in S PROVE i + 1 \in S
  <2>1. PICK f \in [Nat -> Nat] :
          \A n \in Nat : n > 0 /\ n + i > moved + 1 =>
            f[n] = IF n > moved + 1 THEN n ELSE f[n * 2]
    OBVIOUS
  <2> DEFINE j == moved + 1 - i
             g == [n \in Nat |-> IF n = j THEN f[n * 2] ELSE f[n]]
  <2>2. i \in Nat /\ j \in Int
    OBVIOUS
  <2>3. CASE i = 0
    <3>1. \A n \in Nat : n > 0 /\ n + (i + 1) > moved + 1 =>
            g[n] = IF n > moved + 1 THEN n ELSE g[n * 2]
      <4> SUFFICES ASSUME NEW n \in Nat, n > 0, n + (i + 1) > moved + 1
                   PROVE  g[n] = IF n > moved + 1 THEN n ELSE g[n * 2]
        OBVIOUS
      <4>1. CASE n = j
        <5>1. n * 2 \in Nat /\ n * 2 # j /\ ~ (n > moved + 1)
          BY <2>3, <4>1
        <5> QED
          BY <4>1, <5>1
      <4>2. CASE n # j
        BY <4>2, <2>1, <2>3
      <4> QED
        BY <4>1, <4>2
    <3>2. g \in [Nat -> Nat]
      OBVIOUS
    <3> HIDE DEF g
    <3> QED
      BY <3>1, <3>2
  <2>4. CASE i # 0
    <3>1. \A n \in Nat : n > 0 /\ n + (i + 1) > moved + 1 =>
            g[n] = IF n > moved + 1 THEN n ELSE g[n * 2]
      <4> SUFFICES ASSUME NEW n \in Nat, n > 0, n + (i + 1) > moved + 1
                   PROVE  g[n] = IF n > moved + 1 THEN n ELSE g[n * 2]
        OBVIOUS
      <4>1. n * 2 \in Nat /\ n * 2 > n /\ n >= j
        BY <2>2
      <4>2. CASE n = j
        <5>1. n * 2 # j /\ ~ (n > moved + 1)
          BY <2>4, <4>1, <4>2
        <5> QED
          BY <4>1, <4>2, <5>1
      <4>3. CASE n # j
        <5>1. n + i > moved + 1 /\ n * 2 # j
          BY <4>1, <4>3
        <5>2. g[n] = f[n] /\ g[n * 2] = f[n * 2]
          BY <4>1, <4>3, <5>1
        <5> QED
          BY <2>1, <5>1, <5>2
      <4> QED
        BY <4>2, <4>3
    <3>2. g \in [Nat -> Nat]
      OBVIOUS
    <3> HIDE DEF g
    <3> QED
      BY <3>1, <3>2
  <2> QED
    BY <2>3, <2>4
<1>3. S \in SUBSET Nat
  OBVIOUS
<1> HIDE DEF S
<1>4. S = Nat
  BY <1>1, <1>2, <1>3, SetInduction
<1>5. PICK f \in [Nat -> Nat] :
        \A n \in Nat : n > 0 /\ n + (moved + 2) > moved + 1 =>
          f[n] = IF n > moved + 1 THEN n ELSE f[n * 2]
  <2>1. moved + 2 \in S
    BY <1>4
  <2> QED
    BY <2>1 DEF S
<1>6. f = Body(f)
  <2>1. \A n \in Nat : f[n] = IF n > moved + 1 THEN n ELSE f[n * 2]
    <3> SUFFICES ASSUME NEW n \in Nat PROVE f[n] = IF n > moved + 1 THEN n ELSE f[n * 2]
      OBVIOUS
    <3>1. CASE n = 0
      BY <3>1
    <3>2. CASE n # 0
      BY <3>2, <1>5
    <3> QED
      BY <3>1, <3>2
  <2>2. f = [n \in Nat |-> f[n]]
    OBVIOUS
  <2> QED
    BY <2>1, <2>2
<1> DEFINE grown == CHOOSE g : g = Body(g)
<1>7. grown = Body(grown)
  BY <1>6
<1>8. Grown(length, moved) = grown[length]
  BY DEF Grown
<1> HIDE DEF grown
<1> DEFINE T == {i \in Nat : \A n \in Nat : n > 0 /\ n + i > moved + 1 =>
                               grown[n] \in Nat /\ grown[n] > moved + 1}
<1>9. \A n \in Nat : grown[n] = IF n > moved + 1 THEN n ELSE grown[n * 2]
  BY <1>7
<1>10. 0 \in T
  BY <1>9
<1>11. ASSUME NEW i \in T PROVE i + 1 \in T
  <2> SUFFICES ASSUME NEW n \in Nat, n > 0, n + (i + 1) > moved + 1
               PROVE  grown[n] \in Nat /\ grown[n] > moved + 1
    OBVIOUS
  <2>1. i \in Nat /\ n * 2 \in Nat /\ n * 2 > 0 /\ n * 2 + i > moved + 1
    OBVIOUS
  <2>2. grown[n * 2] \in Nat /\ grown[n * 2] > moved + 1
    BY <2>1
  <2> QED
    BY <2>2, <1>9
<1>12. T \in SUBSET Nat
  OBVIOUS
<1> HIDE DEF T
<1>13. T = Nat
  BY <1>10, <1>11, <1>12, SetInduction
<1>14. moved + 2 \in T
  BY <1>13
<1> QED
  BY <1>8, <1>14 DEF T

\* A read delivers no more than there is.
LEMMA InputFits ==
  ASSUME Told(b), NEW room \in Nat
  PROVE  InputLength(room) \in 0..(Len(b.text) - b.got)
<1> DEFINE rest == SubSeq(b.text, b.got + 1, Len(b.text))
           most == Min({room, ReadSize, Len(rest)})
<1>0. /\ b.text \in Seq(STRING) /\ b.got \in Nat /\ b.got <= Len(b.text)
      /\ ReadSize \in Nat
  BY BuffersAssumption DEF Told, BufferTypes
<1>1. Len(rest) = Len(b.text) - b.got /\ Len(rest) \in Nat
  BY <1>0
<1> HIDE DEF rest
<1>2. most \in 0..Len(rest)
  <2> DEFINE S == {room, ReadSize, Len(rest)}
  <2>1. S \in SUBSET Nat /\ S # {} /\ Len(rest) \in S
    BY <1>0, <1>1
  <2> HIDE DEF S
  <2>2. Min(S) \in S /\ \A x \in S : Min(S) <= x
    BY <2>1, Least
  <2> QED
    BY <2>1, <2>2 DEF S
<1> HIDE DEF most
<1>3. Min({i \in 1..most : rest[i] = "\n"} \cup {most}) \in 0..most
  <2> DEFINE S == {i \in 1..most : rest[i] = "\n"} \cup {most}
  <2>1. S \in SUBSET Nat /\ S # {} /\ most \in S
    BY <1>1, <1>2
  <2> HIDE DEF S
  <2>2. Min(S) \in S /\ \A x \in S : Min(S) <= x
    BY <2>1, Least
  <2> QED
    BY <2>1, <2>2, <1>1, <1>2 DEF S
<1>4. InputLength(room) = IF b.interactive THEN Min({i \in 1..most : rest[i] = "\n"} \cup {most})
                         ELSE most
  BY DEF InputLength, most, rest
<1> QED
  BY <1>1, <1>2, <1>3, <1>4

\* What was left moves to the front, and what is read of the text goes behind it.
LEMMA Refilled ==
  ASSUME SInv, result = "running", b.fill
  PROVE  /\ Told(Refill(Left)) /\ Refill(Left).n \in Nat
         /\ Holds(Refill(Left), Refill(Left).n + Left, 1)
<1> DEFINE length == IF b.status = "EOF_PENDING" THEN b.size ELSE Grown(b.size, Left)
           read == IF b.status = "EOF_PENDING" THEN 0 ELSE InputLength(length - Left - 1)
           front == SubSeq(b.chars, pos, pos + Left - 1)
           behind == SubSeq(b.text, b.got + 1, b.got + read)
           status == IF read = 0 THEN "EOF_PENDING" ELSE "NORMAL"
           q == Refill(Left)
<1>0. /\ nChars \in Nat /\ pos \in 1..(nChars + 1)
      /\ Told(b) /\ BufferTypes(b) /\ Holds(b, nChars, pos)
      /\ Left \in Nat /\ Left = nChars + 1 - pos
  BY Running
<1>1. length \in Nat \ {0} /\ read \in 0..(Len(b.text) - b.got)
  <2>1. b.size \in Nat \ {0} /\ b.text \in Seq(STRING) /\ b.got \in Nat /\ b.got <= Len(b.text)
    BY <1>0 DEF Told, BufferTypes
  <2>2. CASE b.status = "EOF_PENDING"
    BY <2>1, <2>2
  <2>3. CASE b.status # "EOF_PENDING"
    <3>1. Grown(b.size, Left) \in Nat /\ Grown(b.size, Left) > Left + 1
      BY <2>1, <1>0, GrownMore
    <3>2. length = Grown(b.size, Left) /\ length - Left - 1 \in Nat
      BY <2>3, <3>1, <1>0
    <3> HIDE DEF length
    <3>3. InputLength(length - Left - 1) \in 0..(Len(b.text) - b.got)
      BY <1>0, <3>2, InputFits
    <3> QED
      BY <2>3, <3>1, <3>2, <3>3, <1>0
  <2> QED
    BY <2>2, <2>3
<1>2. q = [b EXCEPT !.chars = front \o behind, !.size = length, !.got = b.got + read, !.n = read,
                    !.status = status]
  BY DEF Refill
<1> HIDE DEF length, read, q
<1>3. /\ front \in Seq(STRING) /\ Len(front) = Left
      /\ \A i \in 1..Left : front[i] = b.chars[pos + i - 1]
  <2>1. b.chars \in Seq(STRING)
    BY <1>0 DEF BufferTypes
  <2>2. Len(b.chars) = nChars
    BY <1>0 DEF Holds
  <2>3. pos \in Nat \ {0} /\ pos + Left - 1 <= Len(b.chars)
    BY <1>0, <2>2
  <2> HIDE DEF front
  <2>4. front = SubSeq(b.chars, pos, pos + Left - 1)
    BY DEF front
  <2> QED
    BY <2>1, <2>3, <2>4, <1>0, Part
<1>4. /\ behind \in Seq(STRING) /\ Len(behind) = read
      /\ \A i \in 1..read : behind[i] = b.text[b.got + i]
  <2> DEFINE c == b.text
             g == b.got
  <2>1. c \in Seq(STRING) /\ g \in Nat /\ read \in Nat /\ g + read <= Len(c)
    BY <1>0, <1>1 DEF BufferTypes, Told
  <2> HIDE DEF c, g
  <2>2. g + 1 \in Nat \ {0} /\ (g + 1) + read - 1 <= Len(c) /\ (g + 1) + read - 1 = g + read
    BY <2>1
  <2>3. SubSeq(c, g + 1, g + read) = SubSeq(c, g + 1, (g + 1) + read - 1)
    BY <2>2
  <2> DEFINE u == SubSeq(c, g + 1, g + read)
  <2> HIDE DEF u
  <2>4. u \in Seq(STRING) /\ Len(u) = read /\ \A i \in 1..read : u[i] = c[(g + 1) + i - 1]
    BY <2>1, <2>2, <2>3, Part DEF u
  <2>5. \A i \in 1..read : (g + 1) + i - 1 = g + i
    BY <2>1
  <2>6. u \in Seq(STRING) /\ Len(u) = read /\ \A i \in 1..read : u[i] = c[g + i]
    BY <2>4, <2>5
  <2> QED
    BY <2>6 DEF c, g, u
<1> HIDE DEF front, behind
<1> DEFINE joined == front \o behind
<1> HIDE DEF joined
<1>5. /\ joined \in Seq(STRING) /\ Len(joined) = Left + read
      /\ \A i \in 1..Left : joined[i] = b.chars[pos + i - 1]
      /\ \A i \in (Left + 1)..(Left + read) : joined[i] = b.text[b.got + (i - Left)]
  <2>1. read \in Nat /\ b.got \in Nat
    BY <1>4, <1>0 DEF BufferTypes
  <2>2. /\ joined \in Seq(STRING) /\ Len(joined) = Left + read
        /\ \A i \in 1..Left : joined[i] = front[i]
        /\ \A i \in (Left + 1)..(Left + read) : joined[i] = behind[i - Left]
    BY <1>3, <1>4, Joined DEF joined
  <2>3. \A i \in (Left + 1)..(Left + read) : i - Left \in 1..read
    BY <2>1, <1>0
  <2> QED
    BY <2>1, <2>2, <2>3, <1>3, <1>4
<1>6. /\ BufferTypes(q) /\ q.text = b.text /\ q.fill = b.fill /\ q.size = length
      /\ q.offset = b.offset /\ q.line = b.line /\ q.got = b.got + read /\ q.n = read
      /\ q.chars = joined
  <2>1. joined \in Seq(STRING) /\ read \in Nat /\ length \in Nat
        /\ status \in {"NEW", "NORMAL", "EOF_PENDING"}
    BY <1>1, <1>4, <1>5
  <2> DEFINE c == b
             g == b.got + read
  <2>2. BufferTypes(c) /\ g \in Nat
    BY <1>0, <2>1 DEF BufferTypes
  <2>4. q = [c EXCEPT !.chars = joined, !.size = length, !.got = g, !.n = read, !.status = status]
    BY <1>2 DEF joined
  <2> HIDE DEF c, g, status
  <2>3. /\ BufferTypes(q) /\ q.text = c.text /\ q.fill = c.fill /\ q.size = length
        /\ q.offset = c.offset /\ q.line = c.line /\ q.got = g /\ q.n = read /\ q.chars = joined
    BY <2>1, <2>2, <2>4 DEF BufferTypes
  <2> QED
    BY <2>3 DEF c, g
<1>7. Told(q)
  <2>1. /\ b.text \in Seq(STRING) /\ b.offset \in Nat /\ b.got \in Nat
        /\ b.offset <= b.got /\ b.got <= Len(b.text)
        /\ b.line = 1 + Newlines(SubSeq(b.text, 1, b.offset))
    BY <1>0 DEF Told, BufferTypes
  <2>2. q.offset <= q.got /\ q.got <= Len(q.text) /\ q.size > 0
    BY <1>1, <1>6, <2>1
  <2> QED
    BY <1>6, <2>1, <2>2 DEF Told
<1>8. Holds(q, read + Left, 1)
  <2>1. /\ b.text \in Seq(STRING) /\ b.offset \in Nat /\ b.got \in Nat
        /\ b.got - b.offset = nChars + 1 - pos
        /\ \A i \in pos..nChars : b.chars[i] = b.text[b.offset + i + 1 - pos]
    BY <1>0 DEF Holds, BufferTypes
  <2>2. read \in Nat /\ Len(q.chars) = read + Left /\ q.got - q.offset = (read + Left) + 1 - 1
    <3>1. read \in Nat /\ Left \in Nat
      BY <1>4, <1>0
    <3>2. Len(q.chars) = Left + read
      BY <1>5, <1>6
    <3>3. q.got = b.got + read /\ q.offset = b.offset /\ b.got = b.offset + Left
      BY <1>0, <1>6, <2>1
    <3> QED
      BY <3>1, <3>2, <3>3, <2>1
  <2>3. ASSUME NEW i \in 1..(read + Left) PROVE q.chars[i] = q.text[q.offset + i + 1 - 1]
    <3>1. i \in 1..(Left + read) /\ q.offset + i + 1 - 1 = b.offset + i
      BY <1>0, <1>6, <2>1, <2>2
    <3>2. CASE i <= Left
      <4>1. pos + i - 1 \in pos..nChars /\ b.offset + (pos + i - 1) + 1 - pos = b.offset + i
        BY <3>2, <1>0, <2>1
      <4>2. q.chars[i] = b.chars[pos + i - 1]
        BY <3>1, <3>2, <1>0, <1>5, <1>6
      <4> QED
        BY <4>1, <4>2, <3>1, <2>1, <1>6
    <3>3. CASE i > Left
      <4>1. b.got + (i - Left) = b.offset + i /\ i \in (Left + 1)..(Left + read)
        <5>1. b.got = b.offset + Left /\ Left \in Nat
          BY <1>0, <2>1
        <5> QED
          BY <5>1, <3>1, <3>3, <2>1, <2>2
      <4>2. q.chars[i] = b.text[b.got + (i - Left)]
        BY <4>1, <1>5, <1>6
      <4> QED
        BY <4>1, <4>2, <3>1, <1>6
    <3> QED
      BY <3>2, <3>3, <1>0
  <2> QED
    BY <1>0, <2>2, <2>3 DEF Holds
<1>9. q.n = read /\ read \in Nat
  BY <1>6, <1>1
<1> QED
  BY <1>7, <1>8, <1>9 DEF q
-----------------------------------------------------------------------------
(* The steps.                                                              *)

LEMMA NewBuffer ==
  ASSUME NEW text \in Seq(STRING), NEW fill \in BOOLEAN, NEW interactive \in BOOLEAN
  PROVE  /\ Told(Buffer(text, fill, interactive))
         /\ Holds(Buffer(text, fill, interactive), IF fill THEN 0 ELSE Len(text), 1)
<1> DEFINE r == Buffer(text, fill, interactive)
<1>1. BufferTypes(r) /\ (r.fill => r.size > 0)
  <2>1. Len(text) \in Nat /\ << >> \in Seq(STRING) /\ BufSize \in Nat /\ BufSize > 0
    BY BuffersAssumption
  <2>2. CASE fill
    BY <2>1, <2>2 DEF Buffer, BufferTypes
  <2>3. CASE ~ fill
    BY <2>1, <2>3 DEF Buffer, BufferTypes
  <2> QED
    BY <2>2, <2>3
<1>2. r.text = text /\ r.offset = 0 /\ r.line = 1 /\ r.got = (IF fill THEN 0 ELSE Len(text))
      /\ r.chars = (IF fill THEN << >> ELSE text)
  BY DEF Buffer
<1> HIDE DEF r
<1>3. Newlines(SubSeq(text, 1, 0)) = 0
  <2> DEFINE s == SubSeq(text, 1, 0)
  <2>1. s \in Seq(STRING) /\ Len(s) = 0
    OBVIOUS
  <2> HIDE DEF s
  <2>2. \A i \in 1..Len(s) : s[i] # "\n"
    BY <2>1
  <2>3. Newlines(s) = 0
    BY <2>1, <2>2, NoNewlines
  <2> QED
    BY <2>3 DEF s
<1>4. Told(r)
  BY <1>1, <1>2, <1>3 DEF Told
<1>5. Holds(r, IF fill THEN 0 ELSE Len(text), 1)
  <2>1. CASE fill
    BY <2>1, <1>2 DEF Holds
  <2>2. CASE ~ fill
    <3>1. Len(text) \in Nat /\ r.got = Len(text) /\ r.chars = text
      BY <2>2, <1>2
    <3> QED
      BY <2>2, <3>1, <1>2 DEF Holds
  <2> QED
    BY <2>1, <2>2
<1> QED
  BY <1>4, <1>5 DEF r

LEMMA InitKept == Init => SInv
<1> SUFFICES ASSUME Init PROVE SInv
  OBVIOUS
<1>1. PICK text \in Texts, fill \in {TRUE} \cup {~ s : s \in Strings}, tty \in Terminals :
        /\ buffers = [k \in {1} |-> Buffer(text, fill, tty)]
        /\ nChars = IF fill THEN 0 ELSE Len(text)
  BY DEF Init
<1>2. text \in Seq(STRING) /\ fill \in BOOLEAN /\ tty \in BOOLEAN
  BY TextsAssumption, BuffersAssumption
<1>3. Told(Buffer(text, fill, tty)) /\ Holds(Buffer(text, fill, tty), nChars, 1)
  BY <1>1, <1>2, NewBuffer
<1>4. DOMAIN buffers = {1} /\ buffers[1] = Buffer(text, fill, tty)
      /\ buffers = [k \in DOMAIN buffers |-> buffers[k]]
  BY <1>1
<1>5. current = 1 /\ pos = 1 /\ start = INITIAL /\ atEnd = FALSE /\ stack = << >> /\ result = "running"
  BY DEF Init
<1>6. Machine
  BY <1>3, <1>4, <1>5 DEF Machine, b
<1>7. Nest
  <2>1. Len(stack) = 0 /\ stack \in Seq(Nat)
    BY <1>5
  <2> QED
    BY <1>4, <1>5, <2>1 DEF Nest
<1> QED
  BY <1>6, <1>7 DEF SInv

\* A step that takes the match from the buffer.
LEMMA Consumed ==
  ASSUME SInv, result = "running", match.rule \notin {0, EndOfBuffer},
         Consume(match), atEnd' = FALSE, Condition(start')
  PROVE  SInv'
<1> DEFINE q == MatchedBuffer(match)
           n == Len(match.text)
<1>0. /\ nChars \in Nat /\ current \in DOMAIN buffers /\ current = Len(stack) + 1 /\ Len(stack) \in Nat
  BY Running
<1>1. Told(q) /\ Holds(q, nChars, pos + n)
  BY Matched
<1> HIDE DEF q, n
<1>2. /\ buffers' = [buffers EXCEPT ![current] = q] /\ pos' = pos + n
      /\ UNCHANGED <<current, nChars, stack, result>>
  BY DEF Consume, q, n
<1>3. /\ DOMAIN buffers' = DOMAIN buffers /\ buffers'[current] = q
      /\ \A k \in DOMAIN buffers : k # current => buffers'[k] = buffers[k]
      /\ buffers' = [k \in DOMAIN buffers' |-> buffers'[k]]
  <2>1. buffers = [k \in DOMAIN buffers |-> buffers[k]]
    BY DEF SInv, Nest
  <2> QED
    BY <1>0, <1>2, <2>1
<1>4. Machine'
  <2>1. b' = q
    BY <1>2, <1>3 DEF b
  <2>2. \A k \in DOMAIN buffers' : Told(buffers'[k])
    BY <1>1, <1>3 DEF SInv, Machine
  <2> QED
    BY <1>1, <1>2, <2>1, <2>2 DEF Machine, Condition
<1>5. Nest'
  <2>1. \A k \in 1..Len(stack) : k \in DOMAIN buffers /\ k # current
    BY <1>0 DEF SInv, Nest
  <2>2. \A k \in 1..Len(stack) : Holds(buffers'[k], buffers'[k].n, buffers'[k].pos)
    BY <1>3, <2>1 DEF SInv, Nest
  <2> QED
    BY <1>2, <1>3, <2>2 DEF SInv, Nest
<1> QED
  BY <1>4, <1>5 DEF SInv

LEMMA RulesKept ==
  ASSUME SInv, result = "running",
         \/ Blank(match) \/ Begin(match) \/ AppendString(match) \/ EndString(match)
         \/ ReturnToken(match) \/ FailInclude(match)
  PROVE  SInv'
<1>1. Condition(start)
  BY Running
<1>2. CASE Blank(match)
  <2>1. match.rule \in {3, 4, 20, 21, 39, 41} /\ Consume(match) /\ atEnd' = FALSE /\ start' = start
    BY <1>2 DEF Blank, Match
  <2>2. match.rule \notin {0, EndOfBuffer}
    BY <2>1 DEF EndOfBuffer
  <2>3. Condition(start')
    BY <1>1, <2>1
  <2> QED
    BY <2>1, <2>2, <2>3, Consumed
<1>3. CASE Begin(match)
  <2> DEFINE begins == [r \in {1, 2, 5, 15} |-> CASE r = 1 -> IN_COMMENT [] r = 2 -> INITIAL
                                              [] r = 5 -> IN_STRING [] r = 15 -> IN_INCLUDE]
  <2>1. /\ match.rule \in {1, 2, 5, 15} /\ Consume(match) /\ atEnd' = FALSE
        /\ start' = begins[match.rule]
    BY <1>3 DEF Begin, Match
  <2>2. match.rule \notin {0, EndOfBuffer}
    BY <2>1 DEF EndOfBuffer
  <2>3. \A r \in {1, 2, 5, 15} : Condition(begins[r])
    BY DEF Condition
  <2> HIDE DEF begins
  <2>4. Condition(start')
    BY <2>1, <2>3
  <2> QED
    BY <2>1, <2>2, <2>4, Consumed
<1>4. CASE AppendString(match)
  <2>1. match.rule \in {6, 7, 8, 9, 10, 11, 12, 13, 16, 17, 18} /\ Consume(match) /\ atEnd' = FALSE /\ start' = start
    BY <1>4 DEF AppendString, Match
  <2>2. match.rule \notin {0, EndOfBuffer}
    BY <2>1 DEF EndOfBuffer
  <2>3. Condition(start')
    BY <1>1, <2>1
  <2> QED
    BY <2>1, <2>2, <2>3, Consumed
<1>5. CASE EndString(match)
  <2>1. Condition(start') /\ match.rule = 14 /\ Consume(match) /\ atEnd' = FALSE
    BY <1>5 DEF EndString, Match, Condition
  <2>2. match.rule \notin {0, EndOfBuffer}
    BY <2>1 DEF EndOfBuffer
  <2> QED
    BY <2>1, <2>2, Consumed
<1>6. CASE ReturnToken(match)
  <2>1. match.rule \in (22..38) \cup {40} /\ Consume(match) /\ atEnd' = FALSE /\ start' = start
    BY <1>6 DEF ReturnToken, Match
  <2>2. match.rule \notin {0, EndOfBuffer}
    BY <2>1 DEF EndOfBuffer
  <2>3. Condition(start')
    BY <1>1, <2>1
  <2> QED
    BY <2>1, <2>2, <2>3, Consumed
<1>7. CASE FailInclude(match)
  <2>1. match.rule \in {19} /\ Consume(match) /\ atEnd' = FALSE /\ start' = start
    BY <1>7 DEF FailInclude, Match
  <2>2. match.rule \notin {0, EndOfBuffer}
    BY <2>1 DEF EndOfBuffer
  <2>3. Condition(start')
    BY <1>1, <2>1
  <2> QED
    BY <2>1, <2>2, <2>3, Consumed
<1> QED
  BY <1>2, <1>3, <1>4, <1>5, <1>6, <1>7

LEMMA IncludeKept ==
  ASSUME SInv, result = "running", OpenInclude(match)
  PROVE  SInv'
<1> DEFINE n == Len(stack)
           new == Max(DOMAIN buffers) + 1
           saved == [MatchedBuffer(match) EXCEPT !.pos = pos + Len(match.text), !.n = nChars]
<1>0. /\ nChars \in Nat /\ pos \in 1..(nChars + 1) /\ current \in DOMAIN buffers /\ current = n + 1 /\ n \in Nat
      /\ DOMAIN buffers = 1..(n + 1) /\ Left \in Nat
  BY Running
<1>1. match.rule \notin {0, EndOfBuffer}
  BY DEF OpenInclude, Match, EndOfBuffer
<1>2. /\ Told(saved) /\ Holds(saved, nChars, pos + Len(match.text))
      /\ saved.pos = pos + Len(match.text) /\ saved.n = nChars
  <2>1. pos + Len(match.text) \in Nat
    <3>1. Len(match.text) \in 0..Left
      BY <1>1, Matched
    <3> HIDE DEF n
    <3> QED
      BY <1>0, <3>1
  <2>2. Told(saved) /\ Holds(saved, nChars, pos + Len(match.text))
    BY <1>0, <1>1, <2>1, Matched
  <2>3. BufferTypes(MatchedBuffer(match))
    BY <1>1, Matched DEF Told
  <2> DEFINE q == MatchedBuffer(match)
  <2> HIDE DEF q
  <2>4. saved = [q EXCEPT !.pos = pos + Len(match.text), !.n = nChars] /\ BufferTypes(q)
    BY <2>3 DEF q
  <2>5. saved.pos = pos + Len(match.text) /\ saved.n = nChars
    BY <2>4 DEF BufferTypes
  <2> QED
    BY <2>2, <2>5
<1>3. new = n + 2
  <2> DEFINE D == DOMAIN buffers
             i == n + 1
  <2>1. i \in Nat /\ D \in SUBSET (0..i) /\ D # {} /\ i \in D
    BY <1>0
  <2>2. n \in Nat /\ i = n + 1
    BY <1>0
  <2> HIDE DEF D, i, n
  <2>3. Max(D) \in D /\ \A x \in D : x <= Max(D)
    BY <2>1, Greatest
  <2> DEFINE most == Max(D)
  <2>4. most = i
    <3>1. most \in D /\ i <= most
      BY <2>1, <2>3
    <3> HIDE DEF most
    <3>2. most \in 0..i
      BY <2>1, <3>1
    <3> QED
      BY <2>1, <3>1, <3>2
  <2> QED
    BY <2>2, <2>4 DEF D
<1> HIDE DEF new, saved
<1>4. PICK text \in Included :
        buffers' = [k \in DOMAIN buffers \cup {new} |->
                      IF k = new THEN Buffer(text, TRUE, FALSE) ELSE Saved(match)[k]]
  BY DEF OpenInclude, new
<1>5. /\ current' = new /\ stack' = Append(stack, current) /\ nChars' = 0 /\ pos' = 1
      /\ start' = INITIAL /\ result' = result /\ atEnd' = FALSE
  BY DEF OpenInclude, new, Match
<1>6. Told(Buffer(text, TRUE, FALSE)) /\ Holds(Buffer(text, TRUE, FALSE), 0, 1)
  <2>1. text \in Seq(STRING)
    BY TextsAssumption
  <2> QED
    BY <2>1, NewBuffer
<1>7. /\ DOMAIN buffers' = 1..(n + 2) /\ buffers'[n + 2] = Buffer(text, TRUE, FALSE)
      /\ buffers'[n + 1] = saved
      /\ \A k \in 1..n : buffers'[k] = buffers[k]
      /\ buffers' = [k \in DOMAIN buffers' |-> buffers'[k]]
  <2>1. /\ DOMAIN Saved(match) = DOMAIN buffers /\ Saved(match)[current] = saved
        /\ \A k \in DOMAIN buffers : k # current => Saved(match)[k] = buffers[k]
    BY <1>0 DEF Saved, saved
  <2>2. DOMAIN buffers \cup {new} = 1..(n + 2)
    BY <1>0, <1>3
  <2>3. buffers' = [k \in 1..(n + 2) |-> IF k = n + 2 THEN Buffer(text, TRUE, FALSE) ELSE Saved(match)[k]]
    BY <1>3, <1>4, <2>2
  <2> DEFINE B == Buffer(text, TRUE, FALSE)
             old == Saved(match)
  <2>4. /\ buffers' = [k \in 1..(n + 2) |-> IF k = n + 2 THEN B ELSE old[k]]
        /\ n \in Nat /\ old[n + 1] = saved /\ \A k \in 1..n : old[k] = buffers[k]
    BY <1>0, <2>1, <2>3
  <2> HIDE DEF B, old, n
  <2>5. n + 2 \in 1..(n + 2) /\ n + 1 \in 1..(n + 2) /\ n + 1 # n + 2
        /\ \A k \in 1..n : k \in 1..(n + 2) /\ k # n + 2
    BY <2>4
  <2>6. DOMAIN buffers' = 1..(n + 2) /\ buffers' = [k \in DOMAIN buffers' |-> buffers'[k]]
    BY <2>4
  <2>7. buffers'[n + 2] = B /\ buffers'[n + 1] = saved /\ \A k \in 1..n : buffers'[k] = buffers[k]
    BY <2>4, <2>5
  <2> QED
    BY <2>6, <2>7 DEF B
<1>8. /\ stack' \in Seq(Nat) /\ Len(stack') = n + 1 /\ stack'[n + 1] = n + 1
      /\ \A k \in 1..n : stack'[k] = k
  <2>1. stack \in Seq(Nat) /\ \A k \in 1..n : stack[k] = k
    BY DEF SInv, Nest
  <2> QED
    BY <1>0, <1>5, <2>1
<1>9. Machine'
  <2>1. b' = Buffer(text, TRUE, FALSE)
    BY <1>3, <1>5, <1>7 DEF b
  <2>2. \A k \in DOMAIN buffers' : k \in 1..n \/ k = n + 1 \/ k = n + 2
    BY <1>0, <1>7
  <2>3. \A k \in 1..n : Told(buffers[k])
    BY <1>0 DEF SInv, Machine
  <2>4. \A k \in DOMAIN buffers' : Told(buffers'[k])
    BY <1>2, <1>6, <1>7, <2>2, <2>3
  <2> QED
    BY <1>5, <1>6, <2>1, <2>4 DEF Machine
<1>10. Nest'
  <2>1. \A k \in 1..(n + 1) : k \in 1..n \/ k = n + 1
    BY <1>0
  <2>2. \A k \in 1..n : Holds(buffers[k], buffers[k].n, buffers[k].pos)
    BY DEF SInv, Nest
  <2>3. \A k \in 1..(n + 1) : Holds(buffers'[k], buffers'[k].n, buffers'[k].pos)
    BY <1>2, <1>7, <2>1, <2>2
  <2>4. \A k \in 1..(n + 1) : stack'[k] = k
    BY <1>8, <2>1
  <2>5. DOMAIN buffers' = 1..(n + 1) \cup ({n + 2} \ {0}) /\ n + 2 \in Nat /\ n + 2 = (n + 1) + 1
    BY <1>0, <1>7
  <2> QED
    BY <1>3, <1>5, <1>7, <1>8, <2>3, <2>4, <2>5 DEF Nest
<1> QED
  BY <1>9, <1>10 DEF SInv
\* The match of rule 42 takes all that is left, and the NUL behind it.
LEMMA AtTheEnd ==
  ASSUME SInv, result = "running", match.rule = EndOfBuffer
  PROVE  match.length = Left + 1
<1>1. /\ nChars \in Nat /\ pos \in 1..(nChars + 1) /\ Condition(start) /\ atEnd \in BOOLEAN
  BY Running
<1>2. match.length = Found[1] /\ match.rule = Found[2]
  BY DEF match
<1> QED
  BY <1>1, <1>2, MatchFound

LEMMA ContinueKept ==
  ASSUME SInv, result = "running", Continue(match)
  PROVE  SInv'
<1> DEFINE n == Len(stack)
<1>0. /\ nChars \in Nat /\ pos \in 1..(nChars + 1) /\ current \in DOMAIN buffers /\ current = n + 1 /\ n \in Nat
      /\ DOMAIN buffers = 1..(n + 1) /\ Left \in Nat /\ Left = nChars + 1 - pos
      /\ Told(b) /\ BufferTypes(b) /\ Holds(b, nChars, pos) /\ Condition(start)
  BY Running
<1>1. match.length - 1 = Left
  BY <1>0, AtTheEnd DEF Continue
<1>2. PICK q :
        /\ buffers' = [buffers EXCEPT ![current] = q]
        /\ Told(q) /\ Holds(q, nChars', pos')
  <2>1. CASE b.fill
    <3> DEFINE q == Refill(Left)
    <3>1. buffers' = [buffers EXCEPT ![current] = q] /\ nChars' = q.n + Left /\ pos' = 1
      BY <2>1, <1>1 DEF Continue
    <3>2. Told(q) /\ Holds(q, q.n + Left, 1)
      BY <2>1, Refilled
    <3> HIDE DEF q
    <3> QED
      BY <3>1, <3>2
  <2>2. CASE ~ b.fill
    <3> DEFINE q == [b EXCEPT !.status = "NORMAL"]
    <3>1. buffers' = [buffers EXCEPT ![current] = q] /\ nChars' = nChars /\ pos' = pos
      BY <2>2, <1>0 DEF Continue, b
    <3>2. BufferTypes(q) /\ q.text = b.text /\ q.got = b.got /\ q.chars = b.chars
          /\ q.size = b.size /\ q.fill = b.fill /\ q.offset = b.offset /\ q.line = b.line
      <4> DEFINE c == b
      <4>1. BufferTypes(c) /\ q = [c EXCEPT !.status = "NORMAL"]
        BY <1>0
      <4> HIDE DEF c, q
      <4>2. BufferTypes(q) /\ q.text = c.text /\ q.got = c.got /\ q.chars = c.chars
            /\ q.size = c.size /\ q.fill = c.fill /\ q.offset = c.offset /\ q.line = c.line
        BY <4>1 DEF BufferTypes
      <4> QED
        BY <4>2 DEF c
    <3> HIDE DEF q
    <3>3. Told(q) /\ Holds(q, nChars, pos)
      BY <1>0, <3>2 DEF Told, Holds
    <3> QED
      BY <3>1, <3>3
  <2> QED
    BY <2>1, <2>2
<1>3. UNCHANGED <<current, start, stack, result>> /\ atEnd' \in BOOLEAN
  BY <1>0 DEF Continue
<1>4. /\ DOMAIN buffers' = DOMAIN buffers /\ buffers'[current] = q
      /\ \A k \in DOMAIN buffers : k # current => buffers'[k] = buffers[k]
      /\ buffers' = [k \in DOMAIN buffers' |-> buffers'[k]]
  BY <1>0, <1>2 DEF SInv, Nest
<1>5. Machine'
  <2>1. b' = q
    BY <1>3, <1>4 DEF b
  <2>2. \A k \in DOMAIN buffers' : Told(buffers'[k])
    BY <1>2, <1>4 DEF SInv, Machine
  <2> QED
    BY <1>0, <1>2, <1>3, <2>1, <2>2 DEF Machine, Condition
<1>6. Nest'
  <2>1. \A k \in 1..Len(stack) : k \in DOMAIN buffers /\ k # current
    BY <1>0 DEF SInv, Nest
  <2>2. \A k \in 1..Len(stack) : Holds(buffers'[k], buffers'[k].n, buffers'[k].pos)
    BY <1>4, <2>1 DEF SInv, Nest
  <2> QED
    BY <1>3, <1>4, <2>2 DEF SInv, Nest
<1> QED
  BY <1>5, <1>6 DEF SInv

\* The last of the including files' buffers has the number before the current one's.
LEMMA Including ==
  ASSUME SInv, stack # << >>
  PROVE  \E n \in Nat : /\ Len(stack) = n + 1 /\ Last(stack) = n + 1
                       /\ Front(stack) \in Seq(Nat) /\ Len(Front(stack)) = n
                       /\ \A k \in 1..n : stack[k] = k /\ Front(stack)[k] = k
<1> DEFINE n == Len(stack) - 1
<1>1. stack \in Seq(Nat) /\ \A k \in 1..Len(stack) : stack[k] = k
  BY DEF SInv, Nest
<1>2. n \in Nat /\ Len(stack) = n + 1
  BY <1>1
<1>3. Last(stack) = n + 1 /\ Front(stack) = SubSeq(stack, 1, n)
  BY <1>1, <1>2 DEF Last, Front
<1> HIDE DEF n
<1>4. SubSeq(stack, 1, n) \in Seq(Nat) /\ Len(SubSeq(stack, 1, n)) = n
      /\ \A k \in 1..n : SubSeq(stack, 1, n)[k] = k
  BY <1>1, <1>2
<1> QED
  BY <1>1, <1>2, <1>3, <1>4

LEMMA PopKept ==
  ASSUME SInv, result = "running", PopInclude(match)
  PROVE  SInv'
<1>0. PICK n \in Nat : /\ Len(stack) = n + 1 /\ Last(stack) = n + 1
                       /\ Front(stack) \in Seq(Nat) /\ Len(Front(stack)) = n
                       /\ \A k \in 1..n : stack[k] = k /\ Front(stack)[k] = k
  BY Including DEF PopInclude
<1>1. current = n + 2 /\ DOMAIN buffers = 1..(n + 2) /\ Condition(start) /\ atEnd \in BOOLEAN
  <2>1. current = Len(stack) + 1 /\ DOMAIN buffers = 1..(Len(stack) + 1)
        /\ Condition(start) /\ atEnd \in BOOLEAN
    BY Running
  <2>2. Len(stack) + 1 = n + 2
    BY <1>0
  <2> QED
    BY <2>1, <2>2
<1>2. /\ buffers' = [k \in DOMAIN buffers \ {current} |-> buffers[k]]
      /\ current' = n + 1 /\ stack' = Front(stack)
      /\ nChars' = buffers[n + 1].n /\ pos' = buffers[n + 1].pos
      /\ UNCHANGED <<start, atEnd, result>>
  BY <1>0 DEF PopInclude
<1>3. /\ DOMAIN buffers' = 1..(n + 1) /\ \A k \in 1..(n + 1) : buffers'[k] = buffers[k]
      /\ buffers' = [k \in DOMAIN buffers' |-> buffers'[k]]
  <2>1. DOMAIN buffers \ {current} = 1..(n + 1)
    BY <1>1
  <2> QED
    BY <1>2, <2>1
<1>4. \A k \in 1..(n + 1) : Told(buffers[k]) /\ Holds(buffers[k], buffers[k].n, buffers[k].pos)
  <2>1. \A k \in 1..(n + 1) : k \in DOMAIN buffers /\ k \in 1..Len(stack)
    BY <1>0, <1>1
  <2> QED
    BY <2>1 DEF SInv, Machine, Nest
<1>5. Machine'
  <2>1. n + 1 \in 1..(n + 1)
    OBVIOUS
  <2>2. b' = buffers[n + 1]
    BY <1>2, <1>3, <2>1 DEF b
  <2> QED
    BY <1>1, <1>2, <1>3, <1>4, <2>1, <2>2 DEF Machine, Condition
<1>6. Nest'
  <2>1. \A k \in 1..n : k \in 1..(n + 1)
    OBVIOUS
  <2>2. 1..(n + 1) = 1..n \cup ({n + 1} \ {0})
    OBVIOUS
  <2> QED
    BY <1>0, <1>2, <1>3, <1>4, <2>1, <2>2 DEF Nest
<1> QED
  BY <1>5, <1>6 DEF SInv
LEMMA EndKept ==
  ASSUME SInv, result = "running", EndOfInput(match)
  PROVE  SInv'
<1>0. /\ current \in DOMAIN buffers /\ current = Len(stack) + 1
      /\ Told(b) /\ Condition(start) /\ atEnd \in BOOLEAN
  BY Running
<1>1. Told(Restarted(b))
  <2> DEFINE c == b
             q == [c EXCEPT !.chars = << >>, !.n = 0, !.pos = 1, !.bol = TRUE, !.status = "NEW"]
  <2>1. BufferTypes(c) /\ Told(c) /\ << >> \in Seq(STRING)
    BY <1>0 DEF Told
  <2>2. Restarted(c) = q
    BY DEF Restarted
  <2> HIDE DEF c
  <2>3. /\ BufferTypes(q) /\ q.text = c.text /\ q.got = c.got /\ q.size = c.size
        /\ q.fill = c.fill /\ q.offset = c.offset /\ q.line = c.line
    BY <2>1 DEF BufferTypes
  <2> HIDE DEF q
  <2>4. Told(q)
    BY <2>1, <2>3 DEF Told
  <2> QED
    BY <2>2, <2>4 DEF c
<1>2. PICK q :
        /\ buffers' = [buffers EXCEPT ![current] = q] /\ Told(q)
  <2>1. CASE b.fill
    BY <2>1, <1>1 DEF EndOfInput
  <2>2. CASE ~ b.fill
    BY <2>2, <1>0 DEF EndOfInput
  <2> QED
    BY <2>1, <2>2
<1>3. stack = << >> /\ result' = "ended" /\ UNCHANGED <<current, start, atEnd, stack>>
  BY DEF EndOfInput
<1>4. /\ DOMAIN buffers' = DOMAIN buffers /\ \A k \in DOMAIN buffers : Told(buffers'[k])
      /\ buffers' = [k \in DOMAIN buffers' |-> buffers'[k]]
  BY <1>0, <1>2 DEF SInv, Machine, Nest
<1> QED
  BY <1>0, <1>3, <1>4 DEF SInv, Machine, Nest, Condition

\* The steps of the end of __config_read.
LEMMA RefuseKept ==
  ASSUME SInv, Refuse
  PROVE  SInv'
<1>1. result = "running" /\ result' = "stopped" /\ UNCHANGED <<buffers, current, start, atEnd, stack>>
  BY DEF Refuse, input
<1>2. current > Len(stack)
  BY <1>1, Running
<1> QED
  BY <1>1, <1>2 DEF SInv, Machine, Nest

LEMMA UnwindKept ==
  ASSUME SInv, Unwind
  PROVE  SInv'
<1>0. PICK n \in Nat : /\ Len(stack) = n + 1 /\ Last(stack) = n + 1
                       /\ Front(stack) \in Seq(Nat) /\ Len(Front(stack)) = n
                       /\ \A k \in 1..n : stack[k] = k /\ Front(stack)[k] = k
  BY Including DEF Unwind
<1>1. /\ result = "stopped" /\ UNCHANGED <<current, start, atEnd, result>> /\ stack' = Front(stack)
      /\ buffers' = [k \in DOMAIN buffers \ {n + 1} |-> buffers[k]]
  BY <1>0 DEF Unwind
<1>2. current \in Nat /\ current > n + 1 /\ DOMAIN buffers = 1..(n + 1) \cup ({current} \ {0})
  BY <1>0, <1>1 DEF SInv, Nest
<1>3. DOMAIN buffers \ {n + 1} = 1..n \cup ({current} \ {0})
  BY <1>2
<1>4. /\ DOMAIN buffers' = 1..n \cup ({current} \ {0})
      /\ buffers' = [k \in DOMAIN buffers' |-> buffers'[k]]
      /\ \A k \in DOMAIN buffers' : k \in DOMAIN buffers /\ buffers'[k] = buffers[k]
  BY <1>1, <1>3
<1>5. Machine'
  BY <1>1, <1>4 DEF SInv, Machine
<1>6. Nest'
  <2>1. current > n
    BY <1>2
  <2> QED
    BY <1>0, <1>1, <1>2, <1>4, <2>1 DEF Nest
<1> QED
  BY <1>5, <1>6 DEF SInv

LEMMA DestroyKept ==
  ASSUME SInv, Destroy
  PROVE  SInv'
<1>1. /\ stack = << >> /\ UNCHANGED <<start, atEnd, stack>>
      /\ current' = 0 /\ result' = "destroyed"
      /\ buffers' = [k \in DOMAIN buffers \ {current} |-> buffers[k]]
  BY DEF Destroy
<1>2. Len(stack) = 0
  BY <1>1
<1>3. DOMAIN buffers \ {current} = {}
  BY <1>2 DEF SInv, Nest
<1>4. DOMAIN buffers' = {} /\ buffers' = [k \in DOMAIN buffers' |-> buffers'[k]]
  BY <1>1, <1>3
<1> QED
  BY <1>1, <1>2, <1>4 DEF SInv, Machine, Nest

LEMMA SInvNext == SInv /\ [Next]_vars => SInv'
<1> SUFFICES ASSUME SInv, [Next]_vars PROVE SInv'
  OBVIOUS
<1>1. CASE Scanning /\ Scan
  <2>1. result = "running"
    BY <1>1 DEF Scanning
  <2>2. \/ Blank(match) \/ Begin(match) \/ AppendString(match) \/ EndString(match)
        \/ ReturnToken(match) \/ OpenInclude(match) \/ FailInclude(match)
        \/ Continue(match) \/ PopInclude(match) \/ EndOfInput(match)
    BY <1>1 DEF Scan
  <2> QED
    BY <2>1, <2>2, RulesKept, IncludeKept, ContinueKept, PopKept, EndKept
<1>2. CASE Refuse
  BY <1>2, RefuseKept
<1>3. CASE Unwind
  BY <1>3, UnwindKept
<1>4. CASE Destroy
  BY <1>4, DestroyKept
<1>5. CASE Done \/ UNCHANGED vars
  <2>1. UNCHANGED <<buffers, current, nChars, pos, start, atEnd, stack, result>>
    BY <1>5 DEF Done, vars, input
  <2> QED
    BY <2>1 DEF SInv, Machine, Nest, b
<1> QED
  BY <1>1, <1>2, <1>3, <1>4, <1>5 DEF Next
-----------------------------------------------------------------------------
(* The properties.                                                         *)

LEMMA SameSequence ==
  ASSUME NEW s \in Seq(STRING), NEW t \in Seq(STRING), Len(s) = Len(t),
         \A i \in 1..Len(s) : s[i] = t[i]
  PROVE  s = t
<1>1. s = [i \in 1..Len(s) |-> s[i]] /\ t = [i \in 1..Len(t) |-> t[i]]
  OBVIOUS
<1> QED
  BY <1>1

LEMMA LostNothing == SInv => NothingLost
<1> SUFFICES ASSUME SInv, result = "running"
             PROVE  SubSeq(b.chars, pos, nChars) \o Cut(b.text, b.got) = Cut(b.text, b.offset)
  BY DEF NothingLost
<1> DEFINE chars == b.chars
           text == b.text
           got == b.got
           offset == b.offset
           l == Left
           rest == Len(text) - got
           front == SubSeq(chars, pos, pos + l - 1)
           behind == SubSeq(text, got + 1, got + 1 + rest - 1)
           whole == SubSeq(text, offset + 1, offset + 1 + (l + rest) - 1)
           joined == front \o behind
<1>1. /\ nChars \in Nat /\ pos \in 1..(nChars + 1) /\ l \in Nat /\ l = nChars + 1 - pos
      /\ chars \in Seq(STRING) /\ Len(chars) = nChars /\ text \in Seq(STRING)
      /\ got \in Nat /\ offset \in Nat /\ got <= Len(text) /\ got = offset + l
      /\ \A i \in pos..nChars : chars[i] = text[offset + i + 1 - pos]
  <2>1. /\ nChars \in Nat /\ pos \in 1..(nChars + 1) /\ Told(b) /\ BufferTypes(b)
        /\ Holds(b, nChars, pos) /\ Left \in Nat /\ Left = nChars + 1 - pos
    BY Running
  <2>2. got \in Nat /\ offset \in Nat /\ got - offset = nChars + 1 - pos
    BY <2>1 DEF Told, BufferTypes, Holds
  <2>3. got = offset + l
    BY <2>1, <2>2
  <2> QED
    BY <2>1, <2>2, <2>3 DEF Told, BufferTypes, Holds
<1>2. SubSeq(b.chars, pos, nChars) = front /\ Cut(b.text, b.got) = behind
      /\ Cut(b.text, b.offset) = whole
  <2>1. nChars = pos + l - 1 /\ Len(text) = got + 1 + rest - 1
        /\ Len(text) = offset + 1 + (l + rest) - 1
    <3> HIDE DEF chars, text, got, offset, l
    <3> QED
      BY <1>1
  <2> QED
    BY <2>1 DEF Cut
<1> HIDE DEF chars, text, got, offset, l, front, behind, whole, joined
<1>3. rest \in Nat
  BY <1>1
<1>4. front \in Seq(STRING) /\ Len(front) = l /\ \A i \in 1..l : front[i] = chars[pos + i - 1]
  <2>1. pos \in Nat \ {0} /\ pos + l - 1 <= Len(chars)
    BY <1>1
  <2>2. front = SubSeq(chars, pos, pos + l - 1)
    BY DEF front
  <2> QED
    BY <1>1, <2>1, <2>2, Part
<1>5. behind \in Seq(STRING) /\ Len(behind) = rest /\ \A i \in 1..rest : behind[i] = text[got + 1 + i - 1]
  <2>1. got + 1 \in Nat \ {0} /\ got + 1 + rest - 1 <= Len(text)
    BY <1>1
  <2>2. behind = SubSeq(text, got + 1, got + 1 + rest - 1)
    BY DEF behind
  <2> HIDE DEF rest
  <2> QED
    BY <1>1, <1>3, <2>1, <2>2, Part
<1>6. whole \in Seq(STRING) /\ Len(whole) = l + rest
      /\ \A i \in 1..(l + rest) : whole[i] = text[offset + 1 + i - 1]
  <2> DEFINE k == l + rest
             p == offset + 1
  <2>1. p \in Nat \ {0} /\ p + k - 1 <= Len(text) /\ k \in Nat /\ text \in Seq(STRING)
    BY <1>1, <1>3
  <2>2. whole = SubSeq(text, p, p + k - 1)
    BY DEF whole
  <2> HIDE DEF rest, k, p
  <2>3. whole \in Seq(STRING) /\ Len(whole) = k /\ \A i \in 1..k : whole[i] = text[p + i - 1]
    BY <2>1, <2>2, Part
  <2> QED
    BY <2>3 DEF k, p
<1> HIDE DEF rest
<1>7. /\ joined \in Seq(STRING) /\ Len(joined) = l + rest
      /\ \A i \in 1..l : joined[i] = front[i]
      /\ \A i \in (l + 1)..(l + rest) : joined[i] = behind[i - l]
  <2>1. joined = front \o behind
    BY DEF joined
  <2> QED
    BY <1>4, <1>5, <2>1, Joined
<1>8. \A i \in 1..(l + rest) : joined[i] = whole[i]
  <2> SUFFICES ASSUME NEW i \in 1..(l + rest) PROVE joined[i] = whole[i]
    OBVIOUS
  <2>0. whole[i] = text[offset + i]
    <3>1. offset + 1 + i - 1 = offset + i
      BY <1>1, <1>3
    <3> QED
      BY <1>6, <3>1
  <2>1. CASE i <= l
    <3>1. i \in 1..l /\ pos + i - 1 \in pos..nChars /\ offset + (pos + i - 1) + 1 - pos = offset + i
      BY <2>1, <1>1, <1>3
    <3>2. joined[i] = chars[pos + i - 1]
      BY <3>1, <1>4, <1>7
    <3>3. chars[pos + i - 1] = text[offset + i]
      BY <3>1, <1>1
    <3> QED
      BY <2>0, <3>2, <3>3
  <2>2. CASE i > l
    <3>1. i \in (l + 1)..(l + rest) /\ i - l \in 1..rest /\ got + 1 + (i - l) - 1 = offset + i
      BY <2>2, <1>1, <1>3
    <3>2. joined[i] = behind[i - l]
      BY <3>1, <1>7
    <3>3. behind[i - l] = text[offset + i]
      BY <3>1, <1>5
    <3> QED
      BY <2>0, <3>2, <3>3
  <2> QED
    BY <2>1, <2>2, <1>1, <1>3
<1>9. joined = whole
  BY <1>6, <1>7, <1>8, SameSequence
<1> QED
  BY <1>2, <1>9 DEF joined

LEMMA OwnsBuffers == SInv => BuffersOwned
<1> SUFFICES ASSUME SInv PROVE BuffersOwned
  OBVIOUS
<1> DEFINE n == Len(stack)
<1>1. /\ n \in Nat /\ stack \in Seq(Nat) /\ \A k \in 1..n : stack[k] = k
      /\ current \in Nat /\ DOMAIN buffers = 1..n \cup ({current} \ {0})
      /\ buffers = [k \in DOMAIN buffers |-> buffers[k]]
      /\ result = "destroyed" => stack = << >> /\ current = 0
  BY DEF SInv, Nest
<1>2. current = 0 \/ current > n
  <2>1. result \in {"running", "ended"} => current = n + 1
    BY DEF SInv, Nest
  <2> QED
    BY <1>1, <2>1 DEF SInv, Nest
<1>3. Range(stack) = 1..n
  <2>1. DOMAIN stack = 1..n
    BY <1>1
  <2> QED
    BY <1>1, <2>1 DEF Range
<1>4. Cardinality(DOMAIN buffers) = n + (IF current = 0 THEN 0 ELSE 1)
  <2> HIDE DEF n
  <2>1. IsFiniteSet(1..n) /\ Cardinality(1..n) = n
    <3>1. 1 \in Int /\ n \in Int /\ n \in Nat
      BY <1>1
    <3>2. IsFiniteSet(1..n) /\ Cardinality(1..n) = IF 1 > n THEN 0 ELSE n - 1 + 1
      BY ONLY <3>1, FS_Interval
    <3>3. (IF 1 > n THEN 0 ELSE n - 1 + 1) = n
      BY <3>1
    <3> QED
      BY <3>2, <3>3
  <2>2. CASE current = 0
    <3>1. DOMAIN buffers = 1..n
      BY <2>2, <1>1
    <3> QED
      BY <2>1, <2>2, <3>1, <1>1
  <2>3. CASE current # 0
    <3>1. DOMAIN buffers = 1..n \cup {current} /\ current \notin 1..n
      BY <2>3, <1>1, <1>2
    <3>2. Cardinality(1..n \cup {current}) = Cardinality(1..n) + 1
      BY <2>1, <3>1, FS_AddElement
    <3> QED
      BY <2>1, <2>3, <3>1, <3>2
  <2> QED
    BY <2>2, <2>3
<1>5. result = "destroyed" => buffers = << >>
  <2> SUFFICES ASSUME result = "destroyed" PROVE buffers = << >>
    OBVIOUS
  <2>1. n = 0 /\ current = 0
    BY <1>1
  <2>2. DOMAIN buffers = {}
    BY <1>1, <2>1
  <2>3. buffers = [k \in {} |-> buffers[k]]
    BY <1>1, <2>2
  <2> QED
    BY <2>3
<1> QED
  BY <1>1, <1>3, <1>4, <1>5 DEF BuffersOwned

LEMMA CountsLines == SInv => LinesCounted
  BY DEF SInv, Machine, Told, LinesCounted

\* Whatever the texts, the length of the buffers and reads and the depth of the includes, no
\* character is lost, doubled or moved, every buffer's line counts the newlines before it in
\* its own text, and exactly the buffers in use are live, none at the end (yylex,
\* yy_get_next_buffer, yy_switch_to_buffer, <<EOF>>, __config_read).
THEOREM InputIsKept == Spec => []InputKept
<1>1. Init => SInv
  BY InitKept
<1>2. SInv /\ [Next]_vars => SInv'
  BY SInvNext
<1>3. SInv => InputKept
  BY LostNothing, OwnsBuffers, CountsLines DEF InputKept
<1> QED
  BY <1>1, <1>2, <1>3, PTL DEF Spec
-----------------------------------------------------------------------------
(* The end of the text.                                                    *)

\* A buffer whose end was met, or that is not to be filled, holds the text to its end.
Ended(r) == r.status = "EOF_PENDING" \/ ~ r.fill => r.got = Len(r.text)

\* A match is cut off at the end of the buffer only when there is one, and nothing follows it.
Ends ==
  /\ \A k \in DOMAIN buffers : Ended(buffers[k])
  /\ result = "running" /\ atEnd => Left > 0 /\ b.got = Len(b.text)

LEMMA LongestFound ==
  ASSUME nChars \in Nat, pos \in 1..(nChars + 1), Condition(start), atEnd \in BOOLEAN
  PROVE  /\ accepting = {j \in 0..stop : yy_accept[after[j] + 1] # 0}
         /\ stop \in 0..(Left + 2)
         /\ accepting = {} => Found = <<0, 0>>
         /\ accepting # {} => /\ Found[1] \in accepting /\ Found[2] = yy_accept[after[Found[1]] + 1]
                              /\ Found = <<Found[1], Found[2]>>
                              /\ \A j \in accepting : j <= Found[1]
<1>1. stop \in 0..(Left + 2) /\ Left \in Nat
  BY MatchStops DEF Left
<1>2. accepting = {j \in 0..stop : yy_accept[after[j] + 1] # 0}
  BY DEF accepting, Accepted
<1>3. accepting = {} => Found = <<0, 0>>
  BY DEF Found
<1>4. ASSUME accepting # {}
      PROVE  /\ Found[1] \in accepting /\ Found[2] = yy_accept[after[Found[1]] + 1]
             /\ Found = <<Found[1], Found[2]>>
             /\ \A j \in accepting : j <= Found[1]
  <2> DEFINE k == Max(accepting)
  <2>1. Found = <<k, yy_accept[after[k] + 1]>>
    BY <1>4 DEF Found, Accepted
  <2>2. stop \in Nat /\ accepting \in SUBSET (0..stop)
    BY <1>1, <1>2
  <2>3. k \in accepting /\ \A j \in accepting : j <= k
    BY <2>2, <1>4, Greatest
  <2> HIDE DEF k
  <2> QED
    BY <2>1, <2>3
<1> QED
  BY <1>1, <1>2, <1>3, <1>4

LEMMA EndNotMet ==
  ASSUME SInv, result = "running", match.rule = EndOfBuffer
  PROVE  atEnd = FALSE
<1>0. /\ nChars \in Nat /\ pos \in 1..(nChars + 1) /\ Condition(start) /\ atEnd \in BOOLEAN
      /\ Left \in Nat
  BY Running
<1>1. Found[2] = EndOfBuffer /\ Found[1] = Left + 1
  <2>1. match.length = Found[1] /\ match.rule = Found[2]
    BY DEF match
  <2> QED
    BY <2>1, <1>0, MatchFound
<1>2. Left + 1 \in 0..stop /\ stop \in Nat
  <2>1. accepting # {}
    <3>1. Found # <<0, 0>>
      BY <1>1 DEF EndOfBuffer
    <3> QED
      BY <3>1, <1>0, LongestFound
  <2>2. Found[1] \in accepting /\ accepting = {j \in 0..stop : yy_accept[after[j] + 1] # 0}
        /\ stop \in 0..(Left + 2)
    BY <2>1, <1>0, LongestFound
  <2> QED
    BY <2>2, <1>1, <1>0
<1>3. Left \in 0..(stop - 1)
  BY <1>2, <1>0
<1>4. atEnd => Left < Left
  BY <1>3, <1>0, MatchStops
<1> QED
  BY <1>0, <1>4

LEMMA InputEnds ==
  ASSUME Told(b), NEW room \in Nat \ {0}, InputLength(room) = 0
  PROVE  b.got = Len(b.text)
<1> DEFINE rest == SubSeq(b.text, b.got + 1, Len(b.text))
           most == Min({room, ReadSize, Len(rest)})
           S == {room, ReadSize, Len(rest)}
           N == {i \in 1..most : rest[i] = "\n"} \cup {most}
<1>0. /\ b.text \in Seq(STRING) /\ b.got \in Nat /\ b.got <= Len(b.text)
      /\ ReadSize \in Nat \ {0}
  BY BuffersAssumption DEF Told, BufferTypes
<1>1. Len(rest) = Len(b.text) - b.got /\ Len(rest) \in Nat
  BY <1>0
<1>2. InputLength(room) = IF b.interactive THEN Min(N) ELSE Min(S)
  BY DEF InputLength
<1>3. S \in SUBSET Nat /\ S # {} /\ most = Min(S)
  <2> HIDE DEF rest
  <2> QED
    BY <1>0, <1>1
<1> HIDE DEF rest, most
<1>4. Min(S) \in S
  <2> HIDE DEF S
  <2> QED
    BY <1>3, Least
<1>5. most \in Nat /\ most = 0 => Len(rest) = 0
  BY <1>0, <1>3, <1>4
<1>6. Min(N) = 0 => most = 0
  <2>1. N \in SUBSET Nat /\ N # {} /\ most \in Nat
    BY <1>3, <1>4
  <2>2. Min(N) \in N
    <3> HIDE DEF N
    <3> QED
      BY <2>1, Least
  <2> QED
    BY <2>1, <2>2
<1>7. Len(rest) = 0
  <2> HIDE DEF N, S
  <2> QED
    BY <1>2, <1>3, <1>4, <1>5, <1>6
<1> QED
  BY <1>0, <1>1, <1>7

LEMMA RefillEnds ==
  ASSUME SInv, result = "running", b.fill, Ended(b)
  PROVE  /\ Refill(Left).fill
         /\ Refill(Left).n = 0 => Refill(Left).got = Len(Refill(Left).text)
         /\ Ended(Refill(Left))
<1> DEFINE length == IF b.status = "EOF_PENDING" THEN b.size ELSE Grown(b.size, Left)
           read == IF b.status = "EOF_PENDING" THEN 0 ELSE InputLength(length - Left - 1)
           chars == SubSeq(b.chars, pos, pos + Left - 1) \o SubSeq(b.text, b.got + 1, b.got + read)
           status == IF read = 0 THEN "EOF_PENDING" ELSE "NORMAL"
           q == Refill(Left)
           c == b
<1>0. Told(c) /\ BufferTypes(c) /\ Left \in Nat
  BY Running
<1>1. q = [c EXCEPT !.chars = chars, !.size = length, !.got = c.got + read, !.n = read,
                    !.status = status]
  BY DEF Refill
<1>2. read = 0 => c.got = Len(c.text)
  <2>1. CASE b.status = "EOF_PENDING"
    BY <2>1 DEF Ended
  <2>2. CASE b.status # "EOF_PENDING"
    <3>1. Grown(b.size, Left) \in Nat /\ Grown(b.size, Left) > Left + 1
      <4>1. b.size \in Nat \ {0}
        BY <1>0 DEF Told, BufferTypes
      <4> QED
        BY <4>1, <1>0, GrownMore
    <3>2. length - Left - 1 \in Nat \ {0}
      <4>1. length = Grown(b.size, Left)
        BY <2>2
      <4> HIDE DEF length
      <4> QED
        BY <3>1, <4>1, <1>0
    <3>3. read = InputLength(length - Left - 1)
      BY <2>2
    <3> HIDE DEF read, length
    <3> QED
      BY <3>2, <3>3, <1>0, InputEnds
  <2> QED
    BY <2>1, <2>2
<1>3. status = "EOF_PENDING" => read = 0
  BY DEF status
<1> HIDE DEF length, read, chars, status, q
<1>4. c.fill = TRUE
  BY <1>0 DEF BufferTypes
<1> HIDE DEF c
<1>5. /\ q.fill = c.fill /\ q.text = c.text /\ q.got = c.got + read /\ q.n = read
      /\ q.status = status
  BY <1>0, <1>1 DEF BufferTypes
<1>6. c.got \in Nat
  BY <1>0 DEF BufferTypes
<1>7. q.n = 0 => q.got = Len(q.text)
  BY <1>2, <1>5, <1>6
<1>8. Ended(q)
  BY <1>3, <1>4, <1>5, <1>7 DEF Ended
<1> QED
  BY <1>4, <1>5, <1>7, <1>8 DEF q

LEMMA MatchedEnds ==
  ASSUME SInv, result = "running", Ended(b)
  PROVE  /\ Ended(MatchedBuffer(match))
         /\ \A k, n : Ended([MatchedBuffer(match) EXCEPT !.pos = k, !.n = n])
<1> DEFINE c == b
           q == MatchedBuffer(match)
           line == c.line + (IF CanMatchEol(match.rule) THEN Newlines(match.text) ELSE 0)
           bol == Last(match.text) = "\n"
           offset == c.offset + Len(match.text)
<1>1. BufferTypes(c) /\ Ended(c)
  BY Running
<1>2. q = [c EXCEPT !.line = line, !.bol = bol, !.offset = offset]
  BY DEF MatchedBuffer
<1> HIDE DEF c, q, line, bol, offset
<1>3. q.status = c.status /\ q.fill = c.fill /\ q.got = c.got /\ q.text = c.text
  BY <1>1, <1>2 DEF BufferTypes
<1>4. ASSUME NEW k, NEW n
      PROVE  Ended([q EXCEPT !.pos = k, !.n = n])
  <2> DEFINE r == [q EXCEPT !.pos = k, !.n = n]
  <2>1. r.status = c.status /\ r.fill = c.fill /\ r.got = c.got /\ r.text = c.text
    BY <1>1, <1>2, <1>3 DEF BufferTypes
  <2> HIDE DEF r
  <2>2. Ended(r)
    BY <2>1, <1>1 DEF Ended
  <2> QED
    BY <2>2 DEF r
<1>5. Ended(q)
  BY <1>1, <1>3 DEF Ended
<1> QED
  BY <1>4, <1>5 DEF q

LEMMA InitEnds == Init => Ends
<1> SUFFICES ASSUME Init PROVE Ends
  OBVIOUS
<1>1. PICK text \in Texts, fill \in {TRUE} \cup {~ s : s \in Strings}, tty \in Terminals :
        buffers = [k \in {1} |-> Buffer(text, fill, tty)]
  BY DEF Init
<1>2. Ended(Buffer(text, fill, tty))
  <2>1. fill \in BOOLEAN
    BY BuffersAssumption
  <2> QED
    BY <2>1 DEF Ended, Buffer
<1>3. atEnd = FALSE
  BY DEF Init
<1> QED
  BY <1>1, <1>2, <1>3 DEF Ends

\* A step that takes the match from the buffer.
LEMMA ConsumeEnds ==
  ASSUME SInv, result = "running", Ends, Consume(match), atEnd' = FALSE
  PROVE  Ends'
<1> DEFINE q == MatchedBuffer(match)
<1>1. current \in DOMAIN buffers
  BY Running
<1>2. Ended(q)
  BY <1>1, MatchedEnds DEF Ends, b
<1> HIDE DEF q
<1>3. buffers' = [buffers EXCEPT ![current] = q]
  BY DEF Consume, q
<1>4. \A k \in DOMAIN buffers' : Ended(buffers'[k])
  BY <1>1, <1>2, <1>3 DEF Ends
<1> QED
  BY <1>4 DEF Ends

LEMMA IncludeEnds ==
  ASSUME SInv, result = "running", Ends, OpenInclude(match)
  PROVE  Ends'
<1>0. atEnd' = FALSE
  BY DEF OpenInclude, Match
<1> DEFINE new == Max(DOMAIN buffers) + 1
           q == Saved(match)
<1>1. PICK text \in Included :
        buffers' = [k \in DOMAIN buffers \cup {new} |->
                      IF k = new THEN Buffer(text, TRUE, FALSE) ELSE q[k]]
  BY DEF OpenInclude
<1>2. Ended(Buffer(text, TRUE, FALSE))
  BY DEF Ended, Buffer
<1>3. \A k \in DOMAIN buffers : Ended(q[k])
  <2> DEFINE r == [MatchedBuffer(match) EXCEPT !.pos = pos + Len(match.text), !.n = nChars]
  <2>1. current \in DOMAIN buffers
    BY Running
  <2>2. Ended(r)
    BY <2>1, MatchedEnds DEF Ends, b
  <2>3. q = [buffers EXCEPT ![current] = r]
    BY DEF Saved
  <2> HIDE DEF r, q
  <2> QED
    BY <2>1, <2>2, <2>3 DEF Ends
<1> HIDE DEF new, q
<1>4. \A k \in DOMAIN buffers' : Ended(buffers'[k])
  BY <1>1, <1>2, <1>3
<1> QED
  BY <1>0, <1>4 DEF Ends

LEMMA ContinueEnds ==
  ASSUME SInv, SInv', result = "running", Ends, Continue(match)
  PROVE  Ends'
<1>0. /\ current \in DOMAIN buffers /\ Left \in Nat /\ Left = nChars + 1 - pos /\ Ended(b)
      /\ current' = current
  <2>1. current \in DOMAIN buffers /\ Left \in Nat /\ Left = nChars + 1 - pos
    BY Running
  <2> QED
    BY <2>1 DEF Ends, b, Continue
<1>1. match.length - 1 = Left
  <2>1. match.length = Left + 1
    BY AtTheEnd DEF Continue
  <2> QED
    BY <2>1, <1>0
<1>2. CASE b.fill
  <2> DEFINE r == Refill(Left)
  <2>1. /\ ~ (r.n = 0 /\ Left = 0) /\ buffers' = [buffers EXCEPT ![current] = r]
        /\ nChars' = r.n + Left /\ pos' = 1 /\ atEnd' = (r.n = 0)
    BY <1>1, <1>2 DEF Continue
  <2>2. Ended(r) /\ (r.n = 0 => r.got = Len(r.text))
    BY <1>0, <1>2, RefillEnds
  <2> HIDE DEF r
  <2>3. b' = r /\ \A k \in DOMAIN buffers' : Ended(buffers'[k])
    BY <1>0, <2>1, <2>2 DEF b, Ends
  <2>4. atEnd' => Left' > 0 /\ b'.got = Len(b'.text)
    <3> SUFFICES ASSUME r.n = 0 PROVE Left' > 0 /\ b'.got = Len(b'.text)
      BY <2>1
    <3>1. Left' = nChars' - pos' + 1
      BY DEF Left
    <3>2. nChars' = Left /\ Left > 0
      BY <2>1, <1>0
    <3> QED
      BY <3>1, <3>2, <2>1, <2>2, <2>3, <1>0
  <2> QED
    BY <2>3, <2>4 DEF Ends
<1>3. CASE ~ b.fill
  <2> DEFINE c == b
             r == [c EXCEPT !.status = "NORMAL"]
  <2>1. Left # 0 /\ buffers' = [buffers EXCEPT ![current].status = "NORMAL"]
        /\ UNCHANGED <<nChars, pos>>
    BY <1>1, <1>3 DEF Continue
  <2>2. buffers' = [buffers EXCEPT ![current] = r]
    BY <2>1 DEF b
  <2>3. BufferTypes(c) /\ Ended(c) /\ c.fill = FALSE
    <3>1. BufferTypes(c)
      BY Running
    <3> QED
      BY <3>1, <1>0, <1>3 DEF BufferTypes
  <2> HIDE DEF c
  <2>4. r.fill = c.fill /\ r.got = c.got /\ r.text = c.text
    BY <2>3 DEF BufferTypes
  <2> HIDE DEF r
  <2>5. r.got = Len(r.text) /\ Ended(r)
    BY <2>3, <2>4 DEF Ended
  <2>6. b' = r /\ \A k \in DOMAIN buffers' : Ended(buffers'[k])
    BY <1>0, <2>2, <2>5 DEF b, Ends
  <2>7. Left' > 0
    <3>1. Left' = nChars' - pos' + 1 /\ Left = nChars - pos + 1
      BY DEF Left
    <3> QED
      BY <3>1, <2>1, <1>0
  <2> QED
    BY <2>5, <2>6, <2>7 DEF Ends
<1> QED
  BY <1>2, <1>3

LEMMA PopEnds ==
  ASSUME SInv, result = "running", Ends, PopInclude(match)
  PROVE  Ends'
<1>1. match.rule = EndOfBuffer
  BY DEF PopInclude, AtEOF
<1>2. atEnd' = FALSE
  BY <1>1, EndNotMet DEF PopInclude
<1>3. \A k \in DOMAIN buffers' : k \in DOMAIN buffers /\ buffers'[k] = buffers[k]
  BY DEF PopInclude
<1> QED
  BY <1>2, <1>3 DEF Ends

LEMMA EndEnds ==
  ASSUME SInv, result = "running", Ends, EndOfInput(match)
  PROVE  Ends'
<1>0. current \in DOMAIN buffers /\ Ended(b)
  BY Running DEF Ends, b
<1> DEFINE c == b
           q == IF c.fill THEN Restarted(c) ELSE c
<1>1. buffers' = [buffers EXCEPT ![current] = q] /\ result' = "ended"
  BY DEF EndOfInput
<1>2. Ended(q)
  <2>1. BufferTypes(c)
    BY Running
  <2> HIDE DEF c
  <2>2. CASE c.fill
    <3> DEFINE r == [c EXCEPT !.chars = << >>, !.n = 0, !.pos = 1, !.bol = TRUE, !.status = "NEW"]
    <3>1. r.status = "NEW" /\ r.fill = c.fill
      BY <2>1 DEF BufferTypes
    <3>2. q = r
      BY <2>2 DEF Restarted
    <3> HIDE DEF r, q
    <3> QED
      BY <3>1, <3>2, <2>2 DEF Ended
  <2>3. CASE ~ c.fill
    BY <2>3, <1>0 DEF c
  <2> QED
    BY <2>2, <2>3
<1> HIDE DEF c, q
<1>3. \A k \in DOMAIN buffers' : Ended(buffers'[k])
  BY <1>0, <1>1, <1>2 DEF Ends
<1> QED
  BY <1>1, <1>3 DEF Ends

LEMMA EndsNext == SInv /\ SInv' /\ Ends /\ [Next]_vars => Ends'
<1> SUFFICES ASSUME SInv, SInv', Ends, [Next]_vars PROVE Ends'
  OBVIOUS
<1>1. CASE Scanning /\ Scan
  <2>1. result = "running"
    BY <1>1 DEF Scanning
  <2>2. \/ Blank(match) \/ Begin(match) \/ AppendString(match) \/ EndString(match)
        \/ ReturnToken(match) \/ FailInclude(match)
        \/ OpenInclude(match)
        \/ Continue(match) \/ PopInclude(match) \/ EndOfInput(match)
    BY <1>1 DEF Scan
  <2>3. ASSUME \/ Blank(match) \/ Begin(match) \/ AppendString(match) \/ EndString(match)
               \/ ReturnToken(match) \/ FailInclude(match)
        PROVE  Consume(match) /\ atEnd' = FALSE
    BY <2>3 DEF Blank, Begin, AppendString, EndString, ReturnToken, FailInclude, Match
  <2> QED
    BY <2>1, <2>2, <2>3, ConsumeEnds, IncludeEnds, ContinueEnds, PopEnds, EndEnds
<1>2. CASE Refuse
  <2>1. result' = "stopped" /\ buffers' = buffers
    BY <1>2 DEF Refuse, input
  <2> QED
    BY <2>1 DEF Ends
<1>3. CASE Unwind \/ Destroy
  <2>1. result' # "running" /\ \A k \in DOMAIN buffers' : k \in DOMAIN buffers /\ buffers'[k] = buffers[k]
    BY <1>3 DEF Unwind, Destroy
  <2> QED
    BY <2>1 DEF Ends
<1>4. CASE Done \/ UNCHANGED vars
  <2>1. UNCHANGED <<buffers, current, nChars, pos, atEnd, result>>
    BY <1>4 DEF Done, vars, input
  <2> QED
    BY <2>1 DEF Ends, b, Left
<1> QED
  BY <1>1, <1>2, <1>3, <1>4 DEF Next
-----------------------------------------------------------------------------
(* What the rules match, by what they match of one character less.         *)

\* The sets of lengths at which the i first pieces of a pattern match.
Reaches(f, pieces, s, k) ==
  /\ f \in [0..k -> SUBSET (0..Len(s))]
  /\ f[0] = {0}
  /\ \A i \in 1..k : f[i] = {n \in 0..Len(s) : \E m \in f[i - 1] : Spans(pieces[i], s, m, n)}

LEMMA ReachExists ==
  ASSUME NEW s \in Seq(STRING), NEW pieces \in Seq(Pieces), NEW k \in Nat
  PROVE  \E f : Reaches(f, pieces, s, k)
<1> DEFINE S == {i \in Nat : \E f : Reaches(f, pieces, s, i)}
           Next1(t, i) == {n \in 0..Len(s) : \E m \in t : Spans(pieces[i], s, m, n)}
<1>0. Len(s) \in Nat
  OBVIOUS
<1>1. 0 \in S
  <2> DEFINE f == [i \in 0..0 |-> {0}]
  <2>1. {0} \in SUBSET (0..Len(s))
    BY <1>0
  <2>2. Reaches(f, pieces, s, 0)
    BY <2>1 DEF Reaches
  <2> QED
    BY <2>2
<1>2. ASSUME NEW i \in S PROVE i + 1 \in S
  <2>1. PICK f : Reaches(f, pieces, s, i)
    OBVIOUS
  <2> DEFINE g == [l \in 0..(i + 1) |-> IF l = i + 1 THEN Next1(f[i], i + 1) ELSE f[l]]
  <2>2. Next1(f[i], i + 1) \in SUBSET (0..Len(s))
    OBVIOUS
  <2>3. \A l \in 1..i : f[l] = Next1(f[l - 1], l)
    BY <2>1 DEF Reaches
  <2>4. f \in [0..i -> SUBSET (0..Len(s))] /\ f[0] = {0}
    BY <2>1 DEF Reaches
  <2> HIDE DEF Next1
  <2>5. g \in [0..(i + 1) -> SUBSET (0..Len(s))] /\ g[0] = {0}
    BY <2>2, <2>4
  <2>6. ASSUME NEW l \in 1..(i + 1) PROVE g[l] = Next1(g[l - 1], l)
    <3>1. CASE l = i + 1
      <4>1. g[l] = Next1(f[i], i + 1) /\ g[l - 1] = f[i]
        BY <3>1
      <4> QED
        BY <3>1, <4>1
    <3>2. CASE l # i + 1
      <4>1. l \in 1..i /\ g[l] = f[l] /\ g[l - 1] = f[l - 1]
        BY <3>2
      <4> QED
        BY <4>1, <2>3
    <3> QED
      BY <3>1, <3>2
  <2>7. Reaches(g, pieces, s, i + 1)
    BY <2>5, <2>6 DEF Reaches, Next1
  <2> QED
    BY <2>7
<1> HIDE DEF S
<1>3. S \in SUBSET Nat
  BY DEF S
<1>4. S = Nat
  BY <1>1, <1>2, <1>3, SetInduction
<1> QED
  BY <1>4 DEF S

\* So Reach is what its definition says.
LEMMA ReachIs ==
  ASSUME NEW s \in Seq(STRING), NEW pieces \in Seq(Pieces)
  PROVE  Reaches(Reach(pieces, s), pieces, s, Len(pieces))
<1> DEFINE Body(f) ==
             [i \in 0..Len(pieces) |->
                IF i = 0 THEN {0}
                ELSE {n \in 0..Len(s) : \E m \in f[i - 1] : Spans(pieces[i], s, m, n)}]
<1>0. Len(pieces) \in Nat /\ Len(s) \in Nat
  OBVIOUS
<1>1. PICK f : Reaches(f, pieces, s, Len(pieces))
  BY <1>0, ReachExists
<1>2. f = Body(f)
  <2>1. f = [i \in 0..Len(pieces) |-> f[i]]
    BY <1>1 DEF Reaches
  <2>2. \A i \in 0..Len(pieces) : f[i] = Body(f)[i]
    BY <1>0, <1>1 DEF Reaches
  <2> QED
    BY <2>1, <2>2
<1>3. Reach(pieces, s) = CHOOSE g : g = Body(g)
  BY DEF Reach
<1> DEFINE r == Reach(pieces, s)
<1>4. r = Body(r)
  BY <1>2, <1>3
<1> HIDE DEF r
<1>5. \A i \in 0..Len(pieces) :
        r[i] = IF i = 0 THEN {0}
               ELSE {n \in 0..Len(s) : \E m \in r[i - 1] : Spans(pieces[i], s, m, n)}
  BY <1>4
<1>6. ASSUME NEW i \in 0..Len(pieces) PROVE r[i] \in SUBSET (0..Len(s))
  <2>1. 0 \in 0..Len(s)
    BY <1>0
  <2>2. CASE i = 0
    BY <2>1, <2>2, <1>5
  <2>3. CASE i # 0
    <3>1. r[i] = {n \in 0..Len(s) : \E m \in r[i - 1] : Spans(pieces[i], s, m, n)}
      BY <2>3, <1>5
    <3> QED
      BY <3>1
  <2> QED
    BY <2>2, <2>3
<1>7. r = [i \in 0..Len(pieces) |-> r[i]]
  BY <1>4
<1>8. r \in [0..Len(pieces) -> SUBSET (0..Len(s))]
  BY <1>6, <1>7
<1>9. Reaches(r, pieces, s, Len(pieces))
  BY <1>5, <1>8, <1>0 DEF Reaches
<1> QED
  BY <1>9 DEF r

LEMMA ReachAt ==
  ASSUME NEW s \in Seq(STRING), NEW pieces \in Seq(Pieces)
  PROVE  /\ Reach(pieces, s)[0] = {0}
         /\ \A i \in 0..Len(pieces) : Reach(pieces, s)[i] \in SUBSET (0..Len(s))
         /\ \A i \in 1..Len(pieces) :
              Reach(pieces, s)[i] =
                {n \in 0..Len(s) : \E m \in Reach(pieces, s)[i - 1] : Spans(pieces[i], s, m, n)}
<1> DEFINE r == Reach(pieces, s)
<1>1. Reaches(r, pieces, s, Len(pieces))
  BY ReachIs
<1> HIDE DEF r
<1>2. r \in [0..Len(pieces) -> SUBSET (0..Len(s))]
  BY <1>1 DEF Reaches
<1>3. \A i \in 0..Len(pieces) : r[i] \in SUBSET (0..Len(s))
  BY <1>2
<1> QED
  BY <1>1, <1>3 DEF Reaches, r

LEMMA SpansOne ==
  ASSUME NEW piece \in Pieces, NEW s \in Seq(STRING), NEW m \in Nat, NEW n \in Nat
  PROVE  Spans(piece, s, m, n + 1) <=>
           \/ m = n + 1 /\ piece.few = 0
           \/ m = n /\ Fits(piece, s[n + 1])
           \/ m <= n /\ Spans(piece, s, m, n) /\ piece.many /\ Fits(piece, s[n + 1])
<1>0. piece.few \in {0, 1} /\ piece.many \in BOOLEAN
  BY DEF Pieces
<1>1. CASE m > n + 1
  BY <1>1 DEF Spans
<1>2. CASE m = n + 1
  <2>1. \A i \in m + 1..n + 1 : FALSE
    BY <1>2
  <2> QED
    BY <1>0, <1>2, <2>1 DEF Spans
<1>3. CASE m = n
  <2>1. \A i \in m + 1..n + 1 : i = n + 1
    BY <1>3
  <2>2. n + 1 \in m + 1..n + 1
    BY <1>3
  <2> QED
    BY <1>0, <1>3, <2>1, <2>2 DEF Spans
<1>4. CASE m < n
  <2>1. \A i \in m + 1..n + 1 : i \in m + 1..n \/ i = n + 1
    BY <1>4
  <2>2. n + 1 \in m + 1..n + 1 /\ \A i \in m + 1..n : i \in m + 1..n + 1
    BY <1>4
  <2>3. m <= n + 1 /\ m <= n /\ n + 1 - m > 1 /\ piece.few <= n - m /\ piece.few <= n + 1 - m
    BY <1>0, <1>4
  <2> QED
    BY <1>0, <1>4, <2>1, <2>2, <2>3 DEF Spans
<1> QED
  BY <1>1, <1>2, <1>3, <1>4

\* Reaching one character further.
LEMMA ReachOne ==
  ASSUME NEW s \in Seq(STRING), NEW pieces \in Seq(Pieces), NEW i \in 1..Len(pieces),
         NEW n \in 0..(Len(s) - 1)
  PROVE  n + 1 \in Reach(pieces, s)[i] <=>
           \/ /\ Fits(pieces[i], s[n + 1])
              /\ \/ n \in Reach(pieces, s)[i - 1]
                 \/ pieces[i].many /\ n \in Reach(pieces, s)[i]
           \/ pieces[i].few = 0 /\ n + 1 \in Reach(pieces, s)[i - 1]
<1> DEFINE r == Reach(pieces, s)
           piece == pieces[i]
<1>0. Len(pieces) \in Nat /\ Len(s) \in Nat /\ n \in Nat /\ n \in 0..Len(s) /\ n + 1 \in 0..Len(s)
      /\ piece \in Pieces /\ i - 1 \in 0..Len(pieces)
  OBVIOUS
<1>1. r[i] = {l \in 0..Len(s) : \E m \in r[i - 1] : Spans(piece, s, m, l)}
      /\ r[i - 1] \in SUBSET (0..Len(s))
  <2>1. r[i - 1] \in SUBSET (0..Len(s))
    BY <1>0, ReachAt
  <2>2. r[i] = {l \in 0..Len(s) : \E m \in r[i - 1] : Spans(piece, s, m, l)}
    BY <1>0, ReachAt
  <2> QED
    BY <2>1, <2>2
<1> HIDE DEF r
<1>2. \A m \in r[i - 1] : m \in Nat
  BY <1>0, <1>1
<1>3. n + 1 \in r[i] <=> \E m \in r[i - 1] : Spans(piece, s, m, n + 1)
  BY <1>0, <1>1
<1>4. n \in r[i] <=> \E m \in r[i - 1] : Spans(piece, s, m, n)
  BY <1>0, <1>1
<1> HIDE DEF piece
<1>5. \A m \in r[i - 1] :
        Spans(piece, s, m, n + 1) <=>
          \/ m = n + 1 /\ piece.few = 0
          \/ m = n /\ Fits(piece, s[n + 1])
          \/ m <= n /\ Spans(piece, s, m, n) /\ piece.many /\ Fits(piece, s[n + 1])
  BY <1>0, <1>2, SpansOne
<1>6. \A m \in r[i - 1] : Spans(piece, s, m, n) => m <= n
  BY DEF Spans
<1> QED
  BY <1>3, <1>4, <1>5, <1>6 DEF r, piece

LEMMA ReachNone ==
  ASSUME NEW s \in Seq(STRING), NEW pieces \in Seq(Pieces), NEW i \in 1..Len(pieces)
  PROVE  0 \in Reach(pieces, s)[i] <=> pieces[i].few = 0 /\ 0 \in Reach(pieces, s)[i - 1]
<1> DEFINE r == Reach(pieces, s)
           piece == pieces[i]
<1>0. Len(pieces) \in Nat /\ Len(s) \in Nat /\ 0 \in 0..Len(s)
      /\ piece \in Pieces /\ i - 1 \in 0..Len(pieces)
  OBVIOUS
<1>1. r[i] = {l \in 0..Len(s) : \E m \in r[i - 1] : Spans(piece, s, m, l)}
      /\ r[i - 1] \in SUBSET (0..Len(s))
  <2>1. r[i - 1] \in SUBSET (0..Len(s))
    BY <1>0, ReachAt
  <2>2. r[i] = {l \in 0..Len(s) : \E m \in r[i - 1] : Spans(piece, s, m, l)}
    BY <1>0, ReachAt
  <2> QED
    BY <2>1, <2>2
<1> HIDE DEF r
<1>2. ASSUME NEW m \in 0..Len(s) PROVE Spans(piece, s, m, 0) <=> m = 0 /\ piece.few = 0
  <2>1. CASE m = 0
    <3>1. \A l \in m + 1..0 : FALSE
      BY <2>1
    <3>2. piece.few \in {0, 1}
      BY <1>0 DEF Pieces
    <3> HIDE DEF piece
    <3> QED
      BY <2>1, <3>1, <3>2 DEF Spans
  <2>2. CASE m # 0
    <3>1. ~ (m <= 0)
      BY <1>0, <2>2
    <3> HIDE DEF piece
    <3> QED
      BY <2>2, <3>1 DEF Spans
  <2> QED
    BY <2>1, <2>2
<1>3. 0 \in r[i] <=> \E m \in r[i - 1] : Spans(piece, s, m, 0)
  BY <1>0, <1>1
<1> HIDE DEF piece
<1>4. \A m \in r[i - 1] : Spans(piece, s, m, 0) <=> m = 0 /\ piece.few = 0
  BY <1>1, <1>2
<1> QED
  BY <1>3, <1>4 DEF r, piece

\* The pieces a match of n characters may have come behind.
LEMMA BeginningReached ==
  ASSUME NEW s \in Seq(STRING), NEW pieces \in Seq(Pieces), NEW i \in 0..Len(pieces)
  PROVE  0 \in Reach(pieces, s)[i] <=> Skips(pieces, 0, i)
<1> DEFINE r == Reach(pieces, s)
           T == {k \in Nat : k <= Len(pieces) => (0 \in r[k] <=> Skips(pieces, 0, k))}
<1>0. Len(pieces) \in Nat
  OBVIOUS
<1>1. 0 \in T
  <2>1. r[0] = {0}
    BY ReachAt
  <2>2. Skips(pieces, 0, 0)
    <3>1. \A l \in 0 + 1..0 : FALSE
      OBVIOUS
    <3> QED
      BY <3>1 DEF Skips
  <2> QED
    BY <2>1, <2>2
<1>2. ASSUME NEW k \in T PROVE k + 1 \in T
  <2> SUFFICES ASSUME k + 1 <= Len(pieces)
               PROVE  0 \in r[k + 1] <=> Skips(pieces, 0, k + 1)
    OBVIOUS
  <2>1. k + 1 \in 1..Len(pieces) /\ (k + 1) - 1 = k /\ (0 \in r[k] <=> Skips(pieces, 0, k))
    BY <1>0
  <2>2. 0 \in r[k + 1] <=> pieces[k + 1].few = 0 /\ 0 \in r[k]
    BY <2>1, ReachNone
  <2>3. Skips(pieces, 0, k + 1) <=> Skips(pieces, 0, k) /\ pieces[k + 1].few = 0
    <3>1. \A l : l \in 0 + 1..k + 1 <=> l \in 0 + 1..k \/ l = k + 1
      OBVIOUS
    <3> QED
      BY <3>1 DEF Skips
  <2> QED
    BY <2>1, <2>2, <2>3
<1> HIDE DEF T
<1>3. T \in SUBSET Nat
  BY DEF T
<1>4. T = Nat
  BY <1>1, <1>2, <1>3, SetInduction
<1>5. i \in T /\ i <= Len(pieces)
  BY <1>0, <1>4
<1> QED
  BY <1>5 DEF T

LEMMA OneFurther ==
  ASSUME NEW s \in Seq(STRING), NEW pieces \in Seq(Pieces), NEW i \in 0..Len(pieces),
         NEW n \in 0..(Len(s) - 1)
  PROVE  n + 1 \in Reach(pieces, s)[i] <=>
           \E j \in 1..i :
             /\ Fits(pieces[j], s[n + 1])
             /\ \/ n \in Reach(pieces, s)[j - 1]
                \/ pieces[j].many /\ n \in Reach(pieces, s)[j]
             /\ Skips(pieces, j, i)
<1> DEFINE r == Reach(pieces, s)
           Enters(j) == /\ Fits(pieces[j], s[n + 1])
                        /\ \/ n \in r[j - 1]
                           \/ pieces[j].many /\ n \in r[j]
           T == {k \in Nat : k <= Len(pieces) =>
                               (n + 1 \in r[k] <=> \E j \in 1..k : Enters(j) /\ Skips(pieces, j, k))}
<1>0. Len(pieces) \in Nat /\ n \in Nat
  OBVIOUS
<1>1. 0 \in T
  <2>1. r[0] = {0}
    BY ReachAt
  <2>2. n + 1 \notin r[0] /\ \A j \in 1..0 : FALSE
    BY <1>0, <2>1
  <2> HIDE DEF Enters, r
  <2> QED
    BY <2>2
<1>2. ASSUME NEW k \in T PROVE k + 1 \in T
  <2> SUFFICES ASSUME k + 1 <= Len(pieces)
               PROVE  n + 1 \in r[k + 1] <=> \E j \in 1..k + 1 : Enters(j) /\ Skips(pieces, j, k + 1)
    <3> HIDE DEF Enters, r
    <3> QED
      OBVIOUS
  <2>0. k + 1 \in 1..Len(pieces) /\ (k + 1) - 1 = k /\ k <= Len(pieces) /\ k \in Nat
    BY <1>0
  <2>1. n + 1 \in r[k] <=> \E j \in 1..k : Enters(j) /\ Skips(pieces, j, k)
    <3> HIDE DEF Enters, r
    <3> QED
      BY <2>0
  <2>2. n + 1 \in r[k + 1] <=> Enters(k + 1) \/ (pieces[k + 1].few = 0 /\ n + 1 \in r[k])
    BY <2>0, ReachOne
  <2> HIDE DEF Enters, r, T
  <2>3. \A j : j \in 1..k + 1 <=> j \in 1..k \/ j = k + 1
    BY <2>0
  <2>4. Skips(pieces, k + 1, k + 1)
    <3>1. \A l \in (k + 1) + 1..k + 1 : FALSE
      BY <2>0
    <3> QED
      BY <3>1 DEF Skips
  <2>5. ASSUME NEW j \in 1..k
        PROVE  Skips(pieces, j, k + 1) <=> Skips(pieces, j, k) /\ pieces[k + 1].few = 0
    <3>1. \A l : l \in j + 1..k + 1 <=> l \in j + 1..k \/ l = k + 1
      BY <2>0
    <3> QED
      BY <3>1 DEF Skips
  <2> QED
    BY <2>1, <2>2, <2>3, <2>4, <2>5
<1> HIDE DEF T
<1>3. T \in SUBSET Nat
  BY DEF T
<1>4. T = Nat
  BY <1>1, <1>2, <1>3, SetInduction
<1>5. i \in T /\ i <= Len(pieces)
  BY <1>0, <1>4
<1>6. n + 1 \in r[i] <=> \E j \in 1..i : Enters(j) /\ Skips(pieces, j, i)
  <2> HIDE DEF Enters, r
  <2> QED
    BY <1>5 DEF T
<1> QED
  BY <1>6

-----------------------------------------------------------------------------
(* The places in the patterns, and the automaton.                          *)

\* What a match of the first n characters of s may have come to.
Places(condition, bol, s, n) ==
  UNION {{p} \X {i \in 0..Len(patterns[p].pieces) : n \in Reach(patterns[p].pieces, s)[i]} :
           p \in Applying(condition, bol)}

LEMMA PatternTypes ==
  ASSUME NEW condition, NEW bol, NEW p \in Applying(condition, bol)
  PROVE  /\ patterns[p].pieces \in Seq(Pieces) /\ Len(patterns[p].pieces) \in Nat
         /\ DOMAIN patterns[p].pieces = 1..Len(patterns[p].pieces)
         /\ patterns[p].rule \in Nat \ {0} /\ p \in DOMAIN patterns
<1>1. p \in DOMAIN patterns
  BY DEF Applying
<1>2. patterns[p].pieces \in Seq(Pieces) /\ patterns[p].rule \in Nat \ {0}
  BY <1>1, PiecesAssumption
<1> HIDE DEF Applying
<1> QED
  BY <1>1, <1>2

LEMMA PlacesFirst ==
  ASSUME NEW s \in Seq(STRING), NEW condition, NEW bol
  PROVE  Places(condition, bol, s, 0) = Beginning(condition, bol)
<1>1. ASSUME NEW p \in Applying(condition, bol)
      PROVE  {i \in 0..Len(patterns[p].pieces) : 0 \in Reach(patterns[p].pieces, s)[i]}
               = {k \in 0..Len(patterns[p].pieces) : Skips(patterns[p].pieces, 0, k)}
  BY PatternTypes, BeginningReached
<1> QED
  BY <1>1 DEF Places, Beginning

LEMMA ClassTells ==
  ASSUME NEW p \in DOMAIN patterns, NEW i \in DOMAIN patterns[p].pieces, NEW c
  PROVE  Fits(patterns[p].pieces[i], c) <=> ClassFits(patterns[p].pieces[i], ClassOf(c))
<1> DEFINE piece == patterns[p].pieces[i]
<1>1. CASE c \in DOMAIN yy_ec
  BY <1>1, PiecesAssumption DEF ClassOf
<1>2. CASE c \notin DOMAIN yy_ec
  <2>1. piece \in Pieces
    <3>1. patterns[p].pieces \in Seq(Pieces)
      BY PiecesAssumption
    <3> QED
      BY <3>1
  <2>2. c \notin piece.chars
    BY <1>2, <2>1 DEF Pieces
  <2>3. ClassOf(c) = 1
    BY <1>2 DEF ClassOf
  <2> HIDE DEF piece
  <2>4. Fits(piece, c) <=> ClassFits(piece, ClassOf(c))
    BY <2>2, <2>3 DEF Fits, ClassFits
  <2> QED
    BY <2>4 DEF piece
<1> QED
  BY <1>1, <1>2

LEMMA InPlaces ==
  ASSUME NEW s, NEW condition, NEW bol, NEW n
  PROVE  /\ \A p, i : <<p, i>> \in Places(condition, bol, s, n) <=>
                      /\ p \in Applying(condition, bol) /\ i \in 0..Len(patterns[p].pieces)
                      /\ n \in Reach(patterns[p].pieces, s)[i]
         /\ \A q \in Places(condition, bol, s, n) : \E p, i : q = <<p, i>>
  BY DEF Places

\* Where the next character leads, pattern by pattern.
LEMMA OnwardsOne ==
  ASSUME NEW s \in Seq(STRING), NEW condition, NEW bol, NEW n \in 0..(Len(s) - 1),
         NEW p \in Applying(condition, bol), NEW k \in 0..Len(patterns[p].pieces)
  PROVE  n + 1 \in Reach(patterns[p].pieces, s)[k] <=>
           \E i \in 0..Len(patterns[p].pieces) :
             /\ n \in Reach(patterns[p].pieces, s)[i]
             /\ <<p, k>> \in Follow(<<p, i>>, ClassOf(s[n + 1]))
<1> DEFINE pieces == patterns[p].pieces
           r == Reach(pieces, s)
           c == s[n + 1]
           Enters(j) == /\ ClassFits(pieces[j], ClassOf(c))
                        /\ Skips(pieces, j, k)
<1>0. pieces \in Seq(Pieces) /\ Len(pieces) \in Nat /\ DOMAIN pieces = 1..Len(pieces)
      /\ p \in DOMAIN patterns
  BY PatternTypes
<1>1. n + 1 \in r[k] <=>
        \E j \in 1..k : /\ Fits(pieces[j], c)
                        /\ n \in r[j - 1] \/ (pieces[j].many /\ n \in r[j])
                        /\ Skips(pieces, j, k)
  BY <1>0, OneFurther
<1>2. \A j \in 1..k : Fits(pieces[j], c) <=> ClassFits(pieces[j], ClassOf(c))
  BY <1>0, ClassTells
<1>3. ASSUME NEW i \in 0..Len(pieces)
      PROVE  <<p, k>> \in Follow(<<p, i>>, ClassOf(c)) <=>
               k \in 1..Len(pieces) /\
               \E j \in {i, i + 1} : 1 <= j /\ j <= k /\ (j = i => pieces[j].many) /\ Enters(j)
  BY DEF Follow
<1> HIDE DEF pieces, r, c
<1>4. n + 1 \in r[k] <=>
        \E j \in 1..k : Enters(j) /\ (n \in r[j - 1] \/ (pieces[j].many /\ n \in r[j]))
  BY <1>1, <1>2
<1> HIDE DEF Enters
<1>5. ASSUME NEW j \in 1..k, Enters(j), n \in r[j - 1] \/ (pieces[j].many /\ n \in r[j])
      PROVE  \E i \in 0..Len(pieces) : n \in r[i] /\ <<p, k>> \in Follow(<<p, i>>, ClassOf(c))
  <2>0. k \in 1..Len(pieces) /\ j \in 0..Len(pieces) /\ j - 1 \in 0..Len(pieces) /\ 1 <= j /\ j <= k
        /\ j = (j - 1) + 1 /\ j # j - 1
    BY <1>0 DEF pieces
  <2>1. CASE n \in r[j - 1]
    <3>1. <<p, k>> \in Follow(<<p, j - 1>>, ClassOf(c))
      BY <2>0, <1>3, <1>5
    <3> QED
      BY <2>0, <2>1, <3>1
  <2>2. CASE pieces[j].many /\ n \in r[j]
    <3>1. <<p, k>> \in Follow(<<p, j>>, ClassOf(c))
      BY <2>0, <2>2, <1>3, <1>5
    <3> QED
      BY <2>0, <2>2, <3>1
  <2> QED
    BY <1>5, <2>1, <2>2
<1>6. ASSUME NEW i \in 0..Len(pieces), n \in r[i], <<p, k>> \in Follow(<<p, i>>, ClassOf(c))
      PROVE  \E j \in 1..k : Enters(j) /\ (n \in r[j - 1] \/ (pieces[j].many /\ n \in r[j]))
  <2>1. PICK j \in {i, i + 1} : 1 <= j /\ j <= k /\ (j = i => pieces[j].many) /\ Enters(j)
    BY <1>3, <1>6
  <2>2. i \in Nat /\ j \in 1..k
    BY <2>1
  <2>3. CASE j = i
    BY <2>1, <2>2, <2>3, <1>6
  <2>4. CASE j = i + 1
    <3>1. j - 1 = i
      BY <2>2, <2>4
    <3> QED
      BY <2>1, <2>2, <3>1, <1>6
  <2> QED
    BY <2>1, <2>3, <2>4
<1>7. n + 1 \in r[k] <=>
        \E i \in 0..Len(pieces) : n \in r[i] /\ <<p, k>> \in Follow(<<p, i>>, ClassOf(c))
  BY <1>4, <1>5, <1>6
<1> QED
  BY <1>7 DEF pieces, r, c

LEMMA PlacesNext ==
  ASSUME NEW s \in Seq(STRING), NEW condition, NEW bol, NEW n \in 0..(Len(s) - 1)
  PROVE  Places(condition, bol, s, n + 1)
           = Onwards(Places(condition, bol, s, n), ClassOf(s[n + 1]))
<1> DEFINE c == ClassOf(s[n + 1])
           now == Places(condition, bol, s, n)
           then == Places(condition, bol, s, n + 1)
<1>1. /\ \A p, i : <<p, i>> \in now <=> /\ p \in Applying(condition, bol)
                                       /\ i \in 0..Len(patterns[p].pieces)
                                       /\ n \in Reach(patterns[p].pieces, s)[i]
      /\ \A q \in now : \E p, i : q = <<p, i>>
  BY InPlaces
<1>2. /\ \A p, i : <<p, i>> \in then <=> /\ p \in Applying(condition, bol)
                                        /\ i \in 0..Len(patterns[p].pieces)
                                        /\ n + 1 \in Reach(patterns[p].pieces, s)[i]
      /\ \A q \in then : \E p, i : q = <<p, i>>
  BY InPlaces
<1>3. \A p \in Applying(condition, bol) : \A k \in 0..Len(patterns[p].pieces) :
        n + 1 \in Reach(patterns[p].pieces, s)[k] <=>
           \E i \in 0..Len(patterns[p].pieces) :
             /\ n \in Reach(patterns[p].pieces, s)[i]
             /\ <<p, k>> \in Follow(<<p, i>>, c)
  BY OnwardsOne
<1> HIDE DEF c, now, then
<1>4. \A p, i : Follow(<<p, i>>, c) \subseteq {p} \X (1..Len(patterns[p].pieces))
  BY DEF Follow
<1>5. ASSUME NEW q \in then PROVE q \in Onwards(now, c)
  <2>1. PICK p, k : q = <<p, k>>
    BY <1>2, <1>5
  <2>2. /\ p \in Applying(condition, bol) /\ k \in 0..Len(patterns[p].pieces)
        /\ n + 1 \in Reach(patterns[p].pieces, s)[k]
    BY <1>2, <1>5, <2>1
  <2>3. PICK i \in 0..Len(patterns[p].pieces) :
          n \in Reach(patterns[p].pieces, s)[i] /\ <<p, k>> \in Follow(<<p, i>>, c)
    BY <1>3, <2>2
  <2>4. <<p, i>> \in now
    BY <1>1, <2>2, <2>3
  <2> QED
    BY <2>1, <2>3, <2>4 DEF Onwards
<1>6. ASSUME NEW q \in Onwards(now, c) PROVE q \in then
  <2>1. PICK place \in now : q \in Follow(place, c)
    BY <1>6 DEF Onwards
  <2>2. PICK p, i : place = <<p, i>>
    BY <1>1, <2>1
  <2>3. /\ p \in Applying(condition, bol) /\ i \in 0..Len(patterns[p].pieces)
        /\ n \in Reach(patterns[p].pieces, s)[i]
    BY <1>1, <2>1, <2>2
  <2>4. PICK k \in 1..Len(patterns[p].pieces) : q = <<p, k>>
    BY <1>4, <2>1, <2>2
  <2>5. k \in 0..Len(patterns[p].pieces)
    <3>1. Len(patterns[p].pieces) \in Nat
      BY <2>3, PatternTypes
    <3> QED
      BY <2>4, <3>1
  <2>6. n + 1 \in Reach(patterns[p].pieces, s)[k]
    BY <1>3, <2>1, <2>2, <2>3, <2>4, <2>5
  <2> QED
    BY <1>2, <2>3, <2>4, <2>5, <2>6
<1>7. then = Onwards(now, c)
  BY <1>5, <1>6
<1> QED
  BY <1>7 DEF c, now, then

\* The matches of a length are those of the patterns that are complete there.
LEMMA MatchesComplete ==
  ASSUME NEW s \in Seq(STRING), NEW condition, NEW bol
  PROVE  /\ \A q \in Matches(condition, bol, s) : q = <<q[1], q[2]>> /\ q[1] \in 0..Len(s)
         /\ \A n, r : <<n, r>> \in Matches(condition, bol, s) <=>
                      r \in Complete(Places(condition, bol, s, n))
<1> DEFINE End(p) == Len(patterns[p].pieces)
           Lengths(p) == Reach(patterns[p].pieces, s)[End(p)]
<1>1. ASSUME NEW p \in Applying(condition, bol)
      PROVE  End(p) \in 0..End(p) /\ Lengths(p) \in SUBSET (0..Len(s))
  <2>1. patterns[p].pieces \in Seq(Pieces) /\ End(p) \in Nat
    BY PatternTypes
  <2>2. End(p) \in 0..End(p)
    BY <2>1
  <2> QED
    BY <2>1, <2>2, ReachAt
<1>2. \A n, p : <<p, End(p)>> \in Places(condition, bol, s, n) <=>
                 p \in Applying(condition, bol) /\ n \in Lengths(p)
  BY <1>1, InPlaces
<1>3. Matches(condition, bol, s) =
        UNION {Lengths(p) \X {patterns[p].rule} : p \in Applying(condition, bol)}
  BY DEF Matches
<1>4. \A n : \A q \in Places(condition, bol, s, n) : \E p, i : q = <<p, i>>
  BY InPlaces
<1>5. \A n, r : r \in Complete(Places(condition, bol, s, n)) <=>
        \E q \in Places(condition, bol, s, n) : q[2] = End(q[1]) /\ r = patterns[q[1]].rule
  BY DEF Complete
<1> HIDE DEF Lengths, End
<1>6. ASSUME NEW q \in Matches(condition, bol, s)
      PROVE  q = <<q[1], q[2]>> /\ q[1] \in 0..Len(s)
  <2>1. PICK p \in Applying(condition, bol) : q \in Lengths(p) \X {patterns[p].rule}
    BY <1>3, <1>6
  <2> QED
    BY <2>1, <1>1
<1>7. ASSUME NEW n, NEW r
      PROVE  <<n, r>> \in Matches(condition, bol, s) <=>
               r \in Complete(Places(condition, bol, s, n))
  <2>1. <<n, r>> \in Matches(condition, bol, s) <=>
          \E p \in Applying(condition, bol) : n \in Lengths(p) /\ r = patterns[p].rule
    BY <1>3
  <2>2. r \in Complete(Places(condition, bol, s, n)) <=>
          \E p : <<p, End(p)>> \in Places(condition, bol, s, n) /\ r = patterns[p].rule
    <3> DEFINE places == Places(condition, bol, s, n)
    <3>1. r \in Complete(places) <=>
            \E q \in places : q[2] = End(q[1]) /\ r = patterns[q[1]].rule
      BY <1>5
    <3>2. \A q \in places : \E p, i : q = <<p, i>>
      BY <1>4
    <3> HIDE DEF places
    <3>3. ASSUME r \in Complete(places)
          PROVE  \E p : <<p, End(p)>> \in places /\ r = patterns[p].rule
      <4>1. PICK q \in places : q[2] = End(q[1]) /\ r = patterns[q[1]].rule
        BY <3>1, <3>3
      <4>2. PICK p, i : q = <<p, i>>
        BY <3>2
      <4>3. q[1] = p /\ q[2] = i
        BY <4>2
      <4>4. <<p, End(p)>> \in places
        BY <4>1, <4>2, <4>3
      <4> QED
        BY <4>1, <4>3, <4>4
    <3>4. ASSUME NEW p, <<p, End(p)>> \in places, r = patterns[p].rule
          PROVE  r \in Complete(places)
      <4>1. <<p, End(p)>>[1] = p /\ <<p, End(p)>>[2] = End(p)
        OBVIOUS
      <4> QED
        BY <3>1, <3>4, <4>1
    <3> QED
      BY <3>3, <3>4 DEF places
  <2> QED
    BY <1>2, <2>1, <2>2
<1> QED
  BY <1>6, <1>7

-----------------------------------------------------------------------------
(* The match is the longest.                                               *)

\* What was not matched of the text begins with what is left in the buffer.
Rest == Cut(b.text, b.offset)
Along(n) == Places(start, b.bol, Rest, n)

LEMMA RestIs ==
  ASSUME SInv, result = "running"
  PROVE  /\ Rest \in Seq(STRING) /\ Len(Rest) = Len(b.text) - b.offset /\ Len(Rest) \in Nat
         /\ Left \in Nat /\ Left <= Len(Rest) /\ (b.got = Len(b.text) => Left = Len(Rest))
         /\ \A k \in 1..Left : b.chars[pos + k - 1] = Rest[k]
<1> DEFINE text == b.text
           offset == b.offset
           rest == SubSeq(text, offset + 1, Len(text))
<1>1. /\ nChars \in Nat /\ pos \in 1..(nChars + 1) /\ Left \in Nat /\ Left = nChars + 1 - pos
      /\ text \in Seq(STRING) /\ offset \in Nat /\ b.got \in Nat /\ b.got <= Len(text)
      /\ b.got - offset = nChars + 1 - pos
      /\ \A i \in pos..nChars : b.chars[i] = text[offset + i + 1 - pos]
  <2>1. Told(b) /\ BufferTypes(b) /\ Holds(b, nChars, pos)
        /\ nChars \in Nat /\ pos \in 1..(nChars + 1) /\ Left \in Nat /\ Left = nChars + 1 - pos
    BY Running
  <2> QED
    BY <2>1 DEF Told, BufferTypes, Holds
<1>2. Rest = rest
  BY DEF Rest, Cut
<1> HIDE DEF text, offset
<1>3. b.got = offset + Left /\ offset <= Len(text) /\ Len(text) \in Nat
  <2>1. Len(text) \in Nat
    BY <1>1
  <2> QED
    BY <1>1, <2>1
<1>4. rest \in Seq(STRING) /\ Len(rest) = Len(text) - offset
      /\ \A k \in 1..Len(text) - offset : rest[k] = text[offset + k]
  BY <1>1, <1>3
<1> HIDE DEF rest
<1>5. Len(rest) \in Nat /\ Left <= Len(rest) /\ (b.got = Len(text) => Left = Len(rest))
  BY <1>1, <1>3, <1>4
<1>6. ASSUME NEW k \in 1..Left PROVE b.chars[pos + k - 1] = rest[k]
  <2>1. pos + k - 1 \in pos..nChars /\ offset + (pos + k - 1) + 1 - pos = offset + k
        /\ k \in 1..Len(text) - offset
    BY <1>1, <1>3
  <2>2. b.chars[pos + k - 1] = text[offset + (pos + k - 1) + 1 - pos]
    BY <1>1, <2>1
  <2> QED
    BY <1>4, <2>1, <2>2
<1> QED
  BY <1>1, <1>2, <1>4, <1>5, <1>6 DEF text, offset

\* The states of a match know where it may have come to in the patterns.
LEMMA StatesKnow ==
  ASSUME SInv, result = "running", NEW n \in 0..Left
  PROVE  <<after[n], Along(n)>> \in Knowledge
<1> DEFINE T == {i \in Nat : i <= Left => <<after[i], Along(i)>> \in Knowledge}
<1>0. /\ nChars \in Nat /\ pos \in 1..(nChars + 1) /\ Condition(start) /\ b.bol \in BOOLEAN
      /\ Left \in Nat /\ Left = nChars + 1 - pos
  BY Running DEF BufferTypes
<1>1. Goes(after, Left + 2)
  BY <1>0, AfterGoes
<1>2. /\ Rest \in Seq(STRING) /\ Len(Rest) \in Nat /\ Left <= Len(Rest)
      /\ \A k \in 1..Left : b.chars[pos + k - 1] = Rest[k]
  BY RestIs
<1>3. 0 \in T
  <2>1. Along(0) = Beginning(start, b.bol)
    BY <1>2, PlacesFirst DEF Along
  <2>2. after[0] = start + (IF b.bol THEN 1 ELSE 0)
    BY <1>1 DEF Goes
  <2>3. start \in Conditions
    BY <1>0 DEF Condition, Conditions
  <2>4. <<start + (IF b.bol THEN 1 ELSE 0), Beginning(start, b.bol)>> \in Knowledge
    BY <2>3, <1>0, KnowledgeAssumption
  <2> QED
    BY <2>1, <2>2, <2>4
<1>4. ASSUME NEW i \in T PROVE i + 1 \in T
  <2> SUFFICES ASSUME i + 1 <= Left PROVE <<after[i + 1], Along(i + 1)>> \in Knowledge
    OBVIOUS
  <2>0. i \in Nat /\ i <= Left /\ i + 1 \in 1..Left /\ i \in 0..(Len(Rest) - 1)
        /\ i + 1 \in 1..(Left + 2) /\ pos + (i + 1) - 1 = pos + i /\ pos + i \in Nat
        /\ pos + i <= nChars /\ (i + 1) - 1 = i
    BY <1>0, <1>2
  <2>1. <<after[i], Along(i)>> \in Knowledge
    BY <2>0
  <2> DEFINE c == ClassOf(Rest[i + 1])
  <2>2. CharClass(pos + i) = c /\ c \in Class \ {0}
    <3>1. b.chars[pos + i] = Rest[i + 1]
      BY <1>2, <2>0
    <3>2. CharClass(pos + i) = ClassOf(b.chars[pos + i])
      BY <1>0, <2>0, NULAssumption DEF CharClass
    <3>3. CharClass(pos + i) \in Class \ {0}
      BY <1>0, <2>0, Classes
    <3> QED
      BY <3>1, <3>2, <3>3
  <2>3. after[i + 1] = next[after[i]][c + 1]
    <3>1. after[i + 1] = next[after[(i + 1) - 1]][CharClass(pos + (i + 1) - 1) + 1]
      BY <2>0, <1>1 DEF Goes
    <3> QED
      BY <2>0, <2>2, <3>1
  <2>4. Along(i + 1) = Onwards(Along(i), c)
    BY <1>2, <2>0, PlacesNext DEF Along
  <2> HIDE DEF c
  <2> DEFINE q == <<after[i], Along(i)>>
  <2>5. <<next[q[1]][c + 1], Onwards(q[2], c)>> \in Knowledge
    <3> HIDE DEF q
    <3> QED
      BY <2>1, <2>2, KnowledgeAssumption DEF q
  <2>6. q[1] = after[i] /\ q[2] = Along(i)
    OBVIOUS
  <2> QED
    BY <2>3, <2>4, <2>5, <2>6
<1> HIDE DEF T
<1>5. T \in SUBSET Nat
  BY DEF T
<1>6. T = Nat
  BY <1>3, <1>4, <1>5, SetInduction
<1>7. n \in T /\ n <= Left
  BY <1>0, <1>6
<1> QED
  BY <1>7 DEF T

\* Behind a state that stops no rule goes on, however much text follows.
LEMMA NothingBehind ==
  ASSUME SInv, result = "running", NEW m \in 0..Left, Stops(after[m]),
         NEW n \in (m + 1)..Len(Rest)
  PROVE  Along(n) = {}
<1> DEFINE T == {i \in Nat : m + 1 + i <= Len(Rest) => Along(m + 1 + i) = {}}
<1>0. Rest \in Seq(STRING) /\ Len(Rest) \in Nat /\ Left \in Nat /\ m \in Nat
  BY RestIs
<1>1. ASSUME NEW c \in Class \ {0} PROVE Onwards(Along(m), c) = {}
  <2> DEFINE q == <<after[m], Along(m)>>
  <2>1. q \in Knowledge
    BY StatesKnow
  <2>2. q[1] = after[m] /\ q[2] = Along(m)
    OBVIOUS
  <2> HIDE DEF q
  <2> QED
    BY <2>1, <2>2, KnowledgeAssumption
<1>2. ASSUME NEW c PROVE ClassOf(c) \in Class \ {0}
  BY ClassesAssumption DEF ClassOf, Class
<1>3. ASSUME NEW i \in 0..(Len(Rest) - 1)
      PROVE  Along(i + 1) = Onwards(Along(i), ClassOf(Rest[i + 1]))
  BY <1>0, PlacesNext DEF Along
<1>4. 0 \in T
  <2> SUFFICES ASSUME m + 1 <= Len(Rest) PROVE Along(m + 1) = {}
    BY <1>0
  <2>1. m \in 0..(Len(Rest) - 1)
    BY <1>0
  <2> QED
    BY <2>1, <1>1, <1>2, <1>3
<1>5. ASSUME NEW i \in T PROVE i + 1 \in T
  <2> SUFFICES ASSUME m + 1 + (i + 1) <= Len(Rest) PROVE Along(m + 1 + (i + 1)) = {}
    OBVIOUS
  <2>1. m + 1 + i \in 0..(Len(Rest) - 1) /\ m + 1 + (i + 1) = (m + 1 + i) + 1
        /\ m + 1 + i <= Len(Rest)
    BY <1>0
  <2>2. Along(m + 1 + i) = {}
    BY <2>1
  <2>3. \A c : Onwards({}, c) = {}
    BY DEF Onwards
  <2> QED
    BY <2>1, <2>2, <2>3, <1>3
<1> HIDE DEF T
<1>6. T \in SUBSET Nat
  BY DEF T
<1>7. T = Nat
  BY <1>4, <1>5, <1>6, SetInduction
<1>8. n - (m + 1) \in T /\ m + 1 + (n - (m + 1)) = n /\ n <= Len(Rest)
  <2>1. n - (m + 1) \in Nat
    BY <1>0
  <2> QED
    BY <1>0, <1>7, <2>1
<1> QED
  BY <1>8 DEF T

\* The length found has a match, and no longer one has.
LEMMA FoundIsLongest ==
  ASSUME SInv, Ends, result = "running", match.rule # EndOfBuffer
  PROVE  /\ Found[1] \in 0..Left /\ Found = <<Found[1], Found[2]>>
         /\ Complete(Along(Found[1])) # {} /\ Found[2] = Min(Complete(Along(Found[1])))
         /\ \A n \in 0..Len(Rest) : n > Found[1] => Complete(Along(n)) = {}
<1>0. /\ nChars \in Nat /\ pos \in 1..(nChars + 1) /\ Condition(start) /\ b.bol \in BOOLEAN
      /\ Left \in Nat /\ Left = nChars + 1 - pos /\ atEnd \in BOOLEAN
  BY Running DEF BufferTypes
<1>1. Goes(after, Left + 2)
  BY <1>0, AfterGoes
<1>2. Found[2] # EndOfBuffer
  BY DEF match
<1>3. ASSUME NEW n \in 0..Left
      PROVE  yy_accept[after[n] + 1] =
               IF Complete(Along(n)) = {} THEN 0 ELSE Min(Complete(Along(n)))
  <2> DEFINE q == <<after[n], Along(n)>>
  <2>1. q \in Knowledge
    BY StatesKnow
  <2>2. q[1] = after[n] /\ q[2] = Along(n)
    OBVIOUS
  <2> HIDE DEF q
  <2> QED
    BY <2>1, <2>2, KnowledgeAssumption
<1>4. /\ accepting = {j \in 0..stop : yy_accept[after[j] + 1] # 0}
      /\ stop \in 0..(Left + 2)
      /\ accepting # {} => /\ Found[1] \in accepting /\ Found[2] = yy_accept[after[Found[1]] + 1]
                           /\ Found = <<Found[1], Found[2]>>
                           /\ \A j \in accepting : j <= Found[1]
  BY <1>0, LongestFound
<1>5. stop <= Left
  <2> SUFFICES ASSUME stop > Left PROVE FALSE
    BY <1>0, <1>4
  <2>1. after[Left + 1] = EndOfBufferState
    BY <1>0, MatchStops
  <2>2. yy_accept[EndOfBufferState + 1] = EndOfBuffer
    BY AcceptingAssumption DEF EndOfBuffer, EndOfBufferState, AutomatonStates
  <2>3. Left + 1 \in accepting
    BY <1>0, <1>4, <2>1, <2>2 DEF EndOfBuffer
  <2>4. Found[1] \in 0..stop /\ Found[1] >= Left + 1 /\ yy_accept[after[Found[1]] + 1] # 0
    BY <1>0, <1>4, <2>3
  <2>5. Found[1] = Left + 1 \/ Found[1] = Left + 2
    BY <1>0, <1>4, <2>4
  <2>6. CASE Found[1] = Left + 1
    BY <2>1, <2>2, <2>3, <2>6, <1>2, <1>4
  <2>7. CASE Found[1] = Left + 2
    <3>1. stop > Left + 1
      BY <2>4, <2>7, <1>0, <1>4
    <3>2. after[Left + 2] = Jam
      BY <3>1, <1>0, MatchStops
    <3> QED
      BY <3>2, <2>4, <2>7, AcceptingAssumption
  <2> QED
    BY <2>5, <2>6, <2>7
<1>6. Stops(after[stop]) \/ (atEnd /\ pos + stop > nChars)
  BY <1>0, MatchStops
<1>7. after[0] = start + (IF b.bol THEN 1 ELSE 0) /\ yy_accept[after[0] + 1] = 0 /\ ~ Stops(after[0])
      /\ \A c \in Class \ {0} : yy_accept[next[after[0]][c + 1] + 1] # 0
  <2> DEFINE s == start + (IF b.bol THEN 1 ELSE 0)
  <2>1. start \in Conditions
    BY <1>0 DEF Condition, Conditions
  <2>2. yy_accept[s + 1] = 0 /\ ~ Stops(s)
        /\ \A c \in Class \ {0} : yy_accept[next[s][c + 1] + 1] # 0
    BY <2>1, <1>0, BeginningsAssumption
  <2>3. after[0] = s
    BY <1>1 DEF Goes
  <2> HIDE DEF s
  <2>4. after[0] = s /\ yy_accept[after[0] + 1] = 0 /\ ~ Stops(after[0])
        /\ \A c \in Class \ {0} : yy_accept[next[after[0]][c + 1] + 1] # 0
    BY <2>2, <2>3
  <2> QED
    BY <2>4 DEF s
<1>8. stop >= 1
  <2> SUFFICES ASSUME stop = 0 PROVE FALSE
    BY <1>4
  <2>1. atEnd /\ pos + 0 > nChars
    BY <1>6, <1>7
  <2>2. Left > 0
    BY <2>1 DEF Ends
  <2> QED
    BY <2>1, <2>2, <1>0
<1>9. accepting # {} /\ Found[1] \in 0..stop /\ Found[1] \in 0..Left
  <2>1. 1 \in 1..(Left + 2) /\ pos + 1 - 1 = pos /\ pos \in Nat /\ pos <= nChars
    BY <1>0, <1>5, <1>8, <1>4
  <2>2. after[1] = next[after[0]][CharClass(pos) + 1]
    <3>1. after[1] = next[after[1 - 1]][CharClass(pos + 1 - 1) + 1] /\ 1 - 1 = 0
      BY <2>1, <1>1 DEF Goes
    <3> QED
      BY <2>1, <3>1
  <2>3. CharClass(pos) \in Class \ {0}
    BY <2>1, <1>0, Classes
  <2>4. yy_accept[after[1] + 1] # 0
    BY <2>2, <2>3, <1>7
  <2>5. 1 \in accepting
    BY <2>4, <1>4, <1>8
  <2> QED
    BY <2>5, <1>4, <1>5, <1>0
<1>10. Complete(Along(Found[1])) # {} /\ Found[2] = Min(Complete(Along(Found[1])))
  BY <1>3, <1>4, <1>9
<1>11. ASSUME NEW n \in 0..Len(Rest), n > Found[1] PROVE Complete(Along(n)) = {}
  <2>0. Len(Rest) \in Nat /\ (b.got = Len(b.text) => Left = Len(Rest))
    BY RestIs
  <2>1. CASE n <= stop
    <3>1. n \in 0..Left /\ n \in 0..stop
      BY <2>0, <2>1, <1>0, <1>4, <1>5
    <3>2. n \notin accepting
      BY <1>4, <1>9, <1>11, <3>1, <1>0
    <3>3. yy_accept[after[n] + 1] = 0
      BY <3>1, <3>2, <1>4
    <3>4. \A q \in Along(n) : patterns[q[1]].rule \in Nat \ {0}
      <4>1. \A q \in Along(n) : \E p, i : q = <<p, i>>
        BY InPlaces DEF Along
      <4>2. \A p, i : <<p, i>> \in Along(n) => p \in Applying(start, b.bol)
        BY InPlaces DEF Along
      <4>3. ASSUME NEW q \in Along(n) PROVE patterns[q[1]].rule \in Nat \ {0}
        <5>1. PICK p, i : q = <<p, i>>
          BY <4>1
        <5>2. q[1] = p /\ p \in Applying(start, b.bol)
          BY <4>2, <5>1
        <5> QED
          BY <5>2, PatternTypes
      <4> QED
        BY <4>3
    <3>5. Complete(Along(n)) \in SUBSET (Nat \ {0})
      BY <3>4 DEF Complete
    <3> SUFFICES ASSUME Complete(Along(n)) # {} PROVE FALSE
      OBVIOUS
    <3>6. Min(Complete(Along(n))) = 0
      BY <3>1, <3>3, <1>3
    <3>7. Min(Complete(Along(n))) \in Complete(Along(n))
      BY <3>5, Least
    <3> QED
      BY <3>5, <3>6, <3>7
  <2>2. CASE n > stop
    <3>1. stop \in 0..Left /\ n \in (stop + 1)..Len(Rest)
      BY <2>0, <2>2, <1>0, <1>4, <1>5
    <3>2. CASE Stops(after[stop])
      <4>1. Along(n) = {}
        BY <3>1, <3>2, NothingBehind
      <4> QED
        BY <4>1 DEF Complete
    <3>3. CASE atEnd /\ pos + stop > nChars
      <4>1. b.got = Len(b.text)
        BY <3>3 DEF Ends
      <4>2. Left = Len(Rest) /\ stop >= Left
        BY <4>1, <2>0, <3>3, <1>0, <3>1
      <4> QED
        BY <4>2, <3>1, <1>0
    <3> QED
      BY <3>2, <3>3, <1>6
  <2> QED
    BY <2>0, <2>1, <2>2, <1>4
<1> QED
  BY <1>4, <1>9, <1>10, <1>11

LEMMA MatchesAreLongest == SInv /\ Ends => LongestMatch
<1> SUFFICES ASSUME SInv, Ends, Scanning, match.rule # EndOfBuffer
             PROVE  <<match.length, match.rule>> = Munch
  BY DEF LongestMatch
<1> DEFINE all == Matches(start, b.bol, Rest)
           k == Found[1]
           lengths == {q[1] : q \in all}
           rules == {q[2] : q \in {q \in all : q[1] = k}}
<1>0. result = "running"
  BY DEF Scanning
<1>1. /\ k \in 0..Left /\ Found = <<k, Found[2]>>
      /\ Complete(Along(k)) # {} /\ Found[2] = Min(Complete(Along(k)))
      /\ \A n \in 0..Len(Rest) : n > k => Complete(Along(n)) = {}
  BY <1>0, FoundIsLongest
<1>2. Rest \in Seq(STRING) /\ Len(Rest) \in Nat /\ Left \in Nat /\ Left <= Len(Rest)
  BY <1>0, RestIs
<1>3. /\ \A q \in all : q = <<q[1], q[2]>> /\ q[1] \in 0..Len(Rest)
      /\ \A n, r : <<n, r>> \in all <=> r \in Complete(Along(n))
  BY <1>2, MatchesComplete DEF Along
<1>4. <<match.length, match.rule>> = <<k, Found[2]>>
  BY DEF match
<1>5. Munch = LET l == Max(lengths) IN <<l, Min({q[2] : q \in {q \in all : q[1] = l}})>>
  BY DEF Munch, Rest
<1> HIDE DEF all, k
<1>6. rules = Complete(Along(k))
  <2>1. ASSUME NEW r \in rules PROVE r \in Complete(Along(k))
    <3>1. PICK q \in all : q[1] = k /\ r = q[2]
      OBVIOUS
    <3>2. <<k, r>> \in all
      BY <1>3, <3>1
    <3> QED
      BY <1>3, <3>2
  <2>2. ASSUME NEW r \in Complete(Along(k)) PROVE r \in rules
    <3>1. <<k, r>> \in all
      BY <1>3
    <3>2. <<k, r>>[1] = k /\ <<k, r>>[2] = r
      OBVIOUS
    <3> QED
      BY <3>1, <3>2
  <2> QED
    BY <2>1, <2>2
<1>7. lengths \in SUBSET (0..Len(Rest)) /\ k \in lengths /\ \A n \in lengths : n <= k
  <2>1. lengths \in SUBSET (0..Len(Rest))
    BY <1>3
  <2>2. PICK r : r \in Complete(Along(k))
    BY <1>1
  <2>3. <<k, r>> \in all /\ <<k, r>>[1] = k
    BY <1>3, <2>2
  <2>4. k \in lengths
    BY <2>3
  <2>5. ASSUME NEW q \in all PROVE q[1] <= k
    <3>1. q[2] \in Complete(Along(q[1])) /\ q[1] \in 0..Len(Rest)
      BY <1>3
    <3> QED
      BY <3>1, <1>1, <1>2
  <2> QED
    BY <2>1, <2>4, <2>5
<1>8. Max(lengths) = k
  <2> HIDE DEF lengths
  <2>1. lengths # {}
    BY <1>7
  <2>2. Max(lengths) \in lengths /\ \A n \in lengths : n <= Max(lengths)
    BY <1>2, <1>7, <2>1, Greatest
  <2>3. k \in Nat /\ Max(lengths) \in Nat
    <3>1. k \in 0..Len(Rest) /\ Max(lengths) \in 0..Len(Rest)
      BY <2>2, <1>7
    <3> QED
      BY <3>1
  <2> QED
    BY <2>2, <2>3, <1>7
<1>9. Munch = <<k, Min(rules)>>
  BY <1>5, <1>8
<1> QED
  BY <1>1, <1>4, <1>6, <1>9

\* Whatever the texts, the length of the buffers and reads and the depth of the includes: every
\* match is the longest there is of any rule of scanner.l on what was not matched of the text,
\* and of the rules that match as much it is the first (yylex, yy_get_next_buffer and the
\* tables of scanner.c).
THEOREM MatchIsLongest == Spec => []LongestMatch
<1>1. Init => SInv /\ Ends
  BY InitKept, InitEnds
<1>2. SInv /\ Ends /\ [Next]_vars => SInv' /\ Ends'
  BY SInvNext, EndsNext
<1>3. SInv /\ Ends => LongestMatch
  BY MatchesAreLongest
<1> QED
  BY <1>1, <1>2, <1>3, PTL DEF Spec
=============================================================================
