------------------------------ MODULE MD5Words ------------------------------
(***************************************************************************)
(* MD5Transform of md5c.c with the words it really works on: a UINT4 of    *)
(* WordBits bits is the set of its bits that are 1.  RFC 1321 has 32.      *)
(* MD5Stream says which blocks reach it and in which order; here they are  *)
(* the padded blocks of the messages of the RFC's test suite.              *)
(***************************************************************************)
EXTENDS Integers, Sequences

CONSTANTS
  WordBits,     \* the width of UINT4
  Messages,     \* Messages: the set of messages, each a sequence of blocks
  MD5           \* MD5[m]: the 16 bytes the RFC gives for message m

WidthAssumption == WordBits \in Nat /\ WordBits >= 32

VARIABLES
  message,      \* the blocks still to be transformed; the current one is first
  asked,        \* the message being digested
  state,        \* context->state
  x,            \* the block as 16 words
  reg,          \* a, b, c, d
  step          \* transformation steps done on the block; 0: not decoded yet

vars == <<message, asked, state, x, reg, step>>

Bits == 0 .. (WordBits - 1)

BitsOf(n) == {i \in 0..15 : (n \div 2^i) % 2 = 1}
Shifted(s, n) == {i + n : i \in s} \cap Bits
WordOf(high, low) == BitsOf(low) \cup Shifted(BitsOf(high), 16)

\* s + t of unsigned words: the carry out of the top bit is lost.
Sum(s, t) ==
  LET carry[i \in 0..WordBits] ==
        /\ i > 0
        /\ LET j == i - 1 IN
             \/ j \in s /\ j \in t
             \/ (j \in s \/ j \in t) /\ carry[j]
  IN {i \in Bits : ((i \in s) # (i \in t)) # carry[i]}

Xor(s, t) == (s \ t) \cup (t \ s)

FF(p, q, r) == (p \cap q) \cup ((Bits \ p) \cap r)
GG(p, q, r) == (p \cap r) \cup (q \cap (Bits \ r))
HH(p, q, r) == Xor(Xor(p, q), r)
II(p, q, r) == Xor(q, p \cup (Bits \ r))

\* Mutant: a shift where a rotation is due.
RotateLeftLost(s, n) == Shifted(s, n)

\* ROTATE_LEFT names the width 32 whatever UINT4 has.
RotateLeft(s, n) == Shifted(s, n) \cup Shifted(s, n - 32)

\* S11 .. S44
Shifts == << <<7, 12, 17, 22>>, <<5, 9, 14, 20>>, <<4, 11, 16, 23>>, <<6, 10, 15, 21>> >>

\* The 64 lines of the four rounds: which word of the block, and the constant.
Lines == <<
  <<0,  \hd76a, \ha478>>, <<1,  \he8c7, \hb756>>, <<2,  \h2420, \h70db>>, <<3,  \hc1bd, \hceee>>,
  <<4,  \hf57c, \h0faf>>, <<5,  \h4787, \hc62a>>, <<6,  \ha830, \h4613>>, <<7,  \hfd46, \h9501>>,
  <<8,  \h6980, \h98d8>>, <<9,  \h8b44, \hf7af>>, <<10, \hffff, \h5bb1>>, <<11, \h895c, \hd7be>>,
  <<12, \h6b90, \h1122>>, <<13, \hfd98, \h7193>>, <<14, \ha679, \h438e>>, <<15, \h49b4, \h0821>>,
  <<1,  \hf61e, \h2562>>, <<6,  \hc040, \hb340>>, <<11, \h265e, \h5a51>>, <<0,  \he9b6, \hc7aa>>,
  <<5,  \hd62f, \h105d>>, <<10, \h0244, \h1453>>, <<15, \hd8a1, \he681>>, <<4,  \he7d3, \hfbc8>>,
  <<9,  \h21e1, \hcde6>>, <<14, \hc337, \h07d6>>, <<3,  \hf4d5, \h0d87>>, <<8,  \h455a, \h14ed>>,
  <<13, \ha9e3, \he905>>, <<2,  \hfcef, \ha3f8>>, <<7,  \h676f, \h02d9>>, <<12, \h8d2a, \h4c8a>>,
  <<5,  \hfffa, \h3942>>, <<8,  \h8771, \hf681>>, <<11, \h6d9d, \h6122>>, <<14, \hfde5, \h380c>>,
  <<1,  \ha4be, \hea44>>, <<4,  \h4bde, \hcfa9>>, <<7,  \hf6bb, \h4b60>>, <<10, \hbebf, \hbc70>>,
  <<13, \h289b, \h7ec6>>, <<0,  \heaa1, \h27fa>>, <<3,  \hd4ef, \h3085>>, <<6,  \h0488, \h1d05>>,
  <<9,  \hd9d4, \hd039>>, <<12, \he6db, \h99e5>>, <<15, \h1fa2, \h7cf8>>, <<2,  \hc4ac, \h5665>>,
  <<0,  \hf429, \h2244>>, <<7,  \h432a, \hff97>>, <<14, \hab94, \h23a7>>, <<5,  \hfc93, \ha039>>,
  <<12, \h655b, \h59c3>>, <<3,  \h8f0c, \hcc92>>, <<10, \hffef, \hf47d>>, <<1,  \h8584, \h5dd1>>,
  <<8,  \h6fa8, \h7e4f>>, <<15, \hfe2c, \he6e0>>, <<6,  \ha301, \h4314>>, <<13, \h4e08, \h11a1>>,
  <<4,  \hf753, \h7e82>>, <<11, \hbd3a, \hf235>>, <<2,  \h2ad7, \hd2bb>>, <<9,  \heb86, \hd391>> >>

MD5Init == << WordOf(\h6745, \h2301), WordOf(\hefcd, \hab89),
              WordOf(\h98ba, \hdcfe), WordOf(\h1032, \h5476) >>

\* Four bytes make a word, the lowest first.
Decode(block) ==
  [k \in 0..15 |->
     UNION {Shifted(BitsOf(block[4 * k + j + 1]), 8 * j) : j \in 0..3}]

\* A word makes four bytes: what it holds above bit 31 is dropped.
EncodedBits(word) == word \cap 0..31

Init ==
  /\ asked \in Messages
  /\ message = asked
  /\ state = MD5Init
  /\ x = [k \in 0..15 |-> {}]
  /\ reg = MD5Init
  /\ step = 0

Begin ==
  /\ step = 0 /\ message # << >>
  /\ x' = Decode(Head(message))
  /\ reg' = state
  /\ step' = 1
  /\ UNCHANGED <<message, asked, state>>

Mixed(round, b, c, d) ==
  CASE round = 1 -> FF(b, c, d)
    [] round = 2 -> GG(b, c, d)
    [] round = 3 -> HH(b, c, d)
    [] round = 4 -> II(b, c, d)

\* One line of the rounds.  Line after line the registers change places: reg
\* lists them as the line's arguments do, the one it assigns first.
Transform ==
  /\ step \in 1..64
  /\ LET round == (step - 1) \div 16 + 1
         line == Lines[step]
         a == Sum(reg[1], Sum(Sum(Mixed(round, reg[2], reg[3], reg[4]), x[line[1]]),
                              WordOf(line[2], line[3])))
         turned == Sum(RotateLeft(a, Shifts[round][((step - 1) % 4) + 1]), reg[2])
     IN reg' = <<reg[4], turned, reg[2], reg[3]>>
  /\ step' = step + 1
  /\ UNCHANGED <<message, asked, state, x>>

\* Mutant: the block replaces the state instead of being added to it.
AddStateReplaced ==
  /\ step = 65
  /\ state' = reg
  /\ message' = Tail(message)
  /\ step' = 0 /\ x' = [k \in 0..15 |-> {}]
  /\ UNCHANGED <<asked, reg>>

\* Mutant: on to the rounds without looking for another block.
AddStateGoesOn ==
  /\ step = 65
  /\ state' = [i \in 1..4 |-> Sum(state[i], reg[i])]
  /\ message' = Tail(message)
  /\ step' = 1
  /\ UNCHANGED <<asked, reg, x>>

AddState ==
  /\ step = 65
  /\ state' = [i \in 1..4 |-> Sum(state[i], reg[i])]
  /\ message' = Tail(message)
  /\ step' = 0 /\ x' = [k \in 0..15 |-> {}]
  /\ UNCHANGED <<asked, reg>>

Next == Begin \/ Transform \/ AddState

Spec == Init /\ [][Next]_vars
-----------------------------------------------------------------------------
(* Properties.                                                             *)

Digested == step = 0 /\ message = << >>

\* What MD5Final encodes at the end, and scanDirectory stores and compares, is the
\* digest RFC 1321 gives for the message: of the four bytes a word is to have
\* (md5.h:33), nothing above may leak into them.
DigestIsMD5 ==
  Digested =>
    \A i \in 1..4 :
      EncodedBits(state[i]) = Decode([n \in 1..64 |-> IF n <= 16 THEN MD5[asked][n] ELSE 0])[i - 1]

=============================================================================
