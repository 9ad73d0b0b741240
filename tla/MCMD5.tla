-------------------------------- MODULE MCMD5 --------------------------------
(***************************************************************************)
(* The two halves of md5c.c for TLC, one after the other in no behaviour:  *)
(* either a file is cut into blocks, by MD5Stream, or the blocks of a      *)
(* message of the RFC's test suite are mixed into the state, by MD5Words.  *)
(*                                                                         *)
(* Byte i of a file is the number 1000 + i, so that no byte can stand in   *)
(* for another.  A byte has eight values where bits are counted, so a word *)
(* wraps after 512 bytes.                                                  *)
(***************************************************************************)
EXTENDS MD5Stream, Sequences, TLC

CONSTANT Halves, WordBits

Numbered == [i \in Nat |-> 1000 + i]

\* Around the places where padding changes its length, and around the wrap.
Boundaries == {0, 55, 56, 64, 119, 120, 200, 511, 512, 600}

FourByteWord == 4096

Zeros(n) == [i \in 1..n |-> 0]

\* A message of up to 55 bytes: padding and length fit in its block.
OneBlock(m) == << m \o <<128>> \o Zeros(55 - Len(m)) \o <<(8 * Len(m)) % 256, (8 * Len(m)) \div 256>>
                    \o Zeros(6) >>

NoBytes == << >>
ABC     == <<97, 98, 99>>
Letters == [i \in 1..26 |-> 96 + i]
Digits  == [i \in 1..80 |-> 48 + (i % 10)]
TwoBlocks(m) == << SubSeq(m, 1, 64),
                   SubSeq(m, 65, 80) \o <<128>> \o Zeros(39) \o <<128, 2>> \o Zeros(6) >>

RFCDigests ==
  OneBlock(NoBytes) :> <<\hd4, \h1d, \h8c, \hd9, \h8f, \h00, \hb2, \h04,
                         \he9, \h80, \h09, \h98, \hec, \hf8, \h42, \h7e>>
  @@ OneBlock(ABC) :> <<\h90, \h01, \h50, \h98, \h3c, \hd2, \h4f, \hb0,
                        \hd6, \h96, \h3f, \h7d, \h28, \he1, \h7f, \h72>>
  @@ OneBlock(Letters) :> <<\hc3, \hfc, \hd3, \hd7, \h61, \h92, \he4, \h00,
                            \h7d, \hfb, \h49, \h6c, \hca, \h67, \he1, \h3b>>
  @@ TwoBlocks(Digits) :> <<\h57, \hed, \hf4, \ha2, \h2b, \he3, \hc9, \h55,
                            \hac, \h49, \hda, \h2e, \h21, \h07, \hb6, \h7a>>
RFCMessages == DOMAIN RFCDigests

VARIABLES half, message, asked, state, x, reg, step

mixing == <<message, asked, state, x, reg, step>>

W == INSTANCE MD5Words WITH Messages <- RFCMessages, MD5 <- RFCDigests

ASSUME W!WidthAssumption

MCInit ==
  /\ half \in Halves
  /\ \/ /\ half = "stream" /\ Init
        /\ message = << >> /\ asked = << >> /\ state = << >> /\ x = << >> /\ reg = << >>
        /\ step = 0
     \/ /\ half = "words" /\ W!Init
        /\ pc = "closed" /\ length = 0 /\ pos = 0 /\ ctx = Junk /\ digest = Junk

MCNext ==
  /\ half' = half
  /\ \/ half = "stream" /\ Next /\ UNCHANGED mixing
     \/ half = "words" /\ W!Next /\ UNCHANGED vars

MCSpec == MCInit /\ [][MCNext]_<<half, vars, mixing>>
-----------------------------------------------------------------------------
\* What is mixed into the state by MD5Transform is the digest of the message.
DigestIsMD5 == half = "words" => W!DigestIsMD5
=============================================================================
