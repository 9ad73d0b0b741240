------------------------------ MODULE MD5Stream ------------------------------
(***************************************************************************)
(* How a file becomes MD5 blocks: the read loop of MD5File over MD5Init,   *)
(* MD5Update and MD5Final of md5c.c.  The mixing of a block into the four  *)
(* words of the state is not modelled: the state is the sequence of blocks *)
(* that MD5Transform was given, so digests are equal here when the same    *)
(* blocks went in.  Arrays are functions from 0, as in C.                  *)
(***************************************************************************)
EXTENDS Integers

CONSTANTS
  Data,       \* Data[i]: byte i of the file
  Lengths,    \* the lengths the file may have
  Sizes,      \* how many bytes a failing fread may have read
  ChunkLen,   \* the size of MD5File's buffer: 4096 in the code
  Radix,      \* how many values a byte of the encoded count has: 256
  Word,       \* UINT4 counts modulo Word: 2^32, or 2^64 where long has 8 bytes
  Junk        \* an uninitialised byte

ASSUME SizesAssumption ==
  /\ Lengths \subseteq Nat
  /\ ChunkLen \in Nat \ {0}
  /\ Sizes \subseteq 0..ChunkLen

ASSUME WordAssumption ==
  /\ Radix \in Nat \ {0}
  /\ Word \in Nat /\ Word % 512 = 0
  /\ 8 * ChunkLen < Word /\ 1024 < Word

VARIABLES
  pc,       \* MD5File: "closed", "read", "eof"; "done" once it has returned
  length,   \* the length of the file
  pos,      \* how many of its bytes fread has returned
  ctx,      \* MD5_CTX, with the number of blocks in its state
  digest    \* what MD5Final wrote

vars == <<pc, length, pos, ctx, digest>>

Index == 0..63

\* memcpy(to + at, from + off, n)
Copy(to, at, from, off, n) ==
  [j \in DOMAIN to |->
     IF j >= at /\ j < at + n THEN from[off + (j - at)] ELSE to[j]]

\* What byte j of a number counts.
Place[j \in 0..7] == IF j = 0 THEN 1 ELSE Radix * Place[j - 1]

\* The values four bytes can hold.
FourBytes == Place[4]

-----------------------------------------------------------------------------
(* md5c.c                                                                  *)

\* Only the counts and the state are initialised.
MD5Init ==
  [count |-> [w \in {0, 1} |-> 0], buffer |-> [j \in Index |-> Junk],
   done |-> 0, blocks |-> [b \in {} |-> Junk]]

\* Mutant: no carry into the second word.
AddBitsNoCarry(count, len) ==
  [w \in {0, 1} |->
     IF w = 0 THEN (count[0] + 8 * len) % Word
     ELSE (count[1] + (8 * len) \div FourBytes) % Word]

\* The number of bits, in two words.  "inputLen >> 29" is what "inputLen << 3"
\* loses in four bytes.
AddBits(count, len) ==
  LET bits == (8 * len) % Word
      sum  == (count[0] + bits) % Word
  IN  [w \in {0, 1} |->
         IF w = 0 THEN sum
         ELSE (count[1] + (IF sum < bits THEN 1 ELSE 0)
                 + (8 * len) \div FourBytes) % Word]

\* Mutant: the count of bits taken for one of bytes.
BufferIndexBits(c) == c.count[0] % 64

BufferIndex(c) == (c.count[0] \div 8) % 64

\* Fill the buffer and transform it, transform the whole blocks that follow in
\* the input, and keep the rest in the buffer; or keep everything.
Absorb(c, index, input, len) ==
  LET partLen == 64 - index
      whole   == (len - partLen) \div 64
      rest    == partLen + 64 * whole
      filled  == Copy(c.buffer, index, input, 0, partLen)
  IN  IF len >= partLen
      THEN [count  |-> AddBits(c.count, len),
            buffer |-> Copy(filled, 0, input, rest, len - rest),
            done   |-> c.done + 1 + whole,
            blocks |-> [b \in 0..(c.done + whole) |->
                          IF b < c.done THEN c.blocks[b]
                          ELSE IF b = c.done THEN filled
                          ELSE [j \in Index |->
                                  input[partLen + 64 * (b - c.done - 1) + j]]]]
      ELSE [count  |-> AddBits(c.count, len),
            buffer |-> Copy(c.buffer, index, input, 0, len),
            done   |-> c.done,
            blocks |-> c.blocks]

MD5Update(c, input, len) == Absorb(c, BufferIndex(c), input, len)

PADDING == [j \in Index |-> IF j = 0 THEN 128 ELSE 0]

\* The four low bytes of each word, least significant first.
Encode(count) ==
  [j \in 0..7 |-> (count[j \div 4] \div Place[j % 4]) % Radix]

\* Mutant: "index <= 56".
PadLenAt56(index) == IF index <= 56 THEN 56 - index ELSE 120 - index

\* Pad out to 56 mod 64 ...
PadLen(index) == IF index < 56 THEN 56 - index ELSE 120 - index

\* Mutant: the count is encoded after padding.
MD5FinalLateCount(c) ==
  LET padded == MD5Update(c, PADDING, PadLen(BufferIndex(c)))
      full   == MD5Update(padded, Encode(padded.count), 8)
  IN  full.blocks

\* ... and append the number of bits before padding.
MD5Final(c) ==
  LET padded == MD5Update(c, PADDING, PadLen(BufferIndex(c)))
      full   == MD5Update(padded, Encode(c.count), 8)
  IN  full.blocks

-----------------------------------------------------------------------------
(* MD5File: read the file to its end.  fread returns fewer bytes than were *)
(* asked for at the end of the file, and when a read is cut short by an    *)
(* error; only the end of the file ends the loop.                          *)

Init ==
  /\ pc = "closed" /\ length \in Lengths /\ pos = 0
  /\ ctx = MD5Init
  /\ digest = MD5Init.blocks

Open ==
  /\ pc = "closed"
  /\ pc' = "read" /\ pos' = 0 /\ ctx' = MD5Init
  /\ UNCHANGED <<length, digest>>

Chunk(n) == [j \in 0..(n - 1) |-> Data[pos + j]]

\* What fread returns when nothing goes wrong.
Wanted == IF length - pos < ChunkLen THEN length - pos ELSE ChunkLen

\* fewer than 4096 bytes, and feof: the end.
ReadChunk ==
  /\ pc = "read"
  /\ pc' = IF Wanted < ChunkLen THEN "eof" ELSE "read"
  /\ pos' = pos + Wanted
  /\ ctx' = MD5Update(ctx, Chunk(Wanted), Wanted)
  /\ UNCHANGED <<length, digest>>

\* Fewer bytes because of an error: they are digested and the loop reads on.
ReadCutShort(n) ==
  /\ pc = "read"
  /\ n <= Wanted /\ n < ChunkLen
  /\ pos' = pos + n
  /\ ctx' = MD5Update(ctx, Chunk(n), n)
  /\ UNCHANGED <<pc, length, digest>>

\* The digest is written out, and the context is zeroed.
Finish ==
  /\ pc = "eof"
  /\ pc' = "done"
  /\ digest' = MD5Final(ctx)
  /\ ctx' = [count |-> [w \in {0, 1} |-> 0], buffer |-> [j \in Index |-> 0],
             done |-> 0, blocks |-> [b \in {} |-> 0]]
  /\ UNCHANGED <<length, pos>>

\* The caller has the file digested again, in another state.
Again ==
  /\ pc = "done"
  /\ pc' = "closed"
  /\ length' \in Lengths
  /\ UNCHANGED <<pos, ctx, digest>>

Next ==
  \/ Open \/ ReadChunk \/ Finish \/ Again
  \/ \E n \in Sizes : ReadCutShort(n)

Spec == Init /\ [][Next]_vars
-----------------------------------------------------------------------------
(* What MD5 is defined to digest (RFC 1321): the message, 128, zeros up to *)
(* 56 mod 64, and the number of bits of the message in eight bytes.        *)

PaddedLength(n) == 64 * ((n + 8) \div 64 + 1)

MessageByte(n, i) == IF i < n THEN Data[i] ELSE IF i = n THEN 128 ELSE 0

\* Byte i of the blocks b.
At(b, i) == b[i \div 64][i % 64]

\* However the file was cut into reads, the blocks are those of the padded
\* message: no byte lost, repeated or left over from before.
MessageDigested ==
  pc = "done" =>
    /\ DOMAIN digest = 0..(PaddedLength(length) \div 64 - 1)
    /\ \A i \in 0..(PaddedLength(length) - 9) :
         At(digest, i) = MessageByte(length, i)

\* md5.h:39, "number of bits, modulo 2^64 (lsb first)", and md5c.c:182, "Append
\* length (before padding)": the last eight bytes are the number of bits of the
\* message.
LengthAppended ==
  pc = "done" =>
    \A j \in 0..7 : At(digest, PaddedLength(length) - 8 + j)
                      = ((8 * length) \div Place[j]) % Radix
=============================================================================
