----------------------------- MODULE DaemonProofs -----------------------------
(***************************************************************************)
(* Theorems about three parts of filewatch.c and inifile.c: the sidecars   *)
(* of sidecars (Sidecars), main around the scan (Startup) and the reader   *)
(* of ini files (IniFile).                                                 *)
(***************************************************************************)
EXTENDS Daemon, WellFoundedInduction, TLAPS

-----------------------------------------------------------------------------
(* Numbers.                                                                *)

LEMMA NatLess == IsWellFoundedOn({p \in Nat \X Nat : p[1] < p[2]}, Nat)
  BY NatLessThanWellFounded DEF OpToRel

\* A set of natural numbers that is not empty has a least one.
LEMMA Least ==
  ASSUME NEW S \in SUBSET Nat, S # {}
  PROVE  \E m \in S : \A k \in S : m <= k
<1> DEFINE R == {p \in Nat \X Nat : p[1] < p[2]}
<1>1. IsWellFoundedOn(R, Nat)
  BY NatLess
<1>2. \A y, x \in S : <<y, x>> \in R <=> y < x
  OBVIOUS
<1> HIDE DEF R
<1>3. PICK x \in S : \A y \in S : ~ (<<y, x>> \in R)
  BY <1>1, WFMin
<1>4. \A y \in S : ~ (y < x)
  BY <1>2, <1>3
<1> QED
  BY <1>4

-----------------------------------------------------------------------------
(* The sidecars of sidecars: types.                                         *)

\* A name in hand has a sidecar's name.
LEMMA InHandHasSidecar ==
  ASSUME TypeOK, pc \in InHand
  PROVE  /\ file \in Levels /\ file + 1 \in Levels /\ file \in Nat /\ file < MaxLevel
         /\ file # file + 1
  BY SidecarsAssumption DEF TypeOK, Levels

\* What MD5File computes is a digest; of a file that kept still, the right one.
LEMMA HashedIs ==
  ASSUME NEW d, held \in SUBSET Contents, Hashed(d)
  PROVE  d \in Contents \ {Empty} /\ \A c : held = {c} => d = Digest[c]
  BY SidecarsAssumption DEF Hashed

LEMMA SidecarTypesInit == Init => TypeOK
<1> SUFFICES ASSUME Init PROVE TypeOK
  OBVIOUS
<1>1. PICK c \in Bodies : content = [k \in Levels |-> IF k = 0 THEN c ELSE Absent]
  BY DEF Init
<1>2. content \in [Levels -> Contents \cup {Absent}]
  BY <1>1, SidecarsAssumption
<1> QED
  BY <1>2, SidecarsAssumption DEF Init, TypeOK, InHand

LEMMA SidecarTypesNext ==
  ASSUME TypeOK, [Next]_vars
  PROVE  TypeOK'
<1>0. pc \in InHand => file \in Levels /\ file + 1 \in Levels
  BY InHandHasSidecar
<1> USE SidecarsAssumption DEF TypeOK, InHand, dirp, buffers, Continue
<1>1. CASE OpenDir \/ CloseDir \/ DoScript \/ CheckOpenNotIdle
  BY <1>1 DEF OpenDir, CloseDir, DoScript, CheckOpenNotIdle, SweepOver, Levels
<1>2. ASSUME NEW k \in Levels, ReadDir(k) PROVE TypeOK'
  BY <1>2 DEF ReadDir, Levels
<1>3. CASE ReadOldDigest
  <2>1. content[file + 1] \in Contents \cup {Absent}
    BY <1>0, <1>3 DEF ReadOldDigest
  <2> QED
    BY <1>3, <2>1 DEF ReadOldDigest
<1>4. ASSUME NEW k \in Levels, Mishap(k) PROVE mishaps' \in [Levels -> Nat]
  BY <1>4 DEF Mishap
<1>5. CASE ReadOldFails
  BY <1>0, <1>4, <1>5 DEF ReadOldFails
<1>6. CASE HashFile \/ GenMD5
  BY <1>0, <1>6 DEF HashFile, GenMD5, Present
<1>7. CASE HashFails
  BY <1>7 DEF HashFails
<1>8. CASE Compare
  BY <1>8 DEF Compare
<1>9. CASE CheckOpenIdle
  <2>1. handled' \in [Levels -> Nat]
    BY <1>0, <1>9 DEF CheckOpenIdle
  <2> QED
    BY <1>9, <2>1 DEF CheckOpenIdle
<1>10. CASE GenMD5Fails
  <2>1. mishaps' \in [Levels -> Nat]
    BY <1>0, <1>4, <1>10 DEF GenMD5Fails
  <2> QED
    BY <1>10, <2>1 DEF GenMD5Fails
<1>11. CASE Rehashed
  BY <1>11 DEF Rehashed
<1>12. CASE TruncateSidecar
  <2>1. content' \in [Levels -> Contents \cup {Absent}]
    BY <1>12 DEF TruncateSidecar
  <2> QED
    BY <1>0, <1>12, <2>1 DEF TruncateSidecar
<1>13. CASE FlushSidecar
  <2>1. content' \in [Levels -> Contents \cup {Absent}]
    BY <1>13 DEF FlushSidecar
  <2> QED
    BY <1>13, <2>1 DEF FlushSidecar
<1>14. CASE StoreFails
  BY <1>0, <1>4, <1>14 DEF StoreFails
<1>15. CASE Restart
  BY <1>0, <1>4, <1>15 DEF Restart
<1>16. ASSUME NEW c \in Bodies, Change(c) PROVE TypeOK'
  <2>1. content' \in [Levels -> Contents \cup {Absent}]
    BY <1>16 DEF Change
  <2>2. held' \in SUBSET Contents /\ (held # {} <=> held' # {})
    BY <1>16 DEF Change
  <2> QED
    BY <1>16, <2>1, <2>2 DEF Change, Levels
<1>17. ASSUME NEW k \in Levels, RemoveSidecar(k) PROVE TypeOK'
  <2>1. content' \in [Levels -> Contents \cup {Absent}] /\ k + 1 \in Levels
    BY <1>17 DEF RemoveSidecar, Levels
  <2> QED
    BY <1>4, <1>17, <2>1 DEF RemoveSidecar
<1>18. CASE UNCHANGED vars
  BY <1>18 DEF vars
<1> QED
  BY <1>1, <1>2, <1>3, <1>5, <1>6, <1>7, <1>8, <1>9, <1>10, <1>11, <1>12, <1>13, <1>14,
     <1>15, <1>16, <1>17, <1>18 DEF Next

-----------------------------------------------------------------------------
(* The sidecars of sidecars: what a sweep leaves.                          *)

\* What has been read of a sidecar is what it holds, unless it was removed.
OldFits == pc \in {"hash", "hashing"} /\ Present(file + 1) => old = content[file + 1]

\* A sweep is done with name k.
Done(k) == Present(k + 1) /\ (k \in touched \/ Agrees(k))

\* What is known of the name in hand.
SoFar ==
  /\ pc \in {"hash", "hashing", "flush", "script"} => Present(file + 1)
  /\ pc = "flush" => file + 1 \in touched
  /\ file \notin touched =>
       /\ pc \in {"hashing", "rehashing"} => held = {content[file]}
       /\ pc \in {"store", "flush"} => new = Digest[content[file]]
       /\ pc = "script" => Agrees(file)

\* In a sweep that nothing hindered no sidecar has gone, the names returned and handled
\* are done with, and the one in hand will be.
GrowthInv ==
  /\ OldFits
  /\ pc # "sleep" =>
       /\ MaxLevel \notin first \cup returned
       /\ ~ hindered =>
            /\ \A k \in first : k # 0 => Present(k)
            /\ \A k \in first \cap returned : k # file => Done(k)
            /\ SoFar

\* A step that writes nothing.
LEMMA GrowthIfReading ==
  ASSUME TypeOK, GrowthInv, pc \in InHand, ~ hindered, UNCHANGED <<content, dirp, hindered>>,
         pc' # "sleep",
         \/ file' = file
         \/ file' \notin Levels /\ Done(file),
         OldFits', SoFar'
  PROVE  GrowthInv'
  BY InHandHasSidecar DEF GrowthInv, Done, Present, Agrees, dirp, InHand, TypeOK

LEMMA GrowthNext ==
  ASSUME TypeOK, TypeOK', GrowthInv, [Next]_vars
  PROVE  GrowthInv'
<1>0. pc \in InHand => file \in Levels /\ file + 1 \in Levels /\ file # file + 1
  BY InHandHasSidecar
<1>h. ASSUME hindered', OldFits', pc' # "sleep" => MaxLevel \notin first' \cup returned'
      PROVE  GrowthInv'
  BY <1>h DEF GrowthInv
<1>i. ASSUME hindered, UNCHANGED <<hindered, first, returned>>, pc # "sleep", OldFits'
      PROVE  GrowthInv'
  BY <1>i DEF GrowthInv
<1>1. CASE OpenDir
  BY <1>1 DEF OpenDir, GrowthInv, OldFits, SoFar, TypeOK, InHand, Present
<1>2. CASE CloseDir \/ Restart
  BY <1>2 DEF CloseDir, Restart, GrowthInv, OldFits, dirp
<1>3. ASSUME NEW k \in Levels, ReadDir(k) PROVE GrowthInv'
  <2>1. file \notin Levels /\ pc # "sleep"
    BY <1>3, SidecarsAssumption DEF ReadDir, TypeOK, InHand
  <2> QED
    BY <1>3, <2>1, SidecarsAssumption
    DEF ReadDir, GrowthInv, OldFits, SoFar, Done, Present, Agrees, TypeOK, Levels, buffers
<1>4. CASE HashFails \/ CheckOpenNotIdle \/ GenMD5Fails \/ StoreFails
  BY <1>h, <1>4 DEF HashFails, CheckOpenNotIdle, GenMD5Fails, StoreFails, GrowthInv, OldFits,
     dirp, Continue
<1>5. CASE \/ ReadOldDigest \/ ReadOldFails \/ HashFile \/ CheckOpenIdle \/ GenMD5 \/ Rehashed
  <2>1. pc \in InHand /\ pc' \in InHand /\ UNCHANGED <<content, dirp, hindered, file>>
    BY <1>5 DEF ReadOldDigest, ReadOldFails, HashFile, CheckOpenIdle, GenMD5, Rehashed, InHand
  <2>2. OldFits'
    BY <1>5 DEF ReadOldDigest, ReadOldFails, HashFile, CheckOpenIdle, GenMD5, Rehashed,
       GrowthInv, OldFits, Present
  <2>3. CASE ~ hindered
    <3>1. SoFar
      BY <2>1, <2>3 DEF GrowthInv, InHand
    <3>2. SoFar'
      <4>1. CASE ReadOldDigest \/ ReadOldFails
        BY <4>1 DEF ReadOldDigest, ReadOldFails, SoFar, Present
      <4>2. CASE HashFile \/ GenMD5
        BY <3>1, <4>2 DEF HashFile, GenMD5, SoFar, Present, dirp
      <4>3. CASE CheckOpenIdle
        BY <4>3 DEF CheckOpenIdle, SoFar
      <4>4. CASE Rehashed
        <5>1. held \in SUBSET Contents
          BY DEF TypeOK
        <5>2. file \notin touched => new' = Digest[content[file]]
          BY <3>1, <4>4, <5>1, HashedIs DEF Rehashed, SoFar
        <5> QED
          BY <4>4, <5>2 DEF Rehashed, SoFar, dirp
      <4> QED
        BY <1>5, <4>1, <4>2, <4>3, <4>4
    <3> QED
      BY <2>1, <2>2, <2>3, <3>2, GrowthIfReading DEF InHand
  <2> QED
    BY <1>i, <2>1, <2>2, <2>3 DEF dirp, InHand
<1>6. CASE Compare
  <2>1. pc = "hashing" /\ pc' # "sleep" /\ UNCHANGED <<content, dirp, hindered>> /\ OldFits'
    BY <1>6 DEF Compare, OldFits, Continue
  <2>2. PICK d \in Contents :
           /\ Hashed(d)
           /\ IF First[d] = First[old] THEN Continue ELSE pc' = "lsof" /\ file' = file
    BY <1>6 DEF Compare
  <2>3. CASE ~ hindered
    <3>1. SoFar /\ Present(file + 1) /\ old = content[file + 1] /\ held \in SUBSET Contents
      BY <2>1, <2>3 DEF GrowthInv, SoFar, OldFits, TypeOK
    <3>2. CASE First[d] = First[old]
      <4>1. file \notin touched => d = Digest[content[file]]
        BY <2>1, <2>2, <3>1, HashedIs DEF SoFar
      <4>2. Done(file)
        BY <3>1, <3>2, <4>1 DEF Done, Agrees
      <4> QED
        BY <2>1, <2>2, <2>3, <3>2, <4>2, GrowthIfReading, SidecarsAssumption
        DEF Continue, SoFar, InHand
    <3>3. CASE First[d] # First[old]
      BY <2>1, <2>2, <2>3, <3>3, GrowthIfReading DEF SoFar, InHand
    <3> QED
      BY <3>2, <3>3
  <2> QED
    BY <1>i, <2>1, <2>3 DEF dirp
<1>7. CASE TruncateSidecar
  <2>1. /\ pc = "store" /\ pc' = "flush" /\ UNCHANGED <<returned, first, file, new, hindered>>
        /\ content' = [content EXCEPT ![file + 1] = Empty]
        /\ touched' = touched \cup {file + 1}
    BY <1>7 DEF TruncateSidecar, buffers
  <2>2. file \in 0..(MaxLevel - 1) /\ content \in [Levels -> Contents \cup {Absent}]
        /\ first \in SUBSET Levels /\ Empty # Absent
    BY <2>1, SidecarsAssumption DEF TypeOK, InHand
  <2>3. OldFits' /\ (hindered => GrowthInv')
    BY <1>i, <2>1 DEF OldFits
  <2>4. CASE ~ hindered
    <3>1. /\ MaxLevel \notin first \cup returned
          /\ \A k \in first : k # 0 => Present(k)
          /\ \A k \in first \cap returned : k # file => Done(k)
          /\ SoFar
      BY <2>1, <2>4 DEF GrowthInv
    <3>2. \A k \in Levels : Present(k) => Present(k)'
      BY <2>1, <2>2 DEF Present
    <3>3. ASSUME NEW k \in first \cap returned, k # file PROVE Done(k)'
      <4>1. k + 1 \in Levels /\ k + 1 # file + 1 /\ Done(k) /\ k \in Levels
        BY <2>2, <3>1, <3>3, SidecarsAssumption DEF Levels
      <4>2. content'[k + 1] = content[k + 1] /\ (k # file + 1 => content'[k] = content[k])
        BY <2>1, <2>2, <4>1
      <4> QED
        BY <2>1, <3>2, <4>1, <4>2 DEF Done, Agrees
    <3>4. SoFar'
      <4>1. content'[file] = content[file] /\ Present(file + 1)'
        BY <1>0, <2>1, <2>2 DEF Present, InHand
      <4> QED
        BY <2>1, <3>1, <4>1 DEF SoFar
    <3> QED
      BY <2>1, <2>2, <2>3, <3>1, <3>2, <3>3, <3>4 DEF GrowthInv
  <2> QED
    BY <2>3, <2>4
<1>8. CASE FlushSidecar
  <2>1. /\ pc = "flush" /\ pc' = "script" /\ UNCHANGED <<returned, first, touched, file, hindered>>
        /\ content' = [content EXCEPT ![file + 1] = IF @ = Absent THEN Absent ELSE new]
        /\ new \in Contents
    BY <1>8 DEF FlushSidecar, dirp, TypeOK
  <2>2. file \in 0..(MaxLevel - 1) /\ content \in [Levels -> Contents \cup {Absent}]
        /\ first \in SUBSET Levels /\ Absent \notin Contents
    BY <2>1, SidecarsAssumption DEF TypeOK, InHand
  <2>3. OldFits' /\ (hindered => GrowthInv')
    BY <1>i, <2>1 DEF OldFits
  <2>4. CASE ~ hindered
    <3>1. /\ MaxLevel \notin first \cup returned
          /\ \A k \in first : k # 0 => Present(k)
          /\ \A k \in first \cap returned : k # file => Done(k)
          /\ SoFar /\ Present(file + 1) /\ file + 1 \in touched
      BY <2>1, <2>4 DEF GrowthInv, SoFar
    <3>2. \A k \in Levels : Present(k) => Present(k)'
      BY <2>1, <2>2 DEF Present
    <3>3. ASSUME NEW k \in first \cap returned, k # file PROVE Done(k)'
      <4>1. k + 1 \in Levels /\ k + 1 # file + 1 /\ Done(k) /\ k \in Levels
        BY <2>2, <3>1, <3>3, SidecarsAssumption DEF Levels
      <4>2. content'[k + 1] = content[k + 1] /\ (k # file + 1 => content'[k] = content[k])
        BY <2>1, <2>2, <4>1
      <4> QED
        BY <2>1, <3>1, <3>2, <4>1, <4>2 DEF Done, Agrees
    <3>4. SoFar'
      <4>1. content'[file] = content[file] /\ content'[file + 1] = new /\ Present(file + 1)'
        BY <1>0, <2>1, <2>2, <3>1 DEF Present, InHand
      <4> QED
        BY <2>1, <3>1, <4>1 DEF SoFar, Agrees
    <3> QED
      BY <2>1, <2>2, <2>3, <3>1, <3>2, <3>3, <3>4 DEF GrowthInv
  <2> QED
    BY <2>3, <2>4
<1>9. CASE DoScript
  <2>1. pc = "script" /\ pc' = "readdir" /\ UNCHANGED <<content, dirp, hindered>> /\ file' \notin Levels
    BY <1>9, SidecarsAssumption DEF DoScript, Continue
  <2>2. OldFits' /\ SoFar'
    BY <2>1 DEF OldFits, SoFar
  <2>3. CASE ~ hindered
    <3>1. Done(file)
      BY <2>1, <2>3 DEF GrowthInv, SoFar, Done
    <3> QED
      BY <2>1, <2>2, <2>3, <3>1, GrowthIfReading DEF InHand
  <2> QED
    BY <1>i, <2>1, <2>2, <2>3 DEF dirp
<1>10. ASSUME NEW c \in Bodies, Change(c) PROVE GrowthInv'
  <2>1. /\ UNCHANGED <<pc, returned, first, file, old, new, hindered>>
        /\ content' = [content EXCEPT ![0] = c] /\ touched' = touched \cup {0}
        /\ file = 0 \/ held' = held
    BY <1>10 DEF Change
  <2>2. /\ content \in [Levels -> Contents \cup {Absent}] /\ 0 \in Levels
        /\ first \in SUBSET Levels /\ MaxLevel \in Nat
    <3>1. 0 \in Levels /\ MaxLevel \in Nat
      BY SidecarsAssumption DEF Levels
    <3> QED
      BY <3>1 DEF TypeOK
  <2>3. \A k \in Levels : k # 0 => content'[k] = content[k]
    BY <2>1, <2>2
  <2>4. OldFits'
    <3>1. pc \in {"hash", "hashing"} => file + 1 \in Levels /\ file + 1 # 0
      BY <1>0, SidecarsAssumption DEF InHand, TypeOK
    <3> QED
      BY <2>1, <2>3, <3>1 DEF GrowthInv, OldFits, Present
  <2>5. CASE pc # "sleep" /\ ~ hindered
    <3>1. /\ MaxLevel \notin first \cup returned
          /\ \A k \in first : k # 0 => Present(k)
          /\ \A k \in first \cap returned : k # file => Done(k)
          /\ SoFar
      BY <2>5 DEF GrowthInv
    <3>2. ASSUME NEW k \in Levels, k # MaxLevel, Done(k) PROVE Done(k)'
      <4>1. k + 1 \in Levels /\ k + 1 # 0
        BY <3>2, <2>2 DEF Levels
      <4> QED
        BY <2>1, <2>3, <3>2, <4>1 DEF Done, Agrees, Present
    <3>3. SoFar'
      <4>1. CASE pc \in InHand
        <5>1. file + 1 \in Levels /\ file + 1 # 0 /\ file \in Levels
          BY <1>0, <4>1, SidecarsAssumption DEF InHand, TypeOK
        <5>2. file \notin touched' => file \notin touched /\ file # 0
          BY <2>1
        <5> QED
          BY <2>1, <2>3, <3>1, <5>1, <5>2 DEF SoFar, Present, Agrees
      <4>2. CASE pc \notin InHand
        BY <2>1, <4>2 DEF SoFar, InHand
      <4> QED
        BY <4>1, <4>2
    <3> QED
      BY <2>1, <2>2, <2>3, <2>4, <2>5, <3>1, <3>2, <3>3 DEF GrowthInv, Present
  <2> QED
    BY <1>i, <2>1, <2>4, <2>5 DEF GrowthInv
<1>11. ASSUME NEW n \in Levels, RemoveSidecar(n) PROVE GrowthInv'
  <2>1. /\ UNCHANGED <<pc, returned, first, file, old>> /\ hindered'
        /\ content' = [content EXCEPT ![n + 1] = Absent]
    BY <1>11 DEF RemoveSidecar, buffers
  <2>2. OldFits'
    <3>1. pc \in {"hash", "hashing"} => file + 1 \in Levels
      BY <1>0 DEF InHand
    <3>2. content \in [Levels -> Contents \cup {Absent}]
      BY DEF TypeOK
    <3> QED
      BY <2>1, <3>1, <3>2 DEF GrowthInv, OldFits, Present
  <2> QED
    BY <1>h, <2>1, <2>2 DEF GrowthInv
<1>12. CASE UNCHANGED vars
  BY <1>12 DEF vars, dirp, buffers, GrowthInv, OldFits, SoFar, Done, Agrees, Present
<1> QED
  BY <1>1, <1>2, <1>3, <1>4, <1>5, <1>6, <1>7, <1>8, <1>9, <1>10, <1>11, <1>12 DEF Next

\* The longest name a sweep met has a sidecar that is new.
LEMMA GrowthShows ==
  ASSUME TypeOK, GrowthInv
  PROVE  GrowsEverySweep
<1> SUFFICES ASSUME SweepOver, ~ hindered PROVE GrowsEverySweep
  BY DEF GrowsEverySweep
<1>0. /\ pc = "readdir" /\ file = None /\ MaxLevel \in Nat /\ None \notin Levels
      /\ first \in SUBSET Levels
  BY SidecarsAssumption DEF SweepOver, TypeOK, InHand
<1>1. /\ MaxLevel \notin first
      /\ \A k \in first : k # 0 => Present(k)
      /\ \A k \in first \cap returned : Done(k)
  BY <1>0 DEF GrowthInv
<1>2. \A k \in first : k # 0 => k \in returned
  BY <1>1 DEF SweepOver
<1>3. ASSUME first \cap returned # {} PROVE \E k \in Levels \ first : Present(k)
  <2> DEFINE S == {n \in Nat : MaxLevel - n \in first \cap returned}
  <2>1. \A k \in first \cap returned : k \in 0..MaxLevel /\ MaxLevel - k \in S
    BY <1>0 DEF Levels
  <2>2. PICK n \in S : \A m \in S : n <= m
    BY <1>3, <2>1, Least
  <2>3. PICK k \in 0..MaxLevel : k = MaxLevel - n /\ k \in first \cap returned
    BY <1>0, <2>2 DEF Levels
  <2>4. \A j \in first \cap returned : j <= k
    BY <1>0, <2>1, <2>2, <2>3
  <2>5. k + 1 \in Levels /\ k + 1 # 0 /\ Present(k + 1)
    BY <1>0, <1>1, <2>3 DEF Levels, Done
  <2>6. k + 1 \notin first
    BY <1>2, <2>3, <2>4, <2>5
  <2> QED
    BY <2>5, <2>6
<1> QED
  BY <1>1, <1>3 DEF GrowsEverySweep, Done

\* Unless something failed, a file was in use or a sidecar was removed, every sweep leaves
\* each name it met with a sidecar that agrees with it, unless the name was written since,
\* and so adds a name: for any contents, versions of f and order of the directory
\* (filewatch.c:314-364).
THEOREM EverySweepGrows == Spec => []GrowsEverySweep
<1>1. Init => GrowthInv
  BY DEF Init, GrowthInv, OldFits
<1> QED
  BY <1>1, SidecarTypesInit, SidecarTypesNext, GrowthNext, GrowthShows, PTL DEF Spec

-----------------------------------------------------------------------------
(* The sidecars of sidecars: how often a name is handled.                  *)

\* The sidecar of name k does not tell of what it holds, or neither is there and readdir
\* may still return the name.
Stale(k) ==
  IF Present(k)
    THEN content[k + 1] # Digest[content[k]]
    ELSE pc # "sleep" /\ k \in first \ returned /\ content[k + 1] \in {Absent, Empty}

\* Name k may be handled once more without anything further happening to it.
Owed(k) ==
  IF file # k
    THEN Stale(k) \/ (pc = "flush" /\ k = file + 1)
    ELSE \/ pc \notin {"gen", "rehashing", "store", "flush"} /\ Stale(k)
         \/ pc = "readold" /\ content[k + 1] \in {Absent, Empty}
         \/ pc = "hashing" /\ \E d : Hashed(d) /\ d # content[k + 1]
         \/ pc = "lsof"
         \/ pc = "rehashing" /\ Present(k) /\ \E d : Hashed(d) /\ d # Digest[content[k]]
         \/ pc \in {"store", "flush"} /\ Present(k) /\ new # Digest[content[k]]
         \/ pc = "flush" /\ Present(k) /\ ~ Present(k + 1)

\* Name k - 1 is being handled and has not been stored yet.
Unsaved(k) == file = k - 1 /\ pc \in {"gen", "rehashing", "store"}

Limit(k) == IF k = 0 THEN ver ELSE IF Unsaved(k) THEN handled[k - 1] - 1 ELSE handled[k - 1]

Within(k) == (IF Owed(k) THEN handled[k] + 1 ELSE handled[k]) <= Limit(k) + mishaps[k]

CascadeInv ==
  /\ OldFits
  /\ pc \in InHand => file \in returned
  /\ handled[MaxLevel] = 0
  /\ \A k \in 0..(MaxLevel - 1) : Within(k)

\* What keeps a name within its limit.
LEMMA WithinIf ==
  ASSUME TypeOK, TypeOK', NEW k \in 0..(MaxLevel - 1), Within(k), handled'[k] = handled[k],
         k # 0 => handled'[k - 1] >= handled[k - 1],
         ver' >= ver, mishaps'[k] >= mishaps[k], Unsaved(k)' => Unsaved(k),
         \/ Owed(k)' => Owed(k)
         \/ mishaps'[k] > mishaps[k]
         \/ k = 0 /\ ver' > ver
         \/ k # 0 /\ Unsaved(k) /\ ~ Unsaved(k)'
  PROVE  Within(k)'
<1>1. /\ k \in Levels /\ (k # 0 => k - 1 \in Levels)
      /\ handled[k] \in Nat /\ mishaps[k] \in Nat /\ mishaps'[k] \in Nat
      /\ ver \in Nat /\ ver' \in Nat
      /\ k # 0 => handled[k - 1] \in Nat /\ handled'[k - 1] \in Nat
  <2>1. k \in Levels /\ (k # 0 => k - 1 \in Levels)
    BY SidecarsAssumption DEF Levels
  <2> QED
    BY <2>1 DEF TypeOK
<1> QED
  BY <1>1 DEF Within, Limit

\* Steps that write nothing.
LEMMA CascadeIfReading ==
  ASSUME TypeOK, TypeOK', CascadeInv, UNCHANGED <<content, ver, handled, dirp>>, OldFits',
         pc' # "flush", pc = "sleep" => pc' = "sleep",
         file' = file \/ file' = None,
         pc' \in {"gen", "rehashing", "store"} =>
           file' = file /\ pc \in {"gen", "rehashing", "store"},
         \A k \in Levels : mishaps'[k] >= mishaps[k],
         \A k \in Levels : file = k => (Owed(k)' => Owed(k)) \/ mishaps'[k] > mishaps[k]
  PROVE  CascadeInv'
<1>1. MaxLevel \in Nat \ {0} /\ None \notin Levels
  BY SidecarsAssumption
<1>2. ASSUME NEW k \in 0..(MaxLevel - 1) PROVE Within(k)'
  <2>1. Within(k) /\ k \in Levels /\ ver \in Nat /\ (k # 0 => handled[k - 1] \in Nat)
    <3>1. k \in Levels /\ (k # 0 => k - 1 \in Levels)
      BY <1>1 DEF Levels
    <3> QED
      BY <3>1 DEF CascadeInv, TypeOK
  <2>2. Unsaved(k)' => Unsaved(k)
    BY DEF Unsaved
  <2>3. Stale(k)' => Stale(k)
    BY DEF Stale, Present, dirp
  <2>4. (Owed(k)' => Owed(k)) \/ mishaps'[k] > mishaps[k]
    <3>1. CASE file = k
      BY <2>1, <3>1
    <3>2. CASE file # k
      <4>1. file' # k
        BY <1>1, <2>1, <3>2
      <4> QED
        BY <2>3, <3>2, <4>1 DEF Owed
    <3> QED
      BY <3>1, <3>2
  <2> QED
    BY <2>1, <2>2, <2>4, WithinIf
<1>3. pc' \in InHand => file' \in returned'
  <2>1. file' = file /\ pc' \in InHand => pc \in InHand
    BY <1>1 DEF TypeOK, Levels
  <2>2. file' = None => pc' \notin InHand
    BY <1>1 DEF TypeOK, Levels
  <2> QED
    BY <2>1, <2>2 DEF CascadeInv, dirp
<1> QED
  BY <1>2, <1>3 DEF CascadeInv

LEMMA CascadeInit == Init => CascadeInv
<1> SUFFICES ASSUME Init PROVE CascadeInv
  OBVIOUS
<1>1. PICK c \in Bodies : content = [k \in Levels |-> IF k = 0 THEN c ELSE Absent]
  BY DEF Init
<1>2. MaxLevel \in Nat \ {0} /\ MaxLevel \in Levels
  BY SidecarsAssumption DEF Levels
<1>3. ASSUME NEW k \in 0..(MaxLevel - 1) PROVE Within(k)
  <2>1. k \in Levels /\ k + 1 \in Levels /\ (k # 0 => k - 1 \in Levels) /\ file # k
    BY <1>2, SidecarsAssumption DEF Levels, Init
  <2>2. k # 0 => ~ Owed(k)
    BY <1>1, <2>1 DEF Owed, Stale, Present, Init
  <2> QED
    BY <2>1, <2>2 DEF Within, Limit, Unsaved, Init
<1> QED
  BY <1>2, <1>3 DEF CascadeInv, Init, OldFits, InHand

\* Steps at a sidecar that another name has touched.
LEMMA OwedElsewhere ==
  ASSUME TypeOK, NEW k \in 0..(MaxLevel - 1), file # k, file' = file,
         content'[k] = content[k], content'[k + 1] = content[k + 1], UNCHANGED <<returned, first>>,
         pc = "sleep" => pc' = "sleep",
         pc' # "flush" \/ k # file + 1 \/ pc = "flush"
  PROVE  Owed(k)' => Owed(k)
  BY DEF Owed, Stale, Present

LEMMA CascadeNext ==
  ASSUME TypeOK, TypeOK', CascadeInv, [Next]_vars
  PROVE  CascadeInv'
<1>0. pc \in InHand => /\ file \in Levels /\ file + 1 \in Levels /\ file \in Nat /\ file < MaxLevel
                       /\ file # file + 1
  BY InHandHasSidecar
<1>a. /\ MaxLevel \in Nat \ {0} /\ None \notin Levels /\ Absent \notin Contents /\ Empty \in Contents
      /\ Digest \in [Contents -> Contents \ {Empty}]
  BY SidecarsAssumption
<1>b. /\ handled \in [Levels -> Nat] /\ mishaps \in [Levels -> Nat]
      /\ content \in [Levels -> Contents \cup {Absent}] /\ held \in SUBSET Contents
      /\ returned \in SUBSET Levels /\ ver \in Nat
  BY DEF TypeOK
<1>c. ASSUME NEW k \in Levels, Mishap(k)
      PROVE  mishaps'[k] > mishaps[k] /\ \A n \in Levels : mishaps'[n] >= mishaps[n]
  BY <1>b, <1>c DEF Mishap
<1>d. mishaps' = mishaps => \A n \in Levels : mishaps'[n] >= mishaps[n]
  BY <1>b
<1>1. CASE ReadOldDigest
  <2>1. OldFits'
    BY <1>1 DEF ReadOldDigest, OldFits, Present
  <2>2. \A k \in Levels : file = k => (Owed(k)' => Owed(k))
    BY <1>1, <1>0, <1>a, <1>b DEF ReadOldDigest, Owed, Stale, Present, InHand, dirp
  <2> QED
    BY <1>1, <1>d, <2>1, <2>2, CascadeIfReading DEF ReadOldDigest
<1>2. CASE HashFile \/ GenMD5
  <2>1. OldFits'
    BY <1>2 DEF HashFile, GenMD5, OldFits, Present, CascadeInv
  <2>2. ASSUME NEW k \in Levels, file = k PROVE Owed(k)' => Owed(k)
    <3>1. held' = {content[k]} /\ UNCHANGED <<content, dirp, file>> /\ Present(k)
          /\ \/ pc = "hash" /\ pc' = "hashing"
             \/ pc = "gen" /\ pc' = "rehashing"
      BY <1>2, <2>2 DEF HashFile, GenMD5
    <3>2. ASSUME NEW d, Hashed(d)' PROVE d = Digest[content[k]]
      BY <3>1, <3>2 DEF Hashed
    <3> QED
      BY <2>2, <3>1, <3>2 DEF Owed, Stale, Present, dirp
  <2> QED
    BY <1>2, <1>d, <2>1, <2>2, CascadeIfReading DEF HashFile, GenMD5
<1>3. CASE HashFails \/ CheckOpenNotIdle \/ DoScript
  <2>1. \A k \in Levels : file = k => (Owed(k)' => Owed(k))
    BY <1>3, <1>a DEF HashFails, CheckOpenNotIdle, DoScript, Owed, Stale, Present, Continue, dirp
  <2> QED
    BY <1>3, <1>d, <2>1, CascadeIfReading DEF HashFails, CheckOpenNotIdle, DoScript, OldFits, Continue
<1>4. CASE Compare
  <2>1. PICK d \in Contents :
           /\ Hashed(d)
           /\ IF First[d] = First[old] THEN Continue ELSE pc' = "lsof" /\ file' = file
    BY <1>4 DEF Compare
  <2>2. ASSUME NEW k \in Levels, file = k PROVE Owed(k)' => Owed(k)
    <3>1. pc = "hashing" /\ UNCHANGED <<content, dirp>>
      BY <1>4 DEF Compare
    <3>2. CASE First[d] = First[old]
      BY <1>a, <2>1, <2>2, <3>1, <3>2 DEF Continue, Owed, Stale, Present, dirp
    <3>3. CASE First[d] # First[old]
      <4>1. d # old
        BY <3>3
      <4>2. CASE Present(k + 1)
        <5>1. d # content[k + 1]
          BY <2>2, <3>1, <4>1, <4>2 DEF CascadeInv, OldFits
        <5> QED
          BY <2>1, <2>2, <3>1, <5>1 DEF Owed
      <4>3. CASE ~ Present(k + 1)
        BY <1>a, <2>1, <2>2, <3>1, <4>3 DEF Owed, Present
      <4> QED
        BY <4>2, <4>3
    <3> QED
      BY <3>2, <3>3
  <2>3. pc = "hashing" /\ (file' = file \/ file' = None) /\ pc' \in {"readdir", "lsof"}
    BY <1>4, <2>1 DEF Compare, Continue
  <2> QED
    BY <1>4, <1>d, <2>2, <2>3, CascadeIfReading DEF Compare, OldFits
<1>5. CASE ReadOldFails
  <2>1. \A k \in Levels : file = k => mishaps'[k] > mishaps[k]
    BY <1>c, <1>5 DEF ReadOldFails
  <2>2. \A k \in Levels : mishaps'[k] >= mishaps[k]
    BY <1>0, <1>c, <1>5 DEF ReadOldFails, InHand
  <2> QED
    BY <1>5, <2>1, <2>2, CascadeIfReading DEF ReadOldFails, OldFits
<1>6. CASE GenMD5Fails
  <2>1. pc = "gen" /\ pc' = "script" /\ UNCHANGED <<content, dirp, file>> /\ file \in Levels
        /\ file \in returned
    BY <1>0, <1>6 DEF GenMD5Fails, InHand, CascadeInv
  <2>2. ASSUME NEW k \in Levels, file = k PROVE (Owed(k)' => Owed(k)) \/ mishaps'[k] > mishaps[k]
    <3>1. CASE Present(k)
      BY <1>6, <1>c, <2>2, <3>1 DEF GenMD5Fails
    <3>2. CASE ~ Present(k)
      BY <2>1, <2>2, <3>2 DEF Owed, Stale, Present, dirp
    <3> QED
      BY <3>1, <3>2
  <2>3. \A k \in Levels : mishaps'[k] >= mishaps[k]
    BY <1>c, <1>d, <1>6, <2>1 DEF GenMD5Fails
  <2> QED
    BY <1>6, <2>2, <2>3, CascadeIfReading DEF GenMD5Fails, OldFits
<1>7. CASE Rehashed
  <2>1. pc = "rehashing" /\ pc' = "store" /\ UNCHANGED <<content, dirp, file>>
    BY <1>7 DEF Rehashed
  <2>2. ASSUME NEW k \in Levels, file = k PROVE Owed(k)' => Owed(k)
    BY <1>7, <2>1, <2>2 DEF Rehashed, Owed, Present
  <2> QED
    BY <1>7, <1>d, <2>2, CascadeIfReading DEF Rehashed, OldFits
<1>8. CASE StoreFails
  <2>1. \A k \in Levels : file = k => mishaps'[k] > mishaps[k]
    BY <1>c, <1>8 DEF StoreFails
  <2>2. \A k \in Levels : mishaps'[k] >= mishaps[k]
    BY <1>0, <1>c, <1>8 DEF StoreFails, InHand
  <2> QED
    BY <1>8, <2>1, <2>2, CascadeIfReading DEF StoreFails, OldFits
<1>9. CASE Restart
  <2>1. ASSUME NEW k \in Levels, file = k PROVE (Owed(k)' => Owed(k)) \/ mishaps'[k] > mishaps[k]
    <3>1. CASE pc \in {"gen", "rehashing", "store", "flush"}
      BY <1>9, <1>c, <2>1, <3>1 DEF Restart
    <3>2. CASE pc \notin {"gen", "rehashing", "store", "flush"}
      BY <1>9, <1>a, <2>1, <3>2 DEF Restart, Owed, Stale, Present, dirp
    <3> QED
      BY <3>1, <3>2
  <2>2. \A k \in Levels : mishaps'[k] >= mishaps[k]
    BY <1>0, <1>c, <1>d, <1>9 DEF Restart, InHand
  <2> QED
    BY <1>9, <2>1, <2>2, CascadeIfReading DEF Restart, OldFits
<1>10. CASE CloseDir
  <2>1. \A k \in Levels : file = k => (Owed(k)' => Owed(k))
    BY <1>10, <1>a DEF CloseDir, SweepOver, TypeOK, InHand
  <2>2. pc = "readdir" /\ pc' = "sleep" /\ file' = file
    BY <1>10 DEF CloseDir, SweepOver
  <2> QED
    BY <1>10, <1>d, <2>1, <2>2, CascadeIfReading DEF CloseDir, OldFits
<1>11. CASE OpenDir
  <2>1. /\ pc = "sleep" /\ pc' = "readdir" /\ UNCHANGED <<content, file, ver, handled, mishaps>>
        /\ file \notin Levels /\ first' = {k \in Levels : Present(k)}
    BY <1>11, <1>a DEF OpenDir, TypeOK, InHand
  <2>2. ASSUME NEW k \in 0..(MaxLevel - 1) PROVE Within(k)'
    <3>1. k \in Levels /\ (k # 0 => k - 1 \in Levels)
      BY <1>a DEF Levels
    <3>2. Owed(k)' => Owed(k)
      BY <2>1, <3>1 DEF Owed, Stale, Present
    <3> QED
      BY <1>b, <2>1, <3>1, <3>2, WithinIf DEF CascadeInv, Unsaved
  <2> QED
    BY <2>1, <2>2 DEF CascadeInv, OldFits, InHand
<1>12. ASSUME NEW n \in Levels, ReadDir(n) PROVE CascadeInv'
  <2>1. /\ pc = "readdir" /\ pc' = "readold" /\ UNCHANGED <<content, ver, handled, mishaps, first>>
        /\ file \notin Levels /\ file' = n /\ n \notin returned /\ (n \in first \/ Present(n))
        /\ returned' = returned \cup {n}
    BY <1>12, <1>a DEF ReadDir, TypeOK, InHand
  <2>2. ASSUME NEW k \in 0..(MaxLevel - 1) PROVE Within(k)'
    <3>1. k \in Levels /\ k + 1 \in Levels /\ (k # 0 => k - 1 \in Levels)
      BY <1>a DEF Levels
    <3>2. CASE k = n
      <4>1. Owed(k)' => Owed(k)
        BY <1>a, <1>b, <2>1, <3>1, <3>2 DEF Owed, Stale, Present
      <4> QED
        BY <1>b, <2>1, <3>1, <4>1, WithinIf DEF CascadeInv, Unsaved
    <3>3. CASE k # n
      <4>1. Owed(k)' => Owed(k)
        BY <2>1, <3>1, <3>3 DEF Owed, Stale, Present
      <4> QED
        BY <1>b, <2>1, <3>1, <4>1, WithinIf DEF CascadeInv, Unsaved
    <3> QED
      BY <3>2, <3>3
  <2> QED
    BY <2>1, <2>2 DEF CascadeInv, OldFits
<1>13. CASE CheckOpenIdle
  <2>1. /\ pc = "lsof" /\ pc' = "gen" /\ UNCHANGED <<content, dirp, file, ver, mishaps>>
        /\ handled' = [handled EXCEPT ![file] = @ + 1] /\ file \in Levels /\ file < MaxLevel
        /\ file \in returned
    BY <1>0, <1>13 DEF CheckOpenIdle, CascadeInv, InHand
  <2>2. ASSUME NEW k \in 0..(MaxLevel - 1) PROVE Within(k)'
    <3>1. k \in Levels /\ k + 1 \in Levels /\ (k # 0 => k - 1 \in Levels) /\ Within(k)
      BY <1>a DEF Levels, CascadeInv
    <3>2. CASE k = file
      <4>1. Owed(k) /\ ~ Owed(k)' /\ ~ Unsaved(k) /\ ~ Unsaved(k)'
        BY <2>1, <3>1, <3>2 DEF Owed, Unsaved
      <4>2. handled'[k] = handled[k] + 1 /\ (k # 0 => handled'[k - 1] = handled[k - 1])
        BY <1>b, <2>1, <3>1, <3>2
      <4> QED
        <5>1. Limit(k)' = Limit(k) /\ Limit(k) \in Int
          BY <1>b, <2>1, <3>1, <4>1, <4>2 DEF Limit
        <5> QED
          BY <1>b, <2>1, <3>1, <4>1, <4>2, <5>1 DEF Within
    <3>3. CASE k = file + 1
      <4>1. (Owed(k)' => Owed(k)) /\ ~ Unsaved(k) /\ Unsaved(k)' /\ k # 0 /\ k - 1 = file
        BY <1>0, <2>1, <3>1, <3>3 DEF Owed, Unsaved, Stale, Present, dirp, Levels, InHand
      <4>2. handled'[k] = handled[k] /\ handled'[k - 1] = handled[k - 1] + 1
        BY <1>b, <2>1, <3>1, <4>1
      <4>3. Limit(k)' = Limit(k) /\ Limit(k) \in Int
        BY <1>b, <2>1, <3>1, <4>1, <4>2 DEF Limit
      <4> QED
        BY <1>b, <2>1, <3>1, <4>1, <4>2, <4>3 DEF Within
    <3>4. CASE k # file /\ k # file + 1
      <4>1. (Owed(k)' => Owed(k)) /\ Unsaved(k)' = Unsaved(k)
        BY <1>0, <2>1, <3>1, <3>4 DEF Owed, Unsaved, Stale, Present, dirp, Levels, InHand
      <4>2. handled'[k] = handled[k] /\ (k # 0 => handled'[k - 1] = handled[k - 1])
        BY <1>0, <1>b, <2>1, <3>1, <3>4 DEF InHand
      <4> QED
        BY <1>b, <2>1, <3>1, <4>1, <4>2, WithinIf
    <3> QED
      BY <3>2, <3>3, <3>4
  <2>3. handled'[MaxLevel] = 0
    BY <1>a, <1>b, <2>1 DEF CascadeInv, Levels
  <2> QED
    BY <2>1, <2>2, <2>3 DEF CascadeInv, OldFits, dirp
<1>14. CASE TruncateSidecar \/ FlushSidecar
  <2>1. /\ pc \in {"store", "flush"} /\ UNCHANGED <<returned, first, file, ver, handled, mishaps>>
        /\ file \in Levels /\ file + 1 \in Levels /\ file # file + 1 /\ file \in returned
        /\ \E x : content' = [content EXCEPT ![file + 1] = x]
        /\ pc' \in {"flush", "script"} /\ (pc' = "flush" => pc = "store")
    BY <1>0, <1>14 DEF TruncateSidecar, FlushSidecar, CascadeInv, InHand, dirp
  <2>2. ASSUME NEW k \in 0..(MaxLevel - 1) PROVE Within(k)'
    <3>1. k \in Levels /\ k + 1 \in Levels /\ (k # 0 => k - 1 \in Levels) /\ Within(k)
          /\ (Unsaved(k)' => Unsaved(k))
      BY <1>a, <2>1 DEF Levels, CascadeInv, Unsaved
    <3>2. CASE k = file
      <4>1. content'[k] = content[k]
        BY <1>b, <2>1, <3>2
      <4>2. CASE TruncateSidecar
        <5>1. Present(k + 1)' /\ new' = new /\ pc = "store" /\ pc' = "flush"
          BY <1>a, <1>b, <2>1, <3>2, <4>2 DEF TruncateSidecar, Present, buffers
        <5> QED
          BY <1>b, <2>1, <3>1, <3>2, <4>1, <5>1, WithinIf DEF Owed, Present
      <4>3. CASE FlushSidecar
        <5>1. content'[k + 1] = (IF Present(k + 1) THEN new ELSE Absent) /\ pc = "flush" /\ pc' = "script"
          BY <1>b, <2>1, <3>2, <4>3 DEF FlushSidecar, Present
        <5>2. Owed(k)' => Owed(k)
          BY <2>1, <3>2, <4>1, <5>1 DEF Owed, Stale, Present
        <5> QED
          BY <1>b, <2>1, <3>1, <5>2, WithinIf
      <4> QED
        BY <1>14, <4>2, <4>3
    <3>3. CASE k = file + 1
      <4>1. k # 0 /\ k - 1 = file
        BY <1>0, <2>1, <3>3 DEF Levels, InHand
      <4>2. CASE pc = "store"
        <5>1. Unsaved(k) /\ ~ Unsaved(k)'
          BY <1>14, <2>1, <4>1, <4>2 DEF Unsaved, TruncateSidecar, FlushSidecar
        <5> QED
          BY <1>b, <2>1, <3>1, <4>1, <5>1, WithinIf
      <4>3. CASE pc = "flush"
        BY <1>b, <2>1, <3>1, <3>3, <4>3, WithinIf DEF Owed
      <4> QED
        BY <2>1, <4>2, <4>3
    <3>4. CASE k # file /\ k # file + 1
      <4>1. content'[k] = content[k] /\ content'[k + 1] = content[k + 1]
        BY <1>0, <1>b, <2>1, <3>1, <3>4 DEF InHand
      <4>2. Owed(k)' => Owed(k)
        BY <2>1, <3>4, <4>1, OwedElsewhere
      <4> QED
        BY <1>b, <2>1, <3>1, <4>2, WithinIf
    <3> QED
      BY <3>2, <3>3, <3>4
  <2> QED
    BY <2>1, <2>2 DEF CascadeInv, OldFits
<1>15. ASSUME NEW c \in Bodies, Change(c) PROVE CascadeInv'
  <2>1. /\ UNCHANGED <<pc, returned, first, file, old, new, handled, mishaps>> /\ ver' = ver + 1
        /\ content' = [content EXCEPT ![0] = c] /\ 0 \in Levels /\ (file = 0 \/ held' = held)
    BY <1>15, <1>a DEF Change, Levels
  <2>2. ASSUME NEW k \in 0..(MaxLevel - 1) PROVE Within(k)'
    <3>1. k \in Levels /\ k + 1 \in Levels /\ k + 1 # 0 /\ (k # 0 => k - 1 \in Levels) /\ Within(k)
          /\ (Unsaved(k)' => Unsaved(k))
      BY <1>a, <2>1 DEF Levels, CascadeInv, Unsaved
    <3>2. CASE k = 0
      BY <1>b, <2>1, <3>1, <3>2, WithinIf
    <3>3. CASE k # 0
      <4>1. content'[k] = content[k] /\ content'[k + 1] = content[k + 1]
        BY <1>b, <2>1, <3>1, <3>3
      <4>2. file = k => held' = held
        BY <2>1, <3>3
      <4>3. Owed(k)' => Owed(k)
        BY <2>1, <4>1, <4>2 DEF Owed, Stale, Present, Hashed
      <4> QED
        BY <1>b, <2>1, <3>1, <4>3, WithinIf
    <3> QED
      BY <3>2, <3>3
  <2>3. OldFits'
    <3>1. pc \in {"hash", "hashing"} => file + 1 \in Levels /\ file + 1 # 0
      BY <1>0, <1>a DEF InHand, Levels
    <3> QED
      BY <1>b, <2>1, <3>1 DEF CascadeInv, OldFits, Present
  <2> QED
    BY <2>1, <2>2, <2>3 DEF CascadeInv
<1>16. ASSUME NEW n \in Levels, RemoveSidecar(n) PROVE CascadeInv'
  <2>1. /\ UNCHANGED <<pc, returned, first, file, old, new, held, handled, ver>>
        /\ content' = [content EXCEPT ![n + 1] = Absent] /\ n + 1 \in Levels /\ Present(n + 1)
        /\ mishaps'[n] > mishaps[n] /\ \A k \in Levels : mishaps'[k] >= mishaps[k]
        /\ n \in Nat
    BY <1>16, <1>a, <1>c DEF RemoveSidecar, Levels, buffers
  <2>2. ASSUME NEW k \in 0..(MaxLevel - 1) PROVE Within(k)'
    <3>1. k \in Levels /\ k + 1 \in Levels /\ (k # 0 => k - 1 \in Levels) /\ Within(k)
          /\ (Unsaved(k)' => Unsaved(k))
      BY <1>a, <2>1 DEF Levels, CascadeInv, Unsaved
    <3>2. CASE k = n
      BY <1>b, <2>1, <3>1, <3>2, WithinIf
    <3>3. CASE k = n + 1
      <4>1. content'[k] = Absent /\ content'[k + 1] = content[k + 1] /\ Present(k)
            /\ content[k] \in Contents
        BY <1>b, <2>1, <3>1, <3>3 DEF Present
      <4>2. content[k + 1] \in {Absent, Empty} => content[k + 1] # Digest[content[k]]
        BY <1>a, <4>1
      <4>3. file = k => file \in returned
        <5>1. file = k => pc \in InHand
          BY <1>a, <3>1 DEF TypeOK
        <5> QED
          BY <5>1 DEF CascadeInv
      <4>4. CASE file # k
        BY <1>b, <2>1, <3>1, <4>1, <4>2, <4>4, WithinIf DEF Owed, Stale, Present
      <4>5. CASE file = k
        <5>1. Owed(k)' => Owed(k)
          BY <2>1, <4>1, <4>2, <4>3, <4>5 DEF Owed, Stale, Present, Hashed
        <5> QED
          BY <1>b, <2>1, <3>1, <5>1, WithinIf
      <4> QED
        BY <4>4, <4>5
    <3>4. CASE k # n /\ k # n + 1
      <4>1. content'[k] = content[k] /\ content'[k + 1] = content[k + 1]
        BY <1>b, <2>1, <3>1, <3>4
      <4>2. Owed(k)' => Owed(k)
        BY <2>1, <4>1 DEF Owed, Stale, Present, Hashed
      <4> QED
        BY <1>b, <2>1, <3>1, <4>2, WithinIf
    <3> QED
      BY <3>2, <3>3, <3>4
  <2>3. OldFits'
    <3>1. pc \in {"hash", "hashing"} => file + 1 \in Levels
      BY <1>0 DEF InHand
    <3> QED
      BY <1>b, <2>1, <3>1 DEF CascadeInv, OldFits, Present
  <2> QED
    BY <2>1, <2>2, <2>3 DEF CascadeInv
<1>17. CASE UNCHANGED vars
  <2>1. UNCHANGED <<content, ver, pc, file, old, new, held, returned, first, handled, mishaps>>
    BY <1>17 DEF vars, dirp, buffers
  <2>2. ASSUME NEW k \in 0..(MaxLevel - 1) PROVE Within(k)'
    <3>1. (Owed(k)' <=> Owed(k)) /\ (Unsaved(k)' <=> Unsaved(k))
      BY <2>1 DEF Owed, Stale, Hashed, Present, Unsaved
    <3> QED
      BY <2>1, <3>1 DEF CascadeInv, Within, Limit
  <2> QED
    BY <2>1, <2>2 DEF CascadeInv, OldFits, Present
<1> QED
  BY <1>1, <1>2, <1>3, <1>4, <1>5, <1>6, <1>7, <1>8, <1>9, <1>10, <1>11, <1>12, <1>13, <1>14,
     <1>15, <1>16, <1>17 DEF Next

LEMMA CascadeShows ==
  ASSUME TypeOK, CascadeInv
  PROVE  CascadeBounded
<1> SUFFICES ASSUME NEW k \in Levels
             PROVE  handled[k] <= (IF k = 0 THEN ver ELSE handled[k - 1]) + mishaps[k]
  BY DEF CascadeBounded
<1>1. /\ MaxLevel \in Nat \ {0} /\ k \in 0..MaxLevel /\ handled[k] \in Nat /\ mishaps[k] \in Nat
      /\ ver \in Nat /\ (k # 0 => handled[k - 1] \in Nat)
  <2>1. MaxLevel \in Nat \ {0} /\ k \in 0..MaxLevel /\ (k # 0 => k - 1 \in Levels)
    BY SidecarsAssumption DEF Levels
  <2> QED
    BY <2>1 DEF TypeOK
<1>2. CASE k = MaxLevel
  BY <1>1, <1>2 DEF CascadeInv
<1>3. CASE k # MaxLevel
  <2>1. Within(k)
    BY <1>1, <1>3 DEF CascadeInv
  <2> QED
    BY <1>1, <2>1 DEF Within, Limit
<1> QED
  BY <1>2, <1>3

\* f is handled no more often than it has had versions and a longer name no more often
\* than the next shorter one, apart from what failed or was removed while it was handled:
\* for any contents, number of names and order of the directory (filewatch.c:341-359).
THEOREM CascadesAreBounded == Spec => []CascadeBounded
  BY SidecarTypesInit, SidecarTypesNext, CascadeInit, CascadeNext, CascadeShows, PTL DEF Spec

-----------------------------------------------------------------------------
(* main: what its output is written to.                                    *)

Objs == {"free", "terminal", "socket", "dir", "pipe", "file"}

LEMMA LowestIsFree ==
  ASSUME MaxFd \in Int, NEW f \in [0..MaxFd -> Objs], M!FreeIn(f) # {}
  PROVE  /\ M!Lowest(f) \in 0..MaxFd /\ f[M!Lowest(f)] = "free"
         /\ \A m \in 0..(M!Lowest(f) - 1) : f[m] # "free"
<1>1. M!FreeIn(f) \in SUBSET Nat
  BY DEF M!FreeIn
<1>2. PICK n \in M!FreeIn(f) : \A m \in M!FreeIn(f) : n <= m
  BY <1>1, Least
<1>3. n \in 0..MaxFd /\ f[n] = "free" /\ \A m \in 0..(n - 1) : f[m] # "free"
  BY <1>2 DEF M!FreeIn
<1> QED
  BY <1>3 DEF M!Lowest

\* What main has open where: the socket of the log in 3, for it is opened while the three
\* standard descriptors are; a directory while it is scanned, a sidecar while it is
\* written; and the terminal in 0 to 2 unless it is a daemon.
OpenInv ==
  /\ fds \in [0..MaxFd -> Objs]
  /\ pc = "start" => fds = [n \in 0..MaxFd |-> IF n < 3 THEN "terminal" ELSE "free"]
  /\ fds[3] = "socket" \/ pc \in {"start", "exited"}
  /\ \A n \in 0..MaxFd : /\ fds[n] = "socket" => n = 3
                         /\ fds[n] = "dir" => pc \in {"scan", "store"}
                         /\ fds[n] = "file" => pc = "store"
  /\ config.daemon # 1 => /\ pc \notin {"fork", "setsid", "chdir", "close"}
                          /\ \A n \in 0..2 : fds[n] = "terminal"
  /\ M!OutputStaysOut

\* A step of a behaviour that is main's or the reader's
LEMMA StartupSteps ==
  part' = "startup" /\ [PartNext]_<<part, pc, cascade, startup, ini>>
    => part = "startup" /\ [M!Next]_M!vars
  BY DEF PartNext, startup, M!vars, M!process

LEMMA IniSteps ==
  part' = "ini" /\ [PartNext]_<<part, pc, cascade, startup, ini>>
    => part = "ini" /\ [Reader!Next]_Reader!vars
  BY DEF PartNext, ini, Reader!vars

LEMMA OpenInit == M!ConfigsAssumption /\ M!Init => OpenInv
<1> SUFFICES ASSUME M!ConfigsAssumption, M!Init PROVE OpenInv
  OBVIOUS
<1>1. MaxFd \in Int /\ MaxFd >= 6
  BY DEF M!ConfigsAssumption
<1>2. fds = [n \in 0..MaxFd |-> IF n < 3 THEN "terminal" ELSE "free"]
  BY DEF M!Init
<1>3. fds \in [0..MaxFd -> Objs]
  BY <1>2 DEF Objs
<1> QED
  BY <1>1, <1>2, <1>3 DEF M!Init, OpenInv, M!OutputStaysOut

\* Opening something where a descriptor is free
LEMMA OpenedOne ==
  ASSUME MaxFd >= 6, MaxFd \in Int, NEW obj \in Objs, fds \in [0..MaxFd -> Objs], M!FreeIn(fds) # {}
  PROVE  \E l \in 0..MaxFd :
           /\ fds[l] = "free" /\ M!With(fds, obj) = [fds EXCEPT ![l] = obj]
           /\ M!With(fds, obj) \in [0..MaxFd -> Objs]
           /\ M!With(fds, obj)[l] = obj
           /\ \A n \in 0..MaxFd : n # l => M!With(fds, obj)[n] = fds[n]
  BY LowestIsFree DEF M!With

LEMMA OpenNext ==
  ASSUME M!ConfigsAssumption, OpenInv, [M!Next]_M!vars
  PROVE  OpenInv'
<1> USE DEF OpenInv, M!OutputStaysOut, M!Outputs, M!LogsTo
<1>0. MaxFd \in Int /\ MaxFd >= 6
  BY DEF M!ConfigsAssumption
<1>1. CASE M!ReadConfig
  <2>1. CASE config.readable
    <3>1. fds[0] # "free" /\ fds[1] # "free" /\ fds[2] # "free" /\ fds[3] = "free"
      BY <1>0, <1>1 DEF M!ReadConfig
    <3>5. M!FreeIn(fds) # {}
      BY <1>0, <3>1 DEF M!FreeIn
    <3>2. M!Lowest(fds) = 3
      <4>1. /\ M!Lowest(fds) \in 0..MaxFd /\ fds[M!Lowest(fds)] = "free"
            /\ \A m \in 0..(M!Lowest(fds) - 1) : fds[m] # "free"
        BY <1>0, <3>5, LowestIsFree
      <4> QED
        BY <1>0, <3>1, <4>1
    <3>3. fds' = [fds EXCEPT ![3] = "socket"]
      BY <1>1, <2>1, <3>2 DEF M!ReadConfig, M!With
    <3> QED
      BY <1>0, <1>1, <2>1, <3>1, <3>3 DEF M!ReadConfig, Objs, M!process
  <2>2. CASE ~ config.readable
    BY <1>0, <1>1, <2>2 DEF M!ReadConfig, M!process
  <2> QED
    BY <2>1, <2>2
<1>2. CASE M!Fork \/ M!DaemonFails \/ M!SetSid \/ M!ChDir
  BY <1>0, <1>2 DEF M!Fork, M!DaemonFails, M!SetSid, M!ChDir, M!process
<1>3. CASE M!CloseStandard
  BY <1>0, <1>3 DEF M!CloseStandard, M!process, Objs
<1>4. CASE M!BeginSweep \/ M!LookUp \/ M!OpenDirFails \/ M!UseJunk \/ M!EndSweep
  BY <1>0, <1>4 DEF M!BeginSweep, M!LookUp, M!OpenDirFails, M!UseJunk, M!EndSweep,
                     M!NextFolder, M!process
<1>5. CASE M!OpenDir
  <2>2. M!FreeIn(fds) # {} /\ fds' = M!With(fds, "dir") /\ "dir" \in Objs
    BY <1>5 DEF M!OpenDir, Objs
  <2>1. PICK l \in 0..MaxFd :
           /\ fds[l] = "free" /\ fds' \in [0..MaxFd -> Objs] /\ fds'[l] = "dir"
           /\ \A n \in 0..MaxFd : n # l => fds'[n] = fds[n]
    <3> HIDE DEF OpenInv
    <3>1. fds \in [0..MaxFd -> Objs]
      BY DEF OpenInv
    <3> QED
      BY <1>0, <2>2, <3>1, OpenedOne
  <2> QED
    BY <1>0, <1>5, <2>1 DEF M!OpenDir, M!process
<1>6. CASE M!ScanBusy
  <2>2. M!FreeIn(fds) # {} /\ fds' = M!With(fds, "pipe") /\ "pipe" \in Objs
    BY <1>6 DEF M!ScanBusy, Objs
  <2>1. PICK l \in 0..MaxFd :
           /\ fds[l] = "free" /\ fds' \in [0..MaxFd -> Objs] /\ fds'[l] = "pipe"
           /\ \A n \in 0..MaxFd : n # l => fds'[n] = fds[n]
    <3> HIDE DEF OpenInv
    <3>1. fds \in [0..MaxFd -> Objs]
      BY DEF OpenInv
    <3> QED
      BY <1>0, <2>2, <3>1, OpenedOne
  <2> QED
    BY <1>0, <1>6, <2>1 DEF M!ScanBusy, M!process
<1>7. CASE M!OpenSidecar
  <2>1. PICK l \in 0..MaxFd :
           /\ fds[l] = "free" /\ fds' \in [0..MaxFd -> Objs] /\ fds'[l] = "file"
           /\ \A n \in 0..MaxFd : n # l => fds'[n] = fds[n]
    BY <1>0, <1>7, OpenedOne DEF M!OpenSidecar, Objs
  <2> QED
    BY <1>0, <1>7, <2>1 DEF M!OpenSidecar, M!process
<1>8. CASE M!CloseSidecar \/ M!CloseDir
  <2>1. fds' \in [0..MaxFd -> Objs] /\ fds[3] = "socket" /\ config' = config
    BY <1>0, <1>8 DEF M!CloseSidecar, M!CloseDir, M!Closed, M!process, Objs
  <2>2. CASE M!CloseSidecar
    <3>1. \A n \in 0..MaxFd : fds'[n] = IF fds[n] = "file" THEN "free" ELSE fds[n]
      BY <2>2 DEF M!CloseSidecar, M!Closed
    <3>2. fds'[3] = "socket" /\ fds'[1] = IF fds[1] = "file" THEN "free" ELSE fds[1]
      BY <1>0, <2>1, <3>1, <2>2 DEF M!CloseSidecar
    <3>3. M!OutputStaysOut'
      BY <1>0, <2>1, <2>2, <3>1, <3>2 DEF M!CloseSidecar
    <3> QED
      BY <1>0, <2>1, <2>2, <3>1, <3>2, <3>3 DEF M!CloseSidecar
  <2>3. CASE M!CloseDir
    BY <1>0, <2>1, <2>3 DEF M!CloseDir, M!Closed, M!NextFolder, M!process
  <2> QED
    BY <1>8, <2>2, <2>3
<1>9. CASE UNCHANGED M!vars
  BY <1>9 DEF M!vars, M!process
<1> QED
  BY <1>1, <1>2, <1>3, <1>4, <1>5, <1>6, <1>7, <1>8, <1>9 DEF M!Next, M!Daemonise, M!Sweep

\* What a daemon prints never lands in a directory stream, a sidecar or the log's socket,
\* though it has closed descriptors 0 to 2 and they are whatever it opens next: for every
\* list of configurations and number of descriptors (filewatch.c:139-176).
THEOREM OutputOfADaemon == PartSpec => []OutputStaysOut
<1> DEFINE Inv == part = "startup" => OpenInv
<1>1. PartInit => Inv
  BY PartsAssumption, OpenInit DEF PartInit
<1>2. Inv /\ [PartNext]_<<part, pc, cascade, startup, ini>> => Inv'
  BY PartsAssumption, OpenNext, StartupSteps
<1>3. Inv => OutputStaysOut
  BY DEF OpenInv, OutputStaysOut
<1> QED
  BY <1>1, <1>2, <1>3, PTL DEF PartSpec

-----------------------------------------------------------------------------
(* main: whose strings a folder is scanned with.                           *)

Working == {"opendir", "scan", "store"}

L == Len(config.folders)

\* What the strings are once folder k has been looked up.
After(k, x) == IF config.folders[k][x] # Missing THEN config.folders[k][x]
               ELSE M!Nearest(M!Before(k), x)

\* Nearest, for the folders given.
NearestIn(folders, b, x) ==
  LET has == {n \in DOMAIN b : folders[b[n]][x] # Missing}
  IN  IF has = {} THEN Junk
      ELSE folders[b[CHOOSE n \in has : \A m \in has : n <= m]][x]

LEMMA NearestIsIn == \A b, x : M!Nearest(b, x) = NearestIn(config.folders, b, x)
  BY DEF M!Nearest, NearestIn

\* v is string x of the first of b's folders that has it.
IsNearest(b, l, x, v) ==
  \/ v = Junk /\ \A n \in 1..l : config.folders[b[n]][x] = Missing
  \/ \E n \in 1..l : /\ config.folders[b[n]][x] # Missing /\ v = config.folders[b[n]][x]
                     /\ \A m \in 1..l : config.folders[b[m]][x] # Missing => n <= m

LEMMA NearestIs ==
  ASSUME NEW l \in Nat, NEW b, DOMAIN b = 1..l, NEW x
  PROVE  IsNearest(b, l, x, M!Nearest(b, x))
<1> DEFINE has == {n \in DOMAIN b : config.folders[b[n]][x] # Missing}
<1>1. CASE has = {}
  BY <1>1 DEF M!Nearest, IsNearest
<1>2. CASE has # {}
  <2>1. has \in SUBSET Nat
    OBVIOUS
  <2>2. \E n \in has : \A m \in has : n <= m
    BY <1>2, <2>1, Least
  <2> DEFINE least == CHOOSE n \in has : \A m \in has : n <= m
  <2>3. least \in has /\ \A m \in has : least <= m
    BY <2>2
  <2>4. M!Nearest(b, x) = config.folders[b[least]][x]
    BY <1>2 DEF M!Nearest
  <2> QED
    BY <2>3, <2>4 DEF IsNearest
<1> QED
  BY <1>1, <1>2

\* There is but one.
LEMMA OneNearest ==
  ASSUME NEW l \in Nat, NEW b, NEW x, NEW v, NEW w, IsNearest(b, l, x, v), IsNearest(b, l, x, w)
  PROVE  v = w
<1> USE DEF IsNearest
<1>1. CASE \A n \in 1..l : config.folders[b[n]][x] = Missing
  BY <1>1
<1>2. CASE ~ \A n \in 1..l : config.folders[b[n]][x] = Missing
  <2>1. PICK n \in 1..l : /\ config.folders[b[n]][x] # Missing /\ v = config.folders[b[n]][x]
                          /\ \A m \in 1..l : config.folders[b[m]][x] # Missing => n <= m
    BY <1>2
  <2>2. PICK n2 \in 1..l : /\ config.folders[b[n2]][x] # Missing /\ w = config.folders[b[n2]][x]
                          /\ \A m \in 1..l : config.folders[b[m]][x] # Missing => n2 <= m
    BY <1>2
  <2>3. n = n2
    BY <2>1, <2>2
  <2> QED
    BY <2>1, <2>2, <2>3
<1> QED
  BY <1>1, <1>2

\* c is k put before b; what that pushes off the end is k again.
Pushed(b, lb, c, lc, k) ==
  /\ lb \in Nat /\ lc \in Nat /\ lc >= 1 /\ lc <= lb + 1
  /\ DOMAIN b = 1..lb /\ DOMAIN c = 1..lc /\ c[1] = k
  /\ \A n \in 1..lb : n + 1 <= lc => c[n + 1] = b[n]
  /\ \A n \in 1..lb : n + 1 > lc => b[n] = k

\* The nearest is then k if it has the string, and the one of b if not.
LEMMA NearestShifts ==
  ASSUME NEW lb, NEW lc, NEW b, NEW c, NEW k, NEW x, Pushed(b, lb, c, lc, k)
  PROVE  M!Nearest(c, x) = IF config.folders[k][x] # Missing THEN config.folders[k][x]
                         ELSE M!Nearest(b, x)
<1>0. /\ lb \in Nat /\ lc \in Nat /\ lc >= 1 /\ lc <= lb + 1
      /\ DOMAIN b = 1..lb /\ DOMAIN c = 1..lc /\ c[1] = k
      /\ \A n \in 1..lb : n + 1 <= lc => c[n + 1] = b[n]
      /\ \A n \in 1..lb : n + 1 > lc => b[n] = k
  BY DEF Pushed
<1> DEFINE w == IF config.folders[k][x] # Missing THEN config.folders[k][x] ELSE M!Nearest(b, x)
<1>1. IsNearest(c, lc, x, M!Nearest(c, x)) /\ IsNearest(b, lb, x, M!Nearest(b, x))
  BY <1>0, NearestIs
<1>2. IsNearest(c, lc, x, w)
  <2>1. CASE config.folders[k][x] # Missing
    BY <1>0, <2>1 DEF IsNearest
  <2>2. CASE config.folders[k][x] = Missing
    <3> HIDE DEF w
    <3>1. ASSUME NEW n \in 1..lc, n # 1 PROVE n - 1 \in 1..lb /\ c[n] = b[n - 1]
      <4>1. n - 1 \in 1..lb /\ (n - 1) + 1 = n
        BY <1>0, <3>1
      <4> QED
        BY <1>0, <4>1
    <3>2. w = M!Nearest(b, x)
      BY <2>2 DEF w
    <3>3. CASE w = Junk /\ \A n \in 1..lb : config.folders[b[n]][x] = Missing
      BY <1>0, <2>2, <3>1, <3>3 DEF IsNearest
    <3>4. ASSUME NEW n \in 1..lb, config.folders[b[n]][x] # Missing, w = config.folders[b[n]][x],
                 \A m \in 1..lb : config.folders[b[m]][x] # Missing => n <= m
          PROVE  IsNearest(c, lc, x, w)
      <4>1. n + 1 \in 1..lc /\ c[n + 1] = b[n]
        BY <1>0, <2>2, <3>4
      <4>2. ASSUME NEW m \in 1..lc, config.folders[c[m]][x] # Missing PROVE n + 1 <= m
        <5>1. m # 1
          BY <1>0, <2>2, <4>2
        <5>2. m - 1 \in 1..lb /\ c[m] = b[m - 1]
          BY <3>1, <5>1
        <5>3. n <= m - 1
          BY <3>4, <4>2, <5>2
        <5> QED
          BY <1>0, <5>3
      <4> QED
        BY <1>0, <3>4, <4>1, <4>2 DEF IsNearest
    <3> QED
      BY <1>0, <1>1, <3>2, <3>3, <3>4 DEF IsNearest
  <2> QED
    BY <2>1, <2>2
<1> HIDE DEF w
<1>3. M!Nearest(c, x) = w
  BY <1>0, <1>1, <1>2, OneNearest
<1> QED
  BY <1>3 DEF w

\* Where the remainder puts them.
LEMMA BeforeIs ==
  ASSUME config.folders \in Seq([M!Fields -> STRING]), NEW k \in 1..L, sweeps \in Nat
  PROVE  /\ DOMAIN M!Before(k) = 1..(IF sweeps = 0 THEN k - 1 ELSE L)
         /\ M!Before(k) \in [1..(IF sweeps = 0 THEN k - 1 ELSE L) -> Int]
         /\ \A n \in DOMAIN M!Before(k) : M!Before(k)[n] = IF n < k THEN k - n ELSE k - n + L
<1>1. L \in Nat /\ L > 0
  BY DEF L
<1>2. ASSUME NEW n \in 1..L PROVE ((k - n - 1) % L) + 1 = IF n < k THEN k - n ELSE k - n + L
  <2>1. CASE n < k
    BY <1>1, <1>2, <2>1
  <2>2. CASE n >= k
    BY <1>1, <1>2, <2>2
  <2> QED
    BY <2>1, <2>2
<1>3. DOMAIN M!Before(k) = 1..(IF sweeps = 0 THEN k - 1 ELSE L)
  BY DEF M!Before, L
<1>4. ASSUME NEW n \in DOMAIN M!Before(k)
      PROVE  n \in 1..L /\ M!Before(k)[n] = ((k - n - 1) % L) + 1
  <2>1. n \in 1..L
    BY <1>1, <1>3
  <2> QED
    BY <1>3, <2>1 DEF M!Before, L
<1>5. M!Before(k) \in [1..(IF sweeps = 0 THEN k - 1 ELSE L) -> Int]
  BY <1>1 DEF M!Before, L
<1> QED
  BY <1>2, <1>3, <1>4, <1>5

\* What a folder leaves is what the next one finds.
LEMMA FolderAfter ==
  ASSUME config.folders \in Seq([M!Fields -> STRING]), sweeps \in Nat,
         NEW k \in 1..L, k + 1 \in 1..L, NEW x
  PROVE  M!Nearest(M!Before(k + 1), x) = After(k, x)
<1>1. L \in Nat /\ k \in Nat
  BY DEF L
<1> DEFINE lb == IF sweeps = 0 THEN k - 1 ELSE L
           lc == IF sweeps = 0 THEN k ELSE L
<1>2. lb \in Nat /\ lc \in Nat /\ lc >= 1 /\ lc <= lb + 1
  BY <1>1
<1>3. PICK b : b = M!Before(k)
  OBVIOUS
<1>4. PICK c : c = M!Before(k + 1)
  OBVIOUS
<1>5. DOMAIN b = 1..lb /\ \A n \in 1..lb : b[n] = IF n < k THEN k - n ELSE k - n + L
  BY <1>3, BeforeIs
<1>6. PICK j \in 1..L : j = k + 1
  OBVIOUS
<1>7. DOMAIN c = 1..lc /\ \A n \in 1..lc : c[n] = IF n < j THEN j - n ELSE j - n + L
  <2>1. c = M!Before(j)
    BY <1>4, <1>6
  <2>2. lc = IF sweeps = 0 THEN j - 1 ELSE L
    BY <1>1, <1>6
  <2> QED
    BY <2>1, <2>2, BeforeIs
<1>8. c[1] = k
  BY <1>1, <1>2, <1>6, <1>7
<1>10. /\ \A n \in 1..lb : n + 1 <= lc => c[n + 1] = b[n]
       /\ \A n \in 1..lb : n + 1 > lc => b[n] = k
  BY <1>1, <1>5, <1>6, <1>7
<1>9. Pushed(b, lb, c, lc, k)
  BY <1>2, <1>5, <1>7, <1>8, <1>10 DEF Pushed
<1> HIDE DEF lb, lc
<1>11. M!Nearest(c, x) = IF config.folders[k][x] # Missing THEN config.folders[k][x]
                       ELSE M!Nearest(b, x)
  BY <1>9, NearestShifts
<1> QED
  BY <1>3, <1>4, <1>11 DEF After

\* Where the strings are between two lookups.
ArgsInv ==
  /\ config \in Configs /\ sweeps \in Nat
  /\ pc \in Working \cup {"lookup"} => i \in 1..L
  /\ pc \in {"start", "fork", "setsid", "chdir", "close"} =>
       sweeps = 0 /\ \A x \in M!Fields : args[x] = Junk
  /\ pc = "sweep" => \A x \in M!Fields : args[x] = IF L = 0 THEN Junk ELSE M!Nearest(M!Before(1), x)
  /\ pc = "lookup" => \A x \in M!Fields : args[x] = M!Nearest(M!Before(i), x)
  /\ pc \in Working => \A x \in M!Fields : args[x] = After(i, x)
  /\ pc = "endsweep" => \A x \in M!Fields : args[x] = IF L = 0 THEN Junk ELSE After(L, x)

LEMMA ArgsInit == M!Init => ArgsInv
  BY DEF M!Init, ArgsInv, Working

LEMMA ArgsNext ==
  ASSUME M!ConfigsAssumption, ArgsInv, [M!Next]_M!vars
  PROVE  ArgsInv'
<1> USE DEF ArgsInv, Working, M!Outputs, M!process
<1>1. config.folders \in Seq([M!Fields -> STRING]) /\ L \in Nat /\ MaxSweeps \in Nat \ {0}
  BY DEF M!ConfigsAssumption, L
<1>2. config' = config /\ L' = L
  BY DEF M!Next, M!Daemonise, M!Sweep, M!vars, M!ReadConfig, M!Fork, M!DaemonFails, M!SetSid,
         M!ChDir,
         M!CloseStandard, M!BeginSweep, M!LookUp, M!OpenDir, M!OpenDirFails, M!UseJunk, M!ScanBusy,
         M!OpenSidecar, M!CloseSidecar, M!CloseDir, M!EndSweep, L
<1>3. ASSUME sweeps' = sweeps
      PROVE  \A k, x : /\ M!Before(k)' = M!Before(k)
                       /\ M!Nearest(M!Before(k), x)' = M!Nearest(M!Before(k), x)
                       /\ After(k, x)' = After(k, x)
  <2> TAKE k, x
  <2>1. M!Before(k)' = M!Before(k)
    BY <1>2, <1>3 DEF M!Before
  <2>2. M!Nearest(M!Before(k), x)' = NearestIn(config'.folders, M!Before(k)', x)
    BY DEF M!Nearest, NearestIn
  <2>3. M!Nearest(M!Before(k), x)' = M!Nearest(M!Before(k), x)
    BY <1>2, <2>1, <2>2, NearestIsIn
  <2> QED
    BY <1>2, <2>1, <2>3 DEF After
<1>4. ASSUME NEW k \in 1..L, k + 1 \in 1..L, NEW x PROVE M!Nearest(M!Before(k + 1), x) = After(k, x)
  BY <1>1, <1>4, FolderAfter
<1>5. CASE M!ReadConfig \/ M!Fork \/ M!DaemonFails \/ M!SetSid \/ M!ChDir \/ M!CloseStandard
  <2>1. sweeps' = sweeps /\ args' = args /\ pc \in {"start", "fork", "setsid", "chdir", "close"}
        /\ pc' \notin Working \cup {"lookup", "endsweep"}
        /\ pc' \in {"start", "fork", "setsid", "chdir", "close", "sweep", "exited"}
    BY <1>5 DEF M!ReadConfig, M!Fork, M!DaemonFails, M!SetSid, M!ChDir, M!CloseStandard
  <2>2. ASSUME L # 0, NEW x PROVE M!Nearest(M!Before(1), x) = Junk
    <3>1. DOMAIN M!Before(1) = 1..0
      BY <2>1 DEF M!Before
    <3> QED
      BY <3>1, NearestIs DEF IsNearest
  <2> QED
    BY <1>2, <1>3, <2>1, <2>2
<1>6. CASE M!BeginSweep
  <2>1. L = 0 <=> config.folders = <<>>
    BY <1>1 DEF L
  <2> QED
    BY <1>1, <1>2, <1>3, <1>6, <2>1 DEF M!BeginSweep
<1>7. CASE M!LookUp
  <2>1. pc = "lookup" /\ pc' = "opendir" /\ i' = i /\ sweeps' = sweeps
        /\ \A x \in M!Fields : args'[x] = After(i, x)
    BY <1>7 DEF M!LookUp, M!LookedUp, After
  <2> QED
    BY <1>2, <1>3, <2>1
<1>8. CASE M!OpenDir \/ M!ScanBusy \/ M!OpenSidecar \/ M!CloseSidecar
  BY <1>2, <1>3, <1>8 DEF M!OpenDir, M!ScanBusy, M!OpenSidecar, M!CloseSidecar
<1>9. CASE M!OpenDirFails \/ M!CloseDir
  <2>1. pc \in Working /\ M!NextFolder /\ args' = args /\ sweeps' = sweeps
    BY <1>9 DEF M!OpenDirFails, M!CloseDir
  <2>2. CASE i < L
    <3>1. pc' = "lookup" /\ i' = i + 1 /\ i + 1 \in 1..L /\ i \in 1..L
      BY <1>1, <2>1, <2>2 DEF M!NextFolder, L
    <3> QED
      BY <1>2, <1>3, <1>4, <2>1, <3>1
  <2>3. CASE ~ (i < L)
    <3>1. pc' = "endsweep" /\ i = L /\ L # 0
      BY <1>1, <2>1, <2>3 DEF M!NextFolder, L
    <3> QED
      BY <1>2, <1>3, <2>1, <3>1
  <2> QED
    BY <2>2, <2>3
<1>10. CASE M!UseJunk
  BY <1>2, <1>10 DEF M!UseJunk
<1>11. CASE M!EndSweep
  <2>1. pc' = "sweep" /\ sweeps' \in Nat /\ sweeps' # 0 /\ args' = args
        /\ \A x \in M!Fields : args[x] = IF L = 0 THEN Junk ELSE After(L, x)
    BY <1>1, <1>11 DEF M!EndSweep
  <2>2. ASSUME L # 0, NEW x PROVE M!Nearest(M!Before(1), x)' = After(L, x)
    <3> DEFINE lb == IF sweeps = 0 THEN L - 1 ELSE L
    <3>0. PICK b : b = M!Before(L)
      OBVIOUS
    <3>10. PICK c : c = M!Before(1)'
      OBVIOUS
    <3>1. lb \in Nat /\ L >= 1 /\ L <= lb + 1 /\ L \in 1..L /\ 1 \in 1..L
      BY <1>1, <2>2
    <3>2. DOMAIN b = 1..lb /\ \A n \in 1..lb : b[n] = IF n < L THEN L - n ELSE L - n + L
      BY <1>1, <3>0, <3>1, BeforeIs
    <3>3. c = [n \in 1..L |-> ((1 - n - 1) % L) + 1]
      BY <1>2, <2>1, <3>10 DEF M!Before, L
    <3>4. ASSUME NEW n \in 1..L PROVE ((1 - n - 1) % L) + 1 = 1 - n + L
      BY <1>1, <3>1
    <3>5. DOMAIN c = 1..L /\ \A n \in 1..L : c[n] = 1 - n + L
      BY <3>3, <3>4
    <3>6. M!Nearest(M!Before(1), x)' = M!Nearest(c, x)
      <4>1. M!Nearest(M!Before(1), x)' = NearestIn(config'.folders, c, x)
        BY <3>10 DEF M!Nearest, NearestIn
      <4> QED
        BY <1>2, <4>1, NearestIsIn
    <3>7. c[1] = L
      BY <1>1, <3>1, <3>5
    <3>8. /\ \A n \in 1..lb : n + 1 <= L => c[n + 1] = b[n]
          /\ \A n \in 1..lb : n + 1 > L => b[n] = L
      BY <1>1, <3>1, <3>2, <3>5
    <3>11. Pushed(b, lb, c, L, L)
      BY <1>1, <3>1, <3>2, <3>5, <3>7, <3>8 DEF Pushed
    <3> HIDE DEF lb, ArgsInv
    <3>9. M!Nearest(c, x) = IF config.folders[L][x] # Missing THEN config.folders[L][x]
                          ELSE M!Nearest(b, x)
      BY <3>11, NearestShifts
    <3> QED
      BY <3>0, <3>6, <3>9 DEF After
  <2> QED
    BY <1>2, <2>1, <2>2
<1>12. CASE UNCHANGED M!vars
  BY <1>2, <1>3, <1>12 DEF M!vars
<1> QED
  BY <1>5, <1>6, <1>7, <1>8, <1>9, <1>10, <1>11, <1>12 DEF M!Next, M!Daemonise, M!Sweep

\* A folder that lacks a string is scanned with the one of the nearest folder looked up
\* before it that has it, around the end of the list too, for every list of folders
\* (filewatch.c:157-169).
THEOREM StringsAreInherited == PartSpec => []StaleIsPredecessor
<1> DEFINE Inv == part = "startup" => ArgsInv
<1>1. PartInit => Inv
  BY PartsAssumption, ArgsInit DEF PartInit
<1>2. Inv /\ [PartNext]_<<part, pc, cascade, startup, ini>> => Inv'
  BY PartsAssumption, ArgsNext, StartupSteps
<1>3. Inv => StaleIsPredecessor
  BY DEF ArgsInv, StaleIsPredecessor, M!StaleIsPredecessor, Working, After
<1> QED
  BY <1>1, <1>2, <1>3, PTL DEF PartSpec

-----------------------------------------------------------------------------
(* ReadIniArg.                                                             *)

\* Line m is the first that mentions the section.
Mentions(m) == /\ section \in text[m].names
               /\ \A h \in 1..(m - 1) : section \notin text[h].names

\* No line mentions the section while it is looked for; then one does, no line after it
\* sets the parameter, and what is in the buffer sets it only if it is that line.
IniInv ==
  /\ \E n \in Nat : text \in [1..n -> Lines]
  /\ param \in Keys /\ at \in 0..Len(text)
  /\ pc # "done" => result = Nothing
  /\ pc = "open" => at = 0
  /\ pc = "section" => \A h \in 1..at : section \notin text[h].names
  /\ pc = "param" =>
       \E m \in 1..at : /\ Mentions(m) /\ \A h \in (m + 1)..at : text[h].key # param
                        /\ szTemp.key = param => m = at /\ szTemp = text[at]
  /\ Reader!ResultFromFile

LEMMA IniNext ==
  ASSUME Reader!LinesAssumption, IniInv, [Reader!Next]_Reader!vars
  PROVE  IniInv'
<1> USE DEF Reader!asked
<1>1. /\ \E n \in Nat : text \in [1..n -> Lines]
      /\ param \in Keys /\ at \in 0..Len(text) /\ Len(text) \in Nat /\ param # NoKey
  BY DEF IniInv, Reader!LinesAssumption
<1>2. text' = text /\ param' = param /\ section' = section /\ failAt' = failAt
  BY DEF Reader!Next, Reader!Open, Reader!OpenFails, Reader!SkipToSection, Reader!NoSection,
         Reader!FindParam, Reader!NoParam,
         Reader!FindParamError, Reader!vars
<1>3. ASSUME NEW m \in 1..Len(text) PROVE Mentions(m)' = Mentions(m)
  BY <1>2 DEF Mentions
<1>4. Reader!ResultFromFile' \/ result' # Nothing
  BY DEF Reader!ResultFromFile
<1>5. CASE Reader!Open \/ Reader!OpenFails \/ Reader!NoSection \/ Reader!NoParam
  BY <1>1, <1>2, <1>4, <1>5 DEF Reader!Open, Reader!OpenFails, Reader!NoSection, Reader!NoParam,
         IniInv
<1>6. CASE Reader!SkipToSection
  <2>1. /\ pc = "section" /\ at' = at + 1 /\ at + 1 \in 1..Len(text) /\ result' = result
        /\ szTemp' = text[at + 1]
        /\ pc' = IF section \in text[at + 1].names THEN "param" ELSE "section"
    BY <1>1, <1>6 DEF Reader!SkipToSection, Reader!CanRead
  <2>2. result' = Nothing /\ \A h \in 1..at : section \notin text[h].names
    BY <2>1 DEF IniInv
  <2>3. CASE section \in text[at + 1].names
    <3>0. PICK m \in 1..Len(text) : m = at + 1
      BY <2>1
    <3>1. pc' = "param" /\ Mentions(m)'
      BY <1>1, <1>2, <2>1, <2>2, <2>3, <3>0 DEF Mentions
    <3>2. /\ m \in 1..at' /\ \A h \in (m + 1)..at' : text'[h].key # param'
          /\ m = at' /\ szTemp' = text'[at']
      BY <1>1, <1>2, <2>1, <3>0
    <3>3. at' \in 0..Len(text') /\ \E n \in Nat : text' \in [1..n -> Lines]
      BY <1>1, <1>2, <2>1
    <3> QED
      BY <1>1, <1>2, <1>4, <2>2, <3>1, <3>2, <3>3 DEF IniInv
  <2>4. CASE section \notin text[at + 1].names
    <3>1. \A h \in 1..at' : section' \notin text'[h].names
      BY <1>1, <1>2, <2>1, <2>2, <2>4
    <3> QED
      BY <1>1, <1>2, <1>4, <2>1, <2>2, <2>4, <3>1 DEF IniInv
  <2> QED
    BY <2>3, <2>4
<1>7. CASE Reader!FindParam
  <2>1. /\ pc = "param" /\ at' = at + 1 /\ at + 1 \in 1..Len(text)
        /\ szTemp' = [text[at + 1] EXCEPT !.key = NoKey]
        /\ Reader!Examine(text[at + 1])
    BY <1>1, <1>7 DEF Reader!FindParam, Reader!CanRead, Reader!Examine
  <2>2. PICK m \in 1..at : Mentions(m) /\ \A h \in (m + 1)..at : text[h].key # param
    BY <2>1 DEF IniInv
  <2>3. m \in 1..Len(text) /\ Mentions(m)' /\ at' \in 0..Len(text) /\ m \in 1..at'
        /\ result = Nothing
    BY <1>1, <1>3, <2>1, <2>2 DEF IniInv
  <2>4. CASE text[at + 1].key = param
    <3>0. PICK j \in 1..Len(text) : j = at + 1
      BY <2>1
    <3>1. pc' = "done" /\ result' = text[j].val
      BY <2>1, <2>4, <3>0 DEF Reader!Examine
    <3>2. Reader!Found(m, j)'
      BY <1>1, <1>2, <2>1, <2>2, <2>3, <2>4, <3>0 DEF Reader!Found, Mentions
    <3>3. Reader!ResultFromFile'
      BY <1>2, <2>1, <2>3, <3>1, <3>2 DEF Reader!ResultFromFile
    <3> QED
      BY <1>1, <1>2, <2>3, <3>1, <3>3 DEF IniInv
  <2>5. CASE text[at + 1].key # param
    <3>1. pc' = "param" /\ result' = Nothing
      BY <2>1, <2>3, <2>5 DEF Reader!Examine
    <3>2. PICK n \in Nat : text \in [1..n -> Lines]
      BY <1>1
    <3>3. text[at + 1] \in Lines
      BY <2>1, <3>2
    <3>4. szTemp'.key # param
      BY <1>1, <2>1, <3>3, <2>5
    <3>5. \A h \in (m + 1)..at' : text'[h].key # param'
      BY <1>1, <1>2, <2>1, <2>2, <2>5
    <3> QED
      BY <1>1, <1>2, <1>4, <2>3, <3>1, <3>4, <3>5 DEF IniInv
  <2> QED
    BY <2>4, <2>5
<1>8. CASE Reader!FindParamError
  <2>1. /\ pc = "param" /\ at' = at /\ failAt = at + 1 /\ Reader!Examine(szTemp)
    BY <1>1, <1>8 DEF Reader!FindParamError, Reader!Fails
  <2>2. PICK m \in 1..at : /\ Mentions(m) /\ \A h \in (m + 1)..at : text[h].key # param
                           /\ szTemp.key = param => m = at /\ szTemp = text[at]
    BY <2>1 DEF IniInv
  <2>3. m \in 1..Len(text) /\ Mentions(m)' /\ result = Nothing
    BY <1>1, <1>3, <2>1, <2>2 DEF IniInv
  <2>4. CASE szTemp.key = param
    <3>1. pc' = "done" /\ result' = text[m].val /\ text[m].key = param /\ failAt = m + 1
      BY <2>1, <2>2, <2>4 DEF Reader!Examine
    <3>2. Reader!ResultFromFile'
      BY <1>2, <2>2, <2>3, <3>1 DEF Reader!ResultFromFile, Mentions
    <3> QED
      BY <1>1, <1>2, <2>1, <3>1, <3>2 DEF IniInv
  <2>5. CASE szTemp.key # param
    <3>1. pc' = "param" /\ result' = Nothing /\ szTemp' = [szTemp EXCEPT !.key = NoKey]
      BY <2>1, <2>3, <2>5 DEF Reader!Examine
    <3>2. szTemp'.key # param
      BY <1>1, <2>5, <3>1
    <3> QED
      BY <1>1, <1>2, <1>4, <2>1, <2>2, <2>3, <3>1, <3>2 DEF IniInv
  <2> QED
    BY <2>4, <2>5
<1>9. CASE UNCHANGED Reader!vars
  BY <1>9 DEF Reader!vars, IniInv, Reader!ResultFromFile, Reader!Found, Mentions
<1> QED
  BY <1>5, <1>6, <1>7, <1>8, <1>9 DEF Reader!Next

LEMMA IniInit == Reader!LinesAssumption /\ Reader!Init => IniInv
  BY DEF Reader!LinesAssumption, Reader!Init, IniInv, Reader!ResultFromFile

\* ReadIniArg returns a value only from the first line below the section's that sets the
\* parameter, or, where reading the line after the section's fails, from that one: for
\* every file (inifile.c:44-77).
THEOREM ValueOfTheParameter == PartSpec => []ResultFromFile
<1> DEFINE Inv == part = "ini" => IniInv
<1>1. PartInit => Inv
  BY PartsAssumption, IniInit DEF PartInit
<1>2. Inv /\ [PartNext]_<<part, pc, cascade, startup, ini>> => Inv'
  BY PartsAssumption, IniNext, IniSteps
<1>3. Inv => ResultFromFile
  BY DEF IniInv, ResultFromFile
<1> QED
  BY <1>1, <1>2, <1>3, PTL DEF PartSpec
=============================================================================
