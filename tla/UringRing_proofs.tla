--------------------------- MODULE UringRing_proofs ---------------------------
(***************************************************************************)
(* Lemmas about the ring's counters (modulo Wrap) and positions (modulo    *)
(* Entries), and about the steps of uring_perror and of the kernel that    *)
(* every demo's proof uses.                                                *)
(***************************************************************************)
EXTENDS UringRing, RingArithmetic

(* The constants, as the provers need them.                                *)
LEMMA ConstantTypes ==
  /\ QUEUE_DEPTH \in Nat \ {0}
  /\ Entries \in Nat \ {0}
  /\ Wrap \in Nat \ {0}
  /\ QUEUE_DEPTH <= Entries
  /\ Entries < Wrap
  BY RingAssumption

(* Counters stay counters, indices are positions.                          *)
LEMMA CounterTypes ==
  ASSUME NEW x \in Int, NEW y \in Int
  PROVE  /\ Inc(x) \in Counter
         /\ Sub(x, y) \in Counter
         /\ Slot(x) \in Slots
         /\ x % Wrap \in Counter
  BY ConstantTypes, ModRange DEF Inc, Sub, Slot, Slots, Counter

(* The difference of two equal counters, and only of those, is zero.       *)
LEMMA SubZero ==
  ASSUME NEW x \in Counter, NEW y \in Counter
  PROVE  Sub(x, y) = 0 <=> x = y
  <1>1. CASE x = y
    BY <1>1, ConstantTypes, ModSmall DEF Sub, Counter
  <1>2. CASE x < y
    <2>1. (x - y) % Wrap # 0 % Wrap
      BY <1>2, ConstantTypes, ModDiffer DEF Counter
    <2> QED
      BY <1>2, <2>1, ConstantTypes, ModSmall DEF Sub, Counter
  <1>3. CASE y < x
    BY <1>3, ConstantTypes, ModSmall DEF Sub, Counter
  <1> QED
    BY <1>1, <1>2, <1>3 DEF Counter

(* x - y, modulo Wrap, is x - y or x - y + Wrap.                           *)
LEMMA SubCases ==
  ASSUME NEW x \in Counter, NEW y \in Counter
  PROVE  Sub(x, y) = IF y <= x THEN x - y ELSE x - y + Wrap
  <1> x \in Int /\ y \in Int
    BY DEF Counter
  <1>1. CASE y <= x
    BY <1>1, ConstantTypes, ModSmall DEF Sub, Counter
  <1>2. CASE x < y
    <2>1. x - y \in Int
      OBVIOUS
    <2>2. ((x - y) + Wrap) % Wrap = (x - y) % Wrap
      BY <2>1, ConstantTypes, ModPlusOnce
    <2>3. x - y + Wrap \in 0 .. Wrap - 1
      BY <1>2, ConstantTypes DEF Counter
    <2>4. (x - y + Wrap) % Wrap = x - y + Wrap
      BY <2>3, ConstantTypes, ModSmall
    <2> QED
      BY <1>2, <2>2, <2>4 DEF Sub
  <1> QED
    BY <1>1, <1>2

(* The successor of the last counter is zero.                              *)
LEMMA IncCases ==
  ASSUME NEW x \in Counter
  PROVE  Inc(x) = IF x = Wrap - 1 THEN 0 ELSE x + 1
  <1>1. CASE x = Wrap - 1
    <2>1. (0 + Wrap) % Wrap = 0 % Wrap
      BY ConstantTypes, ModPlusOnce
    <2>2. 0 % Wrap = 0 /\ 0 + Wrap = x + 1
      BY <1>1, ConstantTypes, ModSmall
    <2> QED
      BY <1>1, <2>1, <2>2 DEF Inc
  <1>2. CASE x # Wrap - 1
    BY <1>2, ConstantTypes, ModSmall DEF Inc, Counter
  <1> QED
    BY <1>1, <1>2

(* The tail that advances by one makes the ring one entry longer.          *)
LEMMA SubIncTail ==
  ASSUME NEW x \in Counter, NEW y \in Counter, Sub(x, y) + 1 < Wrap
  PROVE  Sub(Inc(x), y) = Sub(x, y) + 1
  <1>1. Inc(x) = IF x = Wrap - 1 THEN 0 ELSE x + 1
    BY IncCases
  <1>2. Inc(x) \in Counter
    BY CounterTypes DEF Counter
  <1>3. Sub(x, y) = IF y <= x THEN x - y ELSE x - y + Wrap
    BY SubCases
  <1>4. Sub(Inc(x), y) = IF y <= Inc(x) THEN Inc(x) - y ELSE Inc(x) - y + Wrap
    BY <1>2, SubCases
  <1> QED
    BY <1>1, <1>3, <1>4, ConstantTypes DEF Counter

(* The head that advances by one makes it one entry shorter.               *)
LEMMA SubIncHead ==
  ASSUME NEW x \in Counter, NEW y \in Counter, x # y
  PROVE  Sub(x, Inc(y)) = Sub(x, y) - 1
  <1>1. Inc(y) = IF y = Wrap - 1 THEN 0 ELSE y + 1
    BY IncCases
  <1>2. Inc(y) \in Counter
    BY CounterTypes DEF Counter
  <1>3. Sub(x, y) = IF y <= x THEN x - y ELSE x - y + Wrap
    BY SubCases
  <1>4. Sub(x, Inc(y)) = IF Inc(y) <= x THEN x - Inc(y) ELSE x - Inc(y) + Wrap
    BY <1>2, SubCases
  <1> QED
    BY <1>1, <1>3, <1>4, ConstantTypes DEF Counter

(* The tail is the head plus the number of entries between them.           *)
LEMMA TailIsHeadPlus ==
  ASSUME NEW x \in Counter, NEW y \in Counter
  PROVE  x = (y + Sub(x, y)) % Wrap
  <1>1. CASE y <= x
    BY <1>1, SubCases, ConstantTypes, ModSmall DEF Counter
  <1>2. CASE x < y
    <2>1. y + Sub(x, y) = x + Wrap
      BY <1>2, SubCases, ConstantTypes DEF Counter
    <2>0. x \in Int
      BY DEF Counter
    <2>2. (x + Wrap) % Wrap = x % Wrap
      BY <2>0, ConstantTypes, ModPlusOnce, Zenon
    <2> QED
      BY <2>1, <2>2, ConstantTypes, ModSmall DEF Counter
  <1> QED
    BY <1>1, <1>2 DEF Counter

(* Counting i from the next head is counting i + 1 from the head.          *)
LEMMA FromNextHead ==
  ASSUME NEW h \in Counter, NEW i \in Nat
  PROVE  (Inc(h) + i) % Wrap = (h + (i + 1)) % Wrap
  <1>1. CASE h = Wrap - 1
    <2>0. i \in Int
      OBVIOUS
    <2>1. (i + Wrap) % Wrap = i % Wrap
      BY <2>0, ConstantTypes, ModPlusOnce, Zenon
    <2>2. i + Wrap = h + (i + 1) /\ Inc(h) + i = i
      BY <1>1, IncCases, ConstantTypes
    <2> QED
      BY <2>1, <2>2
  <1>2. CASE h # Wrap - 1
    <2>1. Inc(h) + i = h + (i + 1)
      BY <1>2, IncCases, ConstantTypes DEF Counter
    <2> QED
      BY <2>1
  <1> QED
    BY <1>1, <1>2

(* Entries divides Wrap: wrapping a counter does not move its position.    *)
LEMMA SlotOfWrapped ==
  ASSUME NEW x \in Int
  PROVE  Slot(x % Wrap) = Slot(x)
  <1> DEFINE q == x \div Wrap
             r == x % Wrap
             k == Wrap \div Entries
  <1>1. /\ q \in Int /\ r \in Int /\ k \in Int
        /\ x = Wrap * q + r
    BY ConstantTypes, DivMod, ModRange
  <1>2. Wrap = Entries * k
    BY ConstantTypes, DivMod, RingAssumption
  <1> HIDE DEF q, r, k
  <1>3. k * q \in Int /\ x = r + Entries * (k * q)
    BY <1>1, <1>2, ConstantTypes
  <1>4. (r + Entries * (k * q)) % Entries = r % Entries
    BY <1>1, <1>3, ConstantTypes, ModPlusMultiple
  <1> QED
    BY <1>3, <1>4 DEF Slot, r

(* Entries of the ring less than Entries apart have different positions.   *)
LEMMA SlotsDiffer ==
  ASSUME NEW h \in Counter, NEW i \in Nat, NEW j \in Nat,
         i < j, j - i < Entries
  PROVE  Slot((h + i) % Wrap) # Slot((h + j) % Wrap)
  <1>0. h + i \in Int /\ h + j \in Int /\ h + i < h + j /\ (h + j) - (h + i) < Entries
    BY ConstantTypes DEF Counter
  <1>1. (h + i) % Entries # (h + j) % Entries
    BY <1>0, ConstantTypes, ModDiffer, Zenon
  <1> QED
    BY <1>0, <1>1, SlotOfWrapped DEF Slot

-----------------------------------------------------------------------------
(* The steps shared by the demos keep the types: the ring as set up.       *)
LEMMA InitType == RingInit => RingTypeOK
  BY ConstantTypes DEF RingInit, RingTypeOK, Counter, Slots, Stages, Texts

(* A reservation keeps the types.                                          *)
LEMMA ReserveType ==
  ASSUME RingTypeOK, NEW p \in Producers, NEW m \in Msgs, Reserve(p, m)
  PROVE  RingTypeOK'
  <1>1. Inc(sq_tail_cache) \in Counter
    BY CounterTypes DEF RingTypeOK, Counter
  <1> QED
    BY <1>1 DEF RingTypeOK, Reserve, Step, ring, kernel, Stages

(* So does every later step of uring_perror.                               *)
LEMMA PerrorType ==
  ASSUME RingTypeOK, NEW p \in Producers, Perror(p)
  PROVE  RingTypeOK'
  <1> USE DEF RingTypeOK, Step, ring, callers, kernel, Stages
  <1>1. Idx(p) \in Slots /\ Inc(tail[p]) \in Counter
    BY CounterTypes DEF Idx, Counter
  <1>2. CASE AwaitRoom(p)
    BY <1>2 DEF AwaitRoom
  <1>3. CASE ZeroBuff(p)
    BY <1>3 DEF ZeroBuff
  <1>4. CASE CopyMsg(p)
    BY <1>4 DEF CopyMsg
  <1>5. CASE ZeroSqe(p)
    BY <1>5 DEF ZeroSqe
  <1>9. CASE BeginSqe(p)
    BY <1>9 DEF BeginSqe
  <1>6. CASE FillSqe(p)
    BY <1>6 DEF FillSqe
  <1>7. CASE SetArray(p)
    BY <1>1, <1>7 DEF SetArray
  <1>8. CASE Publish(p)
    BY <1>1, <1>8 DEF Publish
  <1> QED
    BY <1>2, <1>3, <1>4, <1>5, <1>6, <1>7, <1>8, <1>9 DEF Perror

(* An entry asks for a text.                                               *)
LEMMA AskedText ==
  ASSUME NEW i, NEW e
  PROVE  Asked(i, e) \subseteq Texts
  BY DEF Asked, Texts

(* An entry that is filled asks for its message and for nothing else.      *)
LEMMA AskedMsg ==
  ASSUME NEW i, NEW e \in Msgs
  PROVE  Asked(i, e) = {e} /\ e # Zero /\ e # Half
  BY RingAssumption DEF Asked

(* The kernel takes an entry, whichever it may be.                         *)
LEMMA TakeType ==
  ASSUME RingTypeOK, NEW i \in Slots, NEW e, TakeWrite(i, e) \/ TakeNop(e)
  PROVE  RingTypeOK'
  <1> USE DEF RingTypeOK, callers, kernel
  <1>1. Inc(sring_head) \in Counter
    BY CounterTypes DEF Counter
  <1>2. CASE TakeWrite(i, e)
    <2>1. inflight' \subseteq Request
      BY <1>2, AskedText DEF TakeWrite, Request
    <2> QED
      BY <1>1, <1>2, <2>1 DEF TakeWrite
  <1>3. CASE TakeNop(e)
    BY <1>1, <1>3 DEF TakeNop
  <1> QED
    BY <1>2, <1>3

(* And performs a write, whatever it puts out.                             *)
LEMMA PutOutType ==
  ASSUME RingTypeOK, NEW r \in inflight, NEW x \in Texts, PutOut(r, x)
  PROVE  RingTypeOK'
  <1> USE DEF RingTypeOK, ring, callers
  <1>1. lines' \in [Texts -> 0 .. 2]
    BY DEF PutOut
  <1> QED
    BY <1>1 DEF PutOut

(* The text of a write is one that may appear.                             *)
LEMMA TextType ==
  ASSUME NEW r \in Request
  PROVE  Text(r) \in Texts
  BY DEF Text, Texts, Request

(* Where the kernel looks next is in the ring.                             *)
LEMMA NextSqeType ==
  ASSUME RingTypeOK
  PROVE  NextSqe \in Slots /\ Slot(sring_head) \in Slots
  BY CounterTypes DEF NextSqe, RingTypeOK, Counter

(* And every step of the kernel keeps the types.                           *)
LEMMA KernelType ==
  ASSUME RingTypeOK, KernelStep
  PROVE  RingTypeOK'
  <1>1. CASE FetchWrite \/ FetchNop
    BY <1>1, NextSqeType, TakeType DEF FetchWrite, FetchNop
  <1>2. ASSUME NEW r \in inflight, PerformWrite(r)
        PROVE  RingTypeOK'
    BY <1>2, TextType, PutOutType DEF PerformWrite, RingTypeOK
  <1>3. CASE PollerIdles
    BY <1>3 DEF PollerIdles, RingTypeOK, ring, callers
  <1> QED
    BY <1>1, <1>2, <1>3 DEF KernelStep

=============================================================================
