--------------------------- MODULE CpuMtDemo_proofs ---------------------------
(***************************************************************************)
(* Proofs about CpuMtDemo, for any number of threads up to the size of the *)
(* message pool and every interleaving.                                    *)
(***************************************************************************)
EXTENDS CpuMtDemo, UringRing_proofs, FiniteSetTheorems

(* The kernel's fetch keeps the types, whatever it sees.                   *)
LEMMA FetchType ==
  ASSUME TypeOK, Fetch
  PROVE  TypeOK'
  <1>1. SeenIndex \subseteq Slots
    BY NextSqeType, ConstantTypes DEF SeenIndex, TypeOK, Slots
  <1>2. RingTypeOK'
    BY <1>1, TakeType DEF Fetch, TypeOK
  <1> QED
    BY <1>2 DEF Fetch, main, TypeOK

(* And so does a write.                                                    *)
LEMMA WriteType ==
  ASSUME TypeOK, Write
  PROVE  TypeOK'
  <1>1. \A r \in inflight : SeenText(r) \subseteq Texts
    BY TextType DEF SeenText, TypeOK, RingTypeOK, Texts
  <1>2. RingTypeOK'
    BY <1>1, PutOutType DEF Write, TypeOK
  <1> QED
    BY <1>2 DEF Write, main, TypeOK

(* A step keeps the types.                                                 *)
LEMMA TypeStep ==
  ASSUME TypeOK, [Next]_vars
  PROVE  TypeOK'
  <1> USE DEF TypeOK
  <1>1. ASSUME NEW t \in Producers, Call(t)
        PROVE  TypeOK'
    <2>1. RingTypeOK'
      BY <1>1, ReserveType, ThreadsAssumption DEF Call
    <2> QED
      BY <1>1, <2>1 DEF Call
  <1>2. ASSUME NEW t \in Producers, InPerror(t)
        PROVE  TypeOK'
    BY <1>2, PerrorType DEF InPerror
  <1>3. CASE Fetch
    BY <1>3, FetchType
  <1>4. CASE Write
    BY <1>4, WriteType
  <1>5. CASE Idle
    BY <1>5, KernelType DEF Idle, KernelStep, main
  <1>6. CASE Waker
    BY <1>6 DEF Waker, Wakeup, RingTypeOK, ring, callers, main
  <1>7. CASE Teardown
    BY <1>7 DEF Teardown, PoolAfterFree, RingTypeOK, ring, callers, kernel
  <1>8. CASE Exit
    BY <1>8 DEF Exit, RingTypeOK, ring, callers
  <1>9. CASE UNCHANGED vars
    BY <1>9 DEF vars, ringVars, ring, callers, kernel, main, RingTypeOK
  <1> QED
    BY <1>1, <1>2, <1>3, <1>4, <1>5, <1>6, <1>7, <1>8, <1>9 DEF Next, Terminated

(* Every variable keeps its type, however the threads interleave and       *)
(* wherever their stores leave the ring's tail.                            *)
THEOREM TypeCorrect == Spec => []TypeOK
  <1>1. Init => TypeOK
    BY InitType DEF Init, TypeOK
  <1>2. TypeOK /\ [Next]_vars => TypeOK'
    BY TypeStep
  <1> QED
    BY <1>1, <1>2, PTL DEF Spec

-----------------------------------------------------------------------------
(* No more threads than buffers: tickets are indices.                      *)

FewThreads == Cardinality(Producers) <= QUEUE_DEPTH

\* The tickets handed out are those below the cache, which counts the calls,
\* and no two threads have the same; only a thread that has called is active.
TicketInv ==
  /\ sq_tail_cache = Cardinality(called)
  /\ \A t \in called : tail[t] < sq_tail_cache /\ msg[t] = t
  /\ \A t, u \in called : t # u => tail[t] # tail[u]
  /\ \A s \in 0 .. sq_tail_cache - 1 : \E t \in called : tail[t] = s
  /\ \A t \in Producers : Active(t) => t \in called

(* Counting the threads that have called.                                  *)
LEMMA CalledCount ==
  ASSUME FewThreads, TypeOK
  PROVE  /\ IsFiniteSet(called)
         /\ Cardinality(called) \in Nat
         /\ Cardinality(called) <= QUEUE_DEPTH
         /\ \A t \in Producers \ called :
              /\ Cardinality(called \union {t}) = Cardinality(called) + 1
              /\ Cardinality(called) < QUEUE_DEPTH
  <1>1. IsFiniteSet(Producers) /\ Cardinality(Producers) \in Nat
    BY ThreadsAssumption, FS_CardinalityType
  <1>2. /\ IsFiniteSet(called) /\ Cardinality(called) \in Nat
        /\ Cardinality(called) <= Cardinality(Producers)
    BY <1>1, FS_Subset, FS_CardinalityType DEF TypeOK
  <1>3. ASSUME NEW t \in Producers \ called
        PROVE  /\ Cardinality(called \union {t}) = Cardinality(called) + 1
               /\ Cardinality(called \union {t}) <= Cardinality(Producers)
    <2>1. called \union {t} \subseteq Producers
      BY DEF TypeOK
    <2> QED
      BY <1>1, <1>2, <2>1, FS_AddElement, FS_Subset
  <1> QED
    BY <1>1, <1>2, <1>3, ConstantTypes DEF FewThreads

(* A ticket is its own index, within the pool.                             *)
LEMMA TicketIndex ==
  ASSUME FewThreads, TypeOK, TicketInv, NEW t \in called
  PROVE  Idx(t) = tail[t] /\ tail[t] < QUEUE_DEPTH /\ tail[t] \in Slots
  <1>1. tail[t] \in 0 .. Entries - 1 /\ tail[t] < QUEUE_DEPTH
    BY CalledCount, ConstantTypes DEF TicketInv, TypeOK, RingTypeOK, Counter
  <1> QED
    BY <1>1, ModSmall, ConstantTypes DEF Idx, Slot, Slots

(* A step keeps the tickets distinct.                                      *)
LEMMA TicketStep ==
  ASSUME FewThreads, TypeOK, TicketInv, [Next]_vars
  PROVE  TicketInv'
  <1>1. ASSUME NEW t \in Producers, Call(t)
        PROVE  TicketInv'
    <2>1. /\ t \notin called /\ called' = called \union {t}
          /\ tail' = [tail EXCEPT ![t] = sq_tail_cache]
          /\ msg' = [msg EXCEPT ![t] = t]
          /\ pc' = [pc EXCEPT ![t] = "room"]
      BY <1>1 DEF Call, Reserve, Step
    <2>2. sq_tail_cache' = sq_tail_cache + 1 /\ sq_tail_cache \in Nat
      <3>1. sq_tail_cache \in Nat /\ sq_tail_cache < QUEUE_DEPTH
        BY <2>1, CalledCount DEF TicketInv
      <3>2. sq_tail_cache' = Inc(sq_tail_cache) /\ sq_tail_cache \in Counter
        BY <1>1 DEF Call, Reserve, TypeOK, RingTypeOK
      <3> QED
        BY <3>1, <3>2, IncCases, ConstantTypes
    <2>3. sq_tail_cache' = Cardinality(called')
      BY <2>1, <2>2, CalledCount DEF TicketInv
    <2>4. /\ \A u \in called : tail'[u] = tail[u] /\ msg'[u] = u
                               /\ tail[u] < sq_tail_cache /\ tail[u] \in Nat
          /\ tail'[t] = sq_tail_cache /\ msg'[t] = t
      BY <2>1 DEF TicketInv, TypeOK, RingTypeOK, Counter
    <2>5. \A s \in 0 .. sq_tail_cache' - 1 : \E u \in called' : tail'[u] = s
      BY <2>1, <2>2, <2>4 DEF TicketInv
    <2> QED
      BY <2>1, <2>2, <2>3, <2>4, <2>5 DEF TicketInv, Active, TypeOK, RingTypeOK
  <1>2. ASSUME NEW t \in Producers, InPerror(t)
        PROVE  TicketInv'
    BY <1>2 DEF InPerror, Perror, AwaitRoom, ZeroBuff, CopyMsg, ZeroSqe,
          BeginSqe, FillSqe, SetArray, Publish, Step, callers, TicketInv,
          Active, TypeOK, RingTypeOK
  <1>3. CASE UNCHANGED <<sq_tail_cache, tail, msg, pc, called>>
    BY <1>3 DEF TicketInv, Active
  <1> QED
    BY <1>1, <1>2, <1>3
       DEF Next, Fetch, TakeWrite, TakeNop, Write, PutOut, Idle, PollerIdles,
           Waker, Teardown, Exit, Terminated, callers, vars, ringVars, main

(* Tickets are distinct in every reachable state.                          *)
LEMMA TicketCorrect ==
  ASSUME FewThreads
  PROVE  Spec => [](TypeOK /\ TicketInv)
  <1>1. Init => TicketInv
    BY FS_EmptySet DEF Init, RingInit, TicketInv, Active
  <1> QED
    BY <1>1, TicketStep, TypeCorrect, PTL DEF Spec

(* Two threads never write the same buffer or SQE.                         *)
THEOREM SlotsCorrect ==
  ASSUME FewThreads
  PROVE  Spec => []SlotExclusive
  <1>1. TypeOK /\ TicketInv => SlotExclusive
    BY TicketIndex DEF SlotExclusive, TicketInv
  <1> QED
    BY <1>1, TicketCorrect, PTL

(* And none writes outside msg_pool.                                       *)
THEOREM PoolCorrect ==
  ASSUME FewThreads
  PROVE  Spec => []WithinPool
  <1>1. TypeOK /\ TicketInv => WithinPool
    BY TicketIndex DEF WithinPool
  <1> QED
    BY <1>1, TicketCorrect, PTL

-----------------------------------------------------------------------------
(* What the kernel prints as long as no thread overtakes another.          *)

\* What lies below the tail are the entries of the threads that are ready,
\* and the kernel has fetched some of them.
TailInv ==
  /\ sring_head <= sring_tail
  /\ sring_tail <= sq_tail_cache
  /\ \A t \in called : tail[t] < sring_tail <=> ~Active(t)

\* A thread that has passed a store has its effect at its own index.
Stored(t, stages) == pc[t] \in stages \union {"publish", "idle"}

EntryInv ==
  \A t \in called :
    /\ Stored(t, {"zero_sqe", "begin_sqe", "fill_sqe", "index"}) =>
         msg_pool[tail[t]] = t
    /\ Stored(t, {"index"}) => sqes[tail[t]] = t
    /\ Stored(t, {}) => sring_array[tail[t]] = tail[t]

\* A write in flight is that of a thread whose line has not appeared, and a
\* line that has appeared is that of a thread whose entry was fetched.
OutputInv ==
  /\ \A r \in inflight :
       \E t \in called :
         /\ r = [seq |-> tail[t], slot |-> tail[t], msg |-> t]
         /\ tail[t] < sring_head
         /\ lines[t] = 0
  /\ \A t \in Producers :
       /\ lines[t] <= 1
       /\ lines[t] # 0 => t \in called /\ tail[t] < sring_head
  /\ lines[Garbled] = 0

OrderInv == TailInv /\ EntryInv /\ OutputInv

InOrder == ~overtaken /\ phase = "running"

MtInv == TypeOK /\ TicketInv /\ (InOrder => OrderInv)

(* A thread starts its call: nothing is stored yet.                        *)
LEMMA CallOrder ==
  ASSUME FewThreads, MtInv, InOrder, NEW t \in Producers, Call(t)
  PROVE  OrderInv'
  <1>1. /\ OrderInv /\ TypeOK /\ RingTypeOK /\ TicketInv
        /\ t \notin called /\ called' = called \union {t}
        /\ tail' = [tail EXCEPT ![t] = sq_tail_cache]
        /\ pc' = [pc EXCEPT ![t] = "room"]
        /\ UNCHANGED <<sring_head, sring_tail, sring_array, sqes, msg_pool,
                       inflight, lines>>
    BY DEF MtInv, TypeOK, Call, Reserve, Step, ring, kernel
  <1>2. \A u \in called : tail'[u] = tail[u] /\ pc'[u] = pc[u]
    BY <1>1 DEF TypeOK, RingTypeOK
  <1>3. pc'[t] = "room" /\ tail'[t] = sq_tail_cache
    BY <1>1 DEF RingTypeOK, TypeOK
  <1>4. sq_tail_cache' = sq_tail_cache + 1 /\ sq_tail_cache \in Nat
    <2>1. sq_tail_cache \in Nat /\ sq_tail_cache < QUEUE_DEPTH
      BY <1>1, CalledCount DEF TicketInv
    <2> QED
      BY <1>1, <2>1, IncCases, ConstantTypes DEF Call, Reserve, RingTypeOK
  <1>5. TailInv'
    BY <1>1, <1>2, <1>3, <1>4 DEF OrderInv, TailInv, Active, RingTypeOK, Counter
  <1>6. EntryInv'
    BY <1>1, <1>2, <1>3 DEF OrderInv, EntryInv, Stored
  <1>7. OutputInv'
    BY <1>1, <1>2 DEF OrderInv, OutputInv
  <1> QED
    BY <1>5, <1>6, <1>7 DEF OrderInv

(* What a later step of a call changes.                                    *)
LEMMA PerrorFrame ==
  ASSUME FewThreads, MtInv, NEW t \in Producers, InPerror(t)
  PROVE  /\ Active(t) /\ t \in called /\ msg[t] = t
         /\ Idx(t) = tail[t] /\ tail[t] \in Slots
         /\ \A u \in called \ {t} : pc'[u] = pc[u] /\ tail[u] # tail[t]
         /\ \A s \in Slots \ {tail[t]} :
              /\ msg_pool'[s] = msg_pool[s]
              /\ sqes'[s] = sqes[s]
              /\ sring_array'[s] = sring_array[s]
         /\ UNCHANGED <<sring_head, sq_tail_cache, called, tail, msg, inflight, lines>>
  <1>1. TypeOK /\ TicketInv /\ RingTypeOK
    BY DEF MtInv, TypeOK
  <1>2. /\ Active(t)
        /\ UNCHANGED <<sring_head, sq_tail_cache, called, tail, msg, inflight, lines>>
    BY DEF InPerror, Perror, AwaitRoom, ZeroBuff, CopyMsg, ZeroSqe, BeginSqe,
           FillSqe, SetArray, Publish, Step, Active, callers, kernel, ring
  <1>3. t \in called /\ msg[t] = t
    BY <1>1, <1>2 DEF TicketInv
  <1>4. Idx(t) = tail[t] /\ tail[t] \in Slots
    BY <1>1, <1>3, TicketIndex
  <1>5. \A u \in called \ {t} : pc'[u] = pc[u] /\ tail[u] # tail[t]
    BY <1>1, <1>3 DEF TicketInv, InPerror, Perror, AwaitRoom, ZeroBuff, CopyMsg,
       ZeroSqe, BeginSqe, FillSqe, SetArray, Publish, Step, RingTypeOK, TypeOK
  <1>6. \A s \in Slots \ {tail[t]} :
          /\ msg_pool'[s] = msg_pool[s]
          /\ sqes'[s] = sqes[s]
          /\ sring_array'[s] = sring_array[s]
    BY <1>1, <1>4 DEF InPerror, Perror, AwaitRoom, ZeroBuff, CopyMsg, ZeroSqe,
       BeginSqe, FillSqe, SetArray, Publish, ring, RingTypeOK
  <1> QED
    BY <1>2, <1>3, <1>4, <1>5, <1>6

(* A thread stores at its own index only, and the tail last.               *)
LEMMA PerrorEntry ==
  ASSUME FewThreads, MtInv, InOrder, NEW t \in Producers, InPerror(t)
  PROVE  EntryInv'
  <1>1. EntryInv /\ TypeOK /\ TicketInv /\ RingTypeOK
    BY DEF MtInv, OrderInv, TypeOK
  <1>2. /\ t \in called /\ msg[t] = t /\ Idx(t) = tail[t] /\ tail[t] \in Slots
        /\ UNCHANGED <<called, tail>>
    BY PerrorFrame
  <1> DEFINE Has(u) ==
        /\ Stored(u, {"zero_sqe", "begin_sqe", "fill_sqe", "index"}) =>
             msg_pool[tail[u]] = u
        /\ Stored(u, {"index"}) => sqes[tail[u]] = u
        /\ Stored(u, {}) => sring_array[tail[u]] = tail[u]
  <1>3. ASSUME NEW u \in called, u # t
        PROVE  Has(u)'
    <2>1. tail[u] \in Slots \ {tail[t]} /\ pc'[u] = pc[u] /\ Has(u)
      BY <1>1, <1>3, PerrorFrame, TicketIndex DEF EntryInv
    <2> QED
      BY <1>2, <2>1, PerrorFrame DEF Stored
  <1>4. Has(t)'
    <2>1. Has(t)
      BY <1>1, <1>2 DEF EntryInv
    <2> USE <1>1, <1>2, <2>1 DEF Stored, Step, RingTypeOK, ring
    <2>2. CASE AwaitRoom(t) \/ ZeroBuff(t)
      BY <2>2 DEF AwaitRoom, ZeroBuff
    <2>3. CASE CopyMsg(t)
      BY <2>3 DEF CopyMsg
    <2>4. CASE ZeroSqe(t) \/ BeginSqe(t)
      BY <2>4 DEF ZeroSqe, BeginSqe
    <2>5. CASE FillSqe(t)
      BY <2>5 DEF FillSqe
    <2>6. CASE SetArray(t)
      BY <2>6 DEF SetArray
    <2>7. CASE Publish(t)
      BY <2>7 DEF Publish
    <2> QED
      BY <2>2, <2>3, <2>4, <2>5, <2>6, <2>7 DEF InPerror, Perror
  <1> QED
    BY <1>2, <1>3, <1>4 DEF EntryInv

(* If it overtakes nobody, all entries below the tail it stores are ready. *)
LEMMA PerrorTail ==
  ASSUME FewThreads, MtInv, InOrder, NEW t \in Producers, InPerror(t), ~overtaken'
  PROVE  TailInv'
  <1>1. TailInv /\ TypeOK /\ TicketInv /\ RingTypeOK
    BY DEF MtInv, OrderInv, TypeOK
  <1>2. /\ t \in called /\ Active(t) /\ tail[t] \in Slots
        /\ UNCHANGED <<sring_head, sq_tail_cache, called, tail>>
    BY PerrorFrame
  <1>3. \A u \in called \ {t} : (Active(u)' <=> Active(u)) /\ tail[u] # tail[t]
    BY PerrorFrame DEF Active
  <1>4. CASE Publish(t)
    <2>1. sring_tail' = tail[t] + 1 /\ ~Active(t)'
      <3>1. tail[t] \in Counter /\ tail[t] # Wrap - 1
        BY <1>2, ConstantTypes DEF Slots, Counter
      <3>2. Inc(tail[t]) = tail[t] + 1
        BY <3>1, IncCases
      <3>3. pc' = [pc EXCEPT ![t] = "idle"] /\ t \in DOMAIN pc
        BY <1>1, <1>4 DEF Publish, Step, RingTypeOK
      <3> QED
        BY <1>4, <3>2, <3>3 DEF Publish, Active
    <2>2. sring_tail <= tail[t] /\ tail[t] < sq_tail_cache
      BY <1>1, <1>2 DEF TailInv, TicketInv, RingTypeOK, Counter, Slots
    <2>3. ~Overtakes(t) /\ pc[t] = "publish"
      BY <1>4 DEF InPerror, Publish, Step
    <2>4. \A u \in called : tail[u] < tail[t] => ~Active(u)
      BY <2>3 DEF Overtakes, TypeOK, MtInv
    <2>5. \A u \in called : tail[u] \in Nat
      BY <1>1 DEF RingTypeOK, Counter, TypeOK
    <2>6. /\ tail[t] \in Nat /\ sring_tail \in Nat /\ sring_head \in Nat
          /\ sq_tail_cache \in Nat
      BY <1>1, <1>2 DEF RingTypeOK, Counter, Slots
    <2>7. ASSUME NEW u \in called
          PROVE  tail[u] < tail[t] + 1 <=> ~Active(u)'
      <3>1. CASE u = t
        BY <2>1, <2>6, <3>1
      <3>2. CASE u # t
        BY <1>1, <1>3, <2>2, <2>4, <2>5, <2>6, <3>2 DEF TailInv
      <3> QED
        BY <3>1, <3>2
    <2> QED
      BY <1>1, <1>2, <2>1, <2>2, <2>6, <2>7 DEF TailInv
  <1>5. CASE ~Publish(t)
    <2>1. sring_tail' = sring_tail /\ Active(t)'
      BY <1>1, <1>5 DEF InPerror, Perror, AwaitRoom, ZeroBuff, CopyMsg, ZeroSqe,
         BeginSqe, FillSqe, SetArray, Step, ring, Active, RingTypeOK
    <2> QED
      BY <1>1, <1>2, <1>3, <2>1 DEF TailInv
  <1> QED
    BY <1>4, <1>5

(* A step of a call keeps the invariant.                                   *)
LEMMA PerrorOrder ==
  ASSUME FewThreads, MtInv, InOrder, NEW t \in Producers, InPerror(t), ~overtaken'
  PROVE  OrderInv'
  <1>1. UNCHANGED <<called, tail, sring_head, inflight, lines>>
    BY PerrorFrame
  <1>2. OutputInv'
    BY <1>1 DEF MtInv, OrderInv, OutputInv
  <1> QED
    BY <1>2, PerrorEntry, PerrorTail DEF OrderInv

(* Nothing of a ready thread's call is hidden from the kernel.             *)
LEMMA ReadySlot ==
  ASSUME FewThreads, TypeOK, TicketInv, NEW t \in called, ~Active(t)
  PROVE  ~Unready(tail[t])
  BY TicketIndex DEF Unready, TicketInv

(* The kernel takes the entry at its head as it was filled.                *)
LEMMA FetchOrder ==
  ASSUME FewThreads, MtInv, InOrder, Fetch
  PROVE  OrderInv'
  <1>1. OrderInv /\ TypeOK /\ TicketInv /\ RingTypeOK
    BY DEF MtInv, TypeOK
  <1>2. PICK i \in SeenIndex : \E e \in SeenSqe(i) : TakeWrite(i, e) \/ TakeNop(e)
    BY DEF Fetch
  <1>3. PICK e \in SeenSqe(i) : TakeWrite(i, e) \/ TakeNop(e)
    BY <1>2
  <1>4. /\ sring_head < sring_tail /\ sring_tail <= sq_tail_cache
        /\ sring_head' = Inc(sring_head) /\ sring_head \in Counter
        /\ UNCHANGED <<sring_tail, sring_array, sqes, msg_pool, pc, callers, lines, called>>
    <2>1. sring_head # sring_tail
      BY <1>3 DEF TakeWrite, TakeNop, RingEmpty
    <2> QED
      BY <1>1, <1>3, <2>1 DEF TakeWrite, TakeNop, kernel, OrderInv, TailInv,
         RingTypeOK, Counter, Fetch, main
  <1>5. PICK t \in called : tail[t] = sring_head
    <2>1. sring_head \in 0 .. sq_tail_cache - 1
      BY <1>1, <1>4 DEF RingTypeOK, Counter
    <2> QED
      BY <1>1, <2>1 DEF TicketInv
  <1>6. /\ ~Active(t) /\ pc[t] = "idle" /\ t \in Producers /\ t \in Msgs
        /\ tail[t] \in Slots /\ tail[t] < QUEUE_DEPTH /\ Slot(sring_head) = tail[t]
        /\ sqes[tail[t]] = t /\ sring_array[tail[t]] = tail[t]
    <2>1. ~Active(t) /\ pc[t] = "idle"
      BY <1>1, <1>4, <1>5 DEF OrderInv, TailInv, Active
    <2>2. tail[t] \in Slots /\ tail[t] < QUEUE_DEPTH /\ Idx(t) = tail[t]
      BY <1>1, TicketIndex
    <2> QED
      BY <1>1, <1>5, <2>1, <2>2, ThreadsAssumption
         DEF OrderInv, EntryInv, Stored, Idx, TypeOK
  <1>7. i = tail[t] /\ e = t
    <2>1. ~Unready(tail[t])
      BY <1>1, <1>6, ReadySlot
    <2>2. i = tail[t]
      BY <1>6, <2>1 DEF SeenIndex, NextSqe
    <2> QED
      BY <1>6, <2>1, <2>2 DEF SeenSqe
  <1>8. inflight' = inflight \union {[seq |-> tail[t], slot |-> tail[t], msg |-> t]}
    BY <1>3, <1>5, <1>6, <1>7, AskedMsg DEF TakeWrite, TakeNop
  <1>9. sring_head' = sring_head + 1
    BY <1>4, <1>5, <1>6, IncCases, ConstantTypes DEF Counter
  <1>10. lines[t] = 0
    BY <1>1, <1>4, <1>5, <1>6 DEF OrderInv, OutputInv, Counter
  <1>11. \A u \in called : tail[u] \in Nat /\ (tail[u] < sring_head => tail[u] < sring_head')
    BY <1>1, <1>4, <1>9 DEF RingTypeOK, Counter, TypeOK
  <1>12. TailInv'
    BY <1>1, <1>4, <1>9 DEF OrderInv, TailInv, Active, callers, RingTypeOK, Counter
  <1>13. EntryInv'
    BY <1>1, <1>4 DEF OrderInv, EntryInv, Stored, callers
  <1>14. ASSUME NEW r \in inflight'
         PROVE  \E u \in called :
                  /\ r = [seq |-> tail[u], slot |-> tail[u], msg |-> u]
                  /\ tail[u] < sring_head'
                  /\ lines[u] = 0
    <2>1. CASE r \in inflight
      BY <1>1, <1>11, <2>1 DEF OrderInv, OutputInv
    <2>2. CASE r = [seq |-> tail[t], slot |-> tail[t], msg |-> t]
      <3>1. tail[t] < sring_head'
        BY <1>4, <1>5, <1>9 DEF Counter
      <3> QED
        BY <1>10, <2>2, <3>1
    <2> QED
      BY <1>8, <2>1, <2>2
  <1>15. OutputInv'
    BY <1>1, <1>4, <1>11, <1>14 DEF OrderInv, OutputInv, callers
  <1> QED
    BY <1>12, <1>13, <1>15 DEF OrderInv

(* A write puts out the message of its thread, for the first time.         *)
LEMMA WriteOrder ==
  ASSUME FewThreads, MtInv, InOrder, Write
  PROVE  OrderInv'
  <1>1. OrderInv /\ TypeOK /\ TicketInv /\ RingTypeOK
    BY DEF MtInv, TypeOK
  <1>2. PICK r \in inflight : \E x \in SeenText(r) : PutOut(r, x)
    BY DEF Write
  <1>3. PICK x \in SeenText(r) : PutOut(r, x)
    BY <1>2
  <1>4. PICK t \in called :
          /\ r = [seq |-> tail[t], slot |-> tail[t], msg |-> t]
          /\ tail[t] < sring_head
          /\ lines[t] = 0
    BY <1>1 DEF OrderInv, OutputInv
  <1>5. UNCHANGED <<ring, msg_pool, pc, callers, called>>
    BY <1>3 DEF PutOut, Write, main
  <1>6. ~Active(t) /\ pc[t] = "idle" /\ msg_pool[tail[t]] = t
    <2>1. tail[t] < sring_tail
      BY <1>1, <1>4 DEF OrderInv, TailInv, RingTypeOK, Counter, TypeOK
    <2> QED
      BY <1>1, <2>1 DEF OrderInv, TailInv, Active, EntryInv, Stored
  <1>7. x = t
    <2>1. ~Unready(tail[t])
      BY <1>1, <1>6, ReadySlot
    <2>2. Text(r) = t
      BY <1>4, <1>6 DEF Text
    <2> QED
      BY <1>4, <2>1, <2>2 DEF SeenText
  <1>8. t \in Texts /\ t # Garbled /\ Garbled \in Texts /\ Producers \subseteq Texts
    BY <1>1, ThreadsAssumption, RingAssumption DEF TypeOK, Texts
  <1>9. /\ inflight' = inflight \ {r}
        /\ lines'[t] = 1
        /\ \A y \in Texts \ {t} : lines'[y] = lines[y]
    BY <1>1, <1>3, <1>4, <1>7, <1>8 DEF PutOut, RingTypeOK
  <1>10. TailInv' /\ EntryInv'
    BY <1>1, <1>5 DEF OrderInv, TailInv, EntryInv, Stored, Active, ring, callers
  <1>11. ASSUME NEW q \in inflight'
         PROVE  \E u \in called :
                  /\ q = [seq |-> tail[u], slot |-> tail[u], msg |-> u]
                  /\ tail[u] < sring_head
                  /\ lines'[u] = 0
    <2>1. q \in inflight /\ q # r
      BY <1>9
    <2>2. PICK u \in called :
            /\ q = [seq |-> tail[u], slot |-> tail[u], msg |-> u]
            /\ tail[u] < sring_head
            /\ lines[u] = 0
      BY <1>1, <2>1 DEF OrderInv, OutputInv
    <2>3. u # t /\ u \in Texts
      BY <1>1, <1>4, <1>8, <2>1, <2>2 DEF TypeOK
    <2> QED
      BY <1>9, <2>2, <2>3
  <1>12. OutputInv'
    BY <1>1, <1>4, <1>5, <1>8, <1>9, <1>11 DEF OrderInv, OutputInv, ring, callers
  <1> QED
    BY <1>10, <1>12 DEF OrderInv

(* A step keeps the invariant.                                             *)
LEMMA MtStep ==
  ASSUME FewThreads, MtInv, [Next]_vars
  PROVE  MtInv'
  <1>1. TypeOK' /\ TicketInv'
    BY TypeStep, TicketStep DEF MtInv
  <1>2. ASSUME InOrder'
        PROVE  OrderInv'
    <2>1. InOrder
      BY <1>2 DEF Next, Call, InPerror, Fetch, Write, Idle, Waker, Teardown, Exit,
         Terminated, main, vars, MtInv, TypeOK, InOrder
    <2>2. CASE UNCHANGED <<ring, msg_pool, inflight, lines, callers, pc, called>>
      BY <2>1, <2>2 DEF MtInv, OrderInv, TailInv, EntryInv, OutputInv, Stored,
         Active, ring, callers
    <2>3. ~Teardown /\ ~Exit
      BY <1>2 DEF InOrder, Teardown, Exit
    <2> QED
      BY <1>2, <2>1, <2>2, <2>3, CallOrder, PerrorOrder, FetchOrder, WriteOrder
         DEF Next, Idle, PollerIdles, Waker, Terminated, vars, ringVars, main,
             kernel, InOrder
  <1> QED
    BY <1>1, <1>2 DEF MtInv

(* The invariant holds in every reachable state.                           *)
LEMMA MtCorrect ==
  ASSUME FewThreads
  PROVE  Spec => []MtInv
  <1>1. Init => MtInv
    <2> SUFFICES ASSUME Init PROVE MtInv
      OBVIOUS
    <2>1. TypeOK
      BY InitType DEF Init, TypeOK
    <2>2. TicketInv
      BY FS_EmptySet DEF Init, RingInit, TicketInv, Active
    <2>3. OrderInv
      BY ThreadsAssumption DEF Init, RingInit, OrderInv, TailInv, EntryInv,
         OutputInv, Texts
    <2> QED
      BY <2>1, <2>2, <2>3 DEF MtInv
  <1> QED
    BY <1>1, MtStep, PTL DEF Spec

(* As long as no tail store overtakes another, every message the kernel    *)
(* prints while main runs is whole and printed once.                       *)
THEOREM LinesCorrect ==
  ASSUME FewThreads
  PROVE  Spec => []InOrderPrintsWhole
  <1>1. MtInv => InOrderPrintsWhole
    BY DEF MtInv, InOrder, OrderInv, OutputInv, InOrderPrintsWhole
  <1> QED
    BY <1>1, MtCorrect, PTL

(* And every entry it may fetch is complete: none is skipped as a no-op.   *)
THEOREM FilledCorrect ==
  ASSUME FewThreads
  PROVE  Spec => []PublishedIsFilled
  <1>1. MtInv => PublishedIsFilled
    <2> SUFFICES ASSUME MtInv, InOrder, NEW i \in 0 .. Pending - 1
                 PROVE  LET s == Slot(sring_head + i) IN
                          sring_array[s] = s /\ sqes[s] \in Msgs
      BY DEF PublishedIsFilled, InOrder
    <2>1. /\ TypeOK /\ TicketInv /\ TailInv /\ EntryInv
          /\ sring_head \in Counter /\ sring_tail \in Counter
          /\ sring_head <= sring_tail /\ sring_tail <= sq_tail_cache
          /\ sq_tail_cache \in Counter
      BY DEF MtInv, OrderInv, TailInv, TypeOK, RingTypeOK
    <2>2. sring_head + i < sring_tail /\ sring_head + i \in Nat
      <3>1. Pending = sring_tail - sring_head
        BY <2>1, ModSmall, ConstantTypes DEF Pending, Sub, Counter
      <3> QED
        BY <2>1, <3>1 DEF Counter
    <2>3. PICK t \in called : tail[t] = sring_head + i
      <3>1. sring_head + i \in 0 .. sq_tail_cache - 1
        BY <2>1, <2>2 DEF Counter
      <3> QED
        BY <2>1, <3>1 DEF TicketInv
    <2>4. ~Active(t) /\ pc[t] = "idle"
      BY <2>1, <2>2, <2>3 DEF TailInv, Active
    <2>5. sqes[tail[t]] = t /\ sring_array[tail[t]] = tail[t]
      BY <2>1, <2>4 DEF EntryInv, Stored
    <2>6. Slot(sring_head + i) = tail[t]
      BY <2>1, <2>3, TicketIndex DEF Idx
    <2> QED
      BY <2>1, <2>5, <2>6, ThreadsAssumption DEF TypeOK
  <1> QED
    BY <1>1, MtCorrect, PTL

=============================================================================
