-------------------------- MODULE GpuSvmDemo_proofs --------------------------
(***************************************************************************)
(* Proofs about GpuSvmDemo, for every script, every ring size and every    *)
(* width of the counters.                                                  *)
(***************************************************************************)
EXTENDS GpuSvmDemo, UringRing_proofs

(* What the provers need of the script.                                    *)
LEMMA ScriptTypes ==
  /\ Len(Script) \in Nat
  /\ \A i \in 1 .. Len(Script) : Script[i].by \in Producers
  /\ \A i \in 1 .. Len(Script) : Script[i].msg \in Msgs
  <1> DEFINE Call1 == [by : Producers, msg : Msgs]
  <1>1. Script \in Seq(Call1)
    BY ScriptAssumption
  <1> HIDE DEF Call1
  <1>2. Len(Script) \in Nat /\ \A i \in 1 .. Len(Script) : Script[i] \in Call1
    BY <1>1
  <1> QED
    BY <1>2 DEF Call1

(* A step keeps the types.                                                 *)
LEMMA TypeStep ==
  ASSUME TypeOK, [Next]_vars
  PROVE  TypeOK'
  <1> USE DEF TypeOK, Phases
  <1>1. CASE Call
    <2>1. next \in 1 .. Len(Script) /\ next + 1 \in 1 .. Len(Script) + 1
      BY <1>1, ScriptTypes DEF Call
    <2>2. RingTypeOK'
      BY <1>1, <2>1, ScriptTypes, ReserveType DEF Call
    <2> QED
      BY <1>1, <2>1, <2>2 DEF Call
  <1>2. CASE BeginTeardown
    BY <1>2 DEF BeginTeardown, Wakeup, RingTypeOK, ring, callers
  <1>3. CASE FreePool
    BY <1>3 DEF FreePool, PoolAfterFree, RingTypeOK, ring, callers, kernel
  <1>4. CASE Exit
    BY <1>4 DEF Exit, RingTypeOK, ring, callers
  <1>5. ASSUME NEW p \in Producers, InPerror(p)
        PROVE  TypeOK'
    BY <1>5, PerrorType DEF InPerror
  <1>6. CASE KernelStep /\ UNCHANGED <<next, phase>>
    BY <1>6, KernelType
  <1>7. CASE UNCHANGED vars
    BY <1>7 DEF vars, ringVars, ring, callers, kernel, RingTypeOK
  <1> QED
    BY <1>1, <1>2, <1>3, <1>4, <1>5, <1>6, <1>7 DEF Next, Main, Terminated

(* Every variable keeps its type: indices stay in the ring, tickets and    *)
(* counters in their width, requests name messages that were asked for.    *)
THEOREM TypeCorrect == Spec => []TypeOK
  <1>1. Init => TypeOK
    BY InitType, ScriptTypes DEF Init, TypeOK, Phases
  <1>2. TypeOK /\ [Next]_vars => TypeOK'
    BY TypeStep
  <1> QED
    BY <1>1, <1>2, PTL DEF Spec

-----------------------------------------------------------------------------
(* The inductive invariant behind SubmitsInOrder.                          *)

\* The call in progress is the last one started, its ticket is the ring's
\* tail, and no other ticket is out.
CallInv ==
  \A p \in Producers : Active(p) =>
    /\ phase = "running"
    /\ next > 1
    /\ p = Script[next - 1].by
    /\ msg[p] = Script[next - 1].msg
    /\ tail[p] = sring_tail
    /\ sq_tail_cache = Inc(sring_tail)

\* Between calls every ticket taken has been published.
QuietInv == Quiescent => sq_tail_cache = sring_tail

\* Past the wait there is room for one more entry.
RoomInv ==
  /\ Pending <= Entries
  /\ \A p \in Producers : Writing(p) => Pending < Entries

\* What the call in progress has written so far.
StageInv ==
  \A p \in Producers :
    /\ pc[p] \in {"zero_sqe", "begin_sqe", "fill_sqe", "index", "publish"} =>
         msg_pool[Idx(p)] = msg[p]
    /\ pc[p] \in {"index", "publish"} => sqes[Idx(p)] = msg[p]
    /\ pc[p] = "publish" => sring_array[Idx(p)] = Idx(p)

IInv ==
  /\ TypeOK
  /\ CallInv
  /\ QuietInv
  /\ RoomInv
  /\ StageInv
  /\ SubmitsInOrder

(* The entries of the ring are counted from the head to the tail.          *)
LEMMA PendingTypes ==
  ASSUME TypeOK
  PROVE  /\ Pending \in Counter
         /\ Pending \in Nat
         /\ Pending = 0 <=> RingEmpty
         /\ sring_tail = (sring_head + Pending) % Wrap
  <1>1. sring_head \in Counter /\ sring_tail \in Counter
    BY DEF TypeOK, RingTypeOK
  <1>2. Pending \in Counter
    BY <1>1, CounterTypes DEF Pending, Counter
  <1> QED
    BY <1>1, <1>2, SubZero, TailIsHeadPlus DEF Pending, RingEmpty, Counter

(* There is at most one caller.                                            *)
LEMMA OneCaller ==
  ASSUME CallInv, NEW p \in Producers, NEW q \in Producers,
         Active(p), Active(q)
  PROVE  p = q
  BY DEF CallInv

(* The calls that have published, during and between calls.                *)
LEMMA PublishedCases ==
  ASSUME TypeOK
  PROVE  /\ Published \in Int
         /\ Quiescent => Published = next - 1
         /\ \A p \in Producers : Active(p) => Published = next - 2
  BY ScriptTypes DEF TypeOK, Published, Quiescent

(* With room in the ring, the position at the tail is not that of any      *)
(* entry the kernel has still to fetch.                                    *)
LEMMA TailSlotFree ==
  ASSUME TypeOK, Pending < Entries, NEW i \in 0 .. Pending - 1
  PROVE  Slot((sring_head + i) % Wrap) # Slot(sring_tail)
  <1>1. sring_head \in Counter
    BY DEF TypeOK, RingTypeOK
  <1>2. i \in Nat /\ i < Pending /\ Pending - i < Entries
    BY PendingTypes, ConstantTypes
  <1> QED
    BY <1>1, <1>2, PendingTypes, SlotsDiffer

(* A step that moves neither end of the ring, and writes nothing but the   *)
(* position of a producer past the wait, keeps the entries in order.       *)
LEMMA WriteKeepsOrder ==
  ASSUME IInv, TypeOK', NEW p \in Producers, Active(p), Active(p)',
         UNCHANGED <<sring_head, sring_tail, next, phase>>,
         \A s \in Slots :
            \/ Writing(p) /\ s = Idx(p)
            \/ /\ sring_array'[s] = sring_array[s]
               /\ sqes'[s] = sqes[s]
               /\ msg_pool'[s] = msg_pool[s]
  PROVE  SubmitsInOrder'
  <1>1. Pending' = Pending
    BY DEF Pending
  <1>2. Published' = Published /\ Fetched' = Fetched
    BY <1>1, PublishedCases DEF IInv, Fetched, Published, Quiescent
  <1>3. ASSUME NEW i \in 0 .. Pending - 1
        PROVE  LET s == Slot((sring_head + i) % Wrap) IN
               /\ s \in Slots
               /\ ~(Writing(p) /\ s = Idx(p))
    <2>1. Slot((sring_head + i) % Wrap) \in Slots
      BY CounterTypes, PendingTypes DEF IInv, TypeOK, RingTypeOK, Counter
    <2>2. Idx(p) = Slot(sring_tail)
      BY DEF IInv, CallInv, Idx
    <2> QED
      BY <2>1, <2>2, TailSlotFree DEF IInv, RoomInv
  <1> QED
    BY <1>1, <1>2, <1>3 DEF IInv, SubmitsInOrder

(* A call starts.                                                          *)
LEMMA CallStep ==
  ASSUME IInv, TypeOK', Call
  PROVE  IInv'
  <1> DEFINE c == Script[next].by
  <1> USE DEF Call, Reserve, Step, ring, kernel
  <1>1. c \in Producers /\ next \in 1 .. Len(Script)
    BY ScriptTypes DEF IInv, TypeOK
  <1>2. /\ pc' = [pc EXCEPT ![c] = "room"]
        /\ \A q \in Producers : Active(q)' <=> q = c
        /\ \A q \in Producers : ~Writing(q)'
    BY <1>1 DEF Quiescent, Active, Writing, IInv, TypeOK, RingTypeOK
  <1>3. CallInv'
    BY <1>1, <1>2 DEF IInv, TypeOK, RingTypeOK, CallInv, QuietInv
  <1>4. QuietInv' /\ RoomInv' /\ StageInv'
    BY <1>1, <1>2 DEF Quiescent, QuietInv, RoomInv, StageInv, Pending, IInv, Writing
  <1>5. SubmitsInOrder'
    <2>1. Pending' = Pending /\ next' = next + 1
      BY DEF Pending
    <2>2. Published' = Published /\ Fetched' = Fetched
      BY <1>1, <1>2, <2>1 DEF Published, Fetched, Quiescent
    <2> QED
      BY <2>1, <2>2 DEF IInv, SubmitsInOrder
  <1> QED
    BY <1>3, <1>4, <1>5 DEF IInv

(* A call in progress takes a step that stores no tail.                    *)
LEMMA WriteStep ==
  ASSUME IInv, TypeOK', NEW p \in Producers,
         UNCHANGED <<next, phase>>,
         \/ AwaitRoom(p) \/ ZeroBuff(p) \/ CopyMsg(p) \/ ZeroSqe(p)
         \/ BeginSqe(p) \/ FillSqe(p) \/ SetArray(p)
  PROVE  IInv'
  <1> USE DEF AwaitRoom, ZeroBuff, CopyMsg, ZeroSqe, BeginSqe, FillSqe, SetArray, Step,
              ring, callers, kernel
  <1>1. /\ Active(p) /\ Active(p)' /\ Writing(p)'
        /\ UNCHANGED <<sring_head, sring_tail, sq_tail_cache, tail, msg>>
        /\ Pending' = Pending
    BY DEF Active, Writing, Pending, IInv, TypeOK, RingTypeOK
  <1>2. \A q \in Producers : Active(q) <=> q = p
    BY <1>1, OneCaller DEF IInv
  <1>3. \A q \in Producers : q # p => pc'[q] = pc[q] /\ pc[q] = "idle"
    BY <1>2 DEF IInv, TypeOK, RingTypeOK, Active
  <1>4. CallInv'
    BY <1>1, <1>2, <1>3 DEF IInv, CallInv, Active
  <1>5. QuietInv'
    BY <1>1 DEF QuietInv, Quiescent
  <1>6. RoomInv'
    <2>1. CASE AwaitRoom(p)
      <3>1. Pending < Entries
        BY <1>1, <2>1, ScriptAssumption DEF IInv, CallInv, Pending
      <3> QED
        BY <1>1, <3>1, <1>3 DEF RoomInv, IInv, Writing
    <2>2. CASE ~AwaitRoom(p)
      <3>1. Writing(p)
        BY <2>2 DEF Writing, IInv, TypeOK, RingTypeOK
      <3> QED
        BY <1>1, <1>3, <3>1 DEF RoomInv, IInv, Writing
    <2> QED
      BY <2>1, <2>2
  <1>7. StageInv'
    <2>1. Idx(p)' = Idx(p) /\ Idx(p) \in Slots
      BY <1>1, CounterTypes DEF Idx, IInv, TypeOK, RingTypeOK, Counter
    <2>2. /\ msg_pool \in [Slots -> Msgs \union {Zero}]
          /\ sqes \in [Slots -> Msgs \union {Zero, Half}]
          /\ sring_array \in [Slots -> Slots]
          /\ pc \in [Producers -> Stages]
      BY DEF IInv, TypeOK, RingTypeOK
    <2>3. /\ pc'[p] \in {"zero_sqe", "begin_sqe", "fill_sqe", "index", "publish"} =>
               msg_pool'[Idx(p)] = msg[p]
          /\ pc'[p] \in {"index", "publish"} => sqes'[Idx(p)] = msg[p]
          /\ pc'[p] = "publish" => sring_array'[Idx(p)] = Idx(p)
      BY <2>1, <2>2 DEF IInv, StageInv
    <2> QED
      BY <1>1, <1>3, <2>1, <2>3 DEF StageInv
  <1>8. SubmitsInOrder'
    <2>1. Idx(p) \in Slots
      BY CounterTypes DEF Idx, IInv, TypeOK, RingTypeOK, Counter
    <2>2. \A s \in Slots :
            \/ Writing(p) /\ s = Idx(p)
            \/ /\ sring_array'[s] = sring_array[s]
               /\ sqes'[s] = sqes[s]
               /\ msg_pool'[s] = msg_pool[s]
      BY <2>1 DEF Writing, IInv, TypeOK, RingTypeOK
    <2> QED
      BY <1>1, <2>2, WriteKeepsOrder
  <1> QED
    BY <1>4, <1>5, <1>6, <1>7, <1>8 DEF IInv

(* A call publishes its entry and returns.                                 *)
LEMMA PublishStep ==
  ASSUME IInv, TypeOK', NEW p \in Producers, UNCHANGED <<next, phase>>,
         Publish(p)
  PROVE  IInv'
  <1> USE DEF Publish, Step, callers, kernel
  <1>1. /\ pc[p] = "publish" /\ Active(p) /\ Writing(p)
        /\ tail[p] = sring_tail /\ sring_tail' = Inc(sring_tail)
        /\ sq_tail_cache' = Inc(sring_tail)
    BY DEF Active, Writing, IInv, CallInv
  <1>2. \A q \in Producers : ~Active(q)'
    BY <1>1, OneCaller DEF IInv, TypeOK, RingTypeOK, Active
  <1>3. CallInv' /\ QuietInv' /\ StageInv'
    BY <1>1, <1>2 DEF CallInv, QuietInv, StageInv, Active
  <1>4. Pending' = Pending + 1 /\ Pending < Entries
    <2>1. sring_tail \in Counter /\ sring_head \in Counter
      BY DEF IInv, TypeOK, RingTypeOK
    <2>2. Pending < Entries /\ Sub(sring_tail, sring_head) + 1 < Wrap
      BY <1>1, PendingTypes, ConstantTypes DEF IInv, RoomInv, Pending
    <2> QED
      BY <1>1, <2>1, <2>2, SubIncTail DEF Pending
  <1>5. RoomInv'
    BY <1>2, <1>4, PendingTypes, ConstantTypes
       DEF IInv, RoomInv, Writing, Active
  <1>6. SubmitsInOrder'
    <2>1. /\ Published = next - 2 /\ Published' = next - 1
          /\ Published' = Published + 1 /\ Fetched' = Fetched
      BY <1>1, <1>2, <1>4, ScriptTypes, PublishedCases, PendingTypes
         DEF IInv, TypeOK, Published, Fetched, Quiescent
    <2>2. Pending' <= Published'
      BY <1>4, <2>1, PendingTypes, PublishedCases DEF IInv, SubmitsInOrder
    <2>3. ASSUME NEW i \in 0 .. Pending' - 1
          PROVE  LET s == Slot((sring_head + i) % Wrap) IN
                 /\ sring_array[s] = s
                 /\ sqes[s] = Script[Fetched + i + 1].msg
                 /\ phase \in {"running", "sleeping"} => msg_pool[s] = sqes[s]
      <3>1. CASE i < Pending
        BY <1>4, <3>1, PendingTypes DEF IInv, SubmitsInOrder
      <3>2. CASE i = Pending
        <4>1. Slot((sring_head + i) % Wrap) = Idx(p)
          BY <1>1, <3>2, PendingTypes DEF Idx, IInv
        <4>2. Fetched + i + 1 = next - 1
          BY <2>1, <3>2, PendingTypes, ScriptTypes DEF Fetched, IInv, TypeOK
        <4> QED
          BY <1>1, <4>1, <4>2 DEF IInv, StageInv, CallInv
      <3> QED
        BY <1>4, <3>1, <3>2, PendingTypes DEF IInv
    <2> QED
      BY <2>1, <2>2, <2>3 DEF SubmitsInOrder
  <1> QED
    BY <1>3, <1>5, <1>6 DEF IInv

(* The kernel fetches an entry.                                            *)
LEMMA FetchStep ==
  ASSUME IInv, TypeOK', UNCHANGED <<next, phase>>, FetchWrite \/ FetchNop
  PROVE  IInv'
  <1>1. /\ ~RingEmpty /\ sring_head' = Inc(sring_head)
        /\ UNCHANGED <<sring_tail, sring_array, sqes, msg_pool, pc,
                       sq_tail_cache, tail, msg>>
    BY DEF FetchWrite, FetchNop, TakeWrite, TakeNop, callers
  <1>2. sring_head \in Counter /\ sring_tail \in Counter
    BY DEF IInv, TypeOK, RingTypeOK
  <1>3. Pending' = Pending - 1
    BY <1>1, <1>2, SubIncHead DEF Pending, RingEmpty
  <1>4. CallInv' /\ QuietInv' /\ StageInv'
    BY <1>1 DEF IInv, CallInv, QuietInv, StageInv, Active, Quiescent, Idx
  <1>5. RoomInv'
    BY <1>1, <1>3, PendingTypes, ConstantTypes DEF IInv, RoomInv, Writing
  <1>6. SubmitsInOrder'
    <2>1. /\ Published' = Published /\ Published \in Int
          /\ Fetched' = Fetched + 1 /\ Fetched \in Int
      <3>1. Published' = Published /\ Published \in Int
        BY <1>1, PublishedCases DEF IInv, Published, Quiescent, Active
      <3> QED
        BY <3>1, <1>3, PendingTypes DEF IInv, Fetched
    <2>2. ASSUME NEW i \in 0 .. Pending' - 1
          PROVE  LET s == Slot((sring_head' + i) % Wrap) IN
                 /\ sring_array[s] = s
                 /\ sqes[s] = Script[Fetched' + i + 1].msg
                 /\ phase \in {"running", "sleeping"} => msg_pool[s] = sqes[s]
      <3>1. i \in Nat /\ i + 1 \in 0 .. Pending - 1
        BY <1>3, PendingTypes DEF IInv
      <3>2. (sring_head' + i) % Wrap = (sring_head + (i + 1)) % Wrap
        BY <1>1, <1>2, <3>1, FromNextHead
      <3>3. Fetched' + i + 1 = Fetched + (i + 1) + 1
        BY <2>1, <3>1
      <3> QED
        BY <3>1, <3>2, <3>3 DEF IInv, SubmitsInOrder
    <2>3. Pending' <= Published'
      BY <1>3, <2>1, PendingTypes DEF IInv, SubmitsInOrder
    <2> QED
      BY <1>1, <2>2, <2>3 DEF SubmitsInOrder
  <1> QED
    BY <1>4, <1>5, <1>6 DEF IInv

(* The other steps leave the ring and the callers alone; only FreePool     *)
(* touches the pool, when no call is in progress and nothing is promised   *)
(* of it any more.                                                         *)
LEMMA OtherStep ==
  ASSUME IInv, TypeOK', UNCHANGED <<ring, pc, callers, next>>,
         \/ UNCHANGED <<msg_pool, phase>>
         \/ /\ Quiescent
            /\ \/ phase \in {"running", "sleeping"} /\ UNCHANGED msg_pool
               \/ phase' \notin {"running", "sleeping"}
  PROVE  IInv'
  <1> USE DEF ring, callers
  <1>1. /\ Pending' = Pending /\ Published' = Published /\ Fetched' = Fetched
    BY DEF Pending, Published, Fetched, Quiescent, Active
  <1>2. CallInv' /\ QuietInv' /\ RoomInv' /\ StageInv'
    BY <1>1 DEF IInv, CallInv, QuietInv, RoomInv, StageInv, Active, Quiescent,
                Idx, Writing
  <1>3. SubmitsInOrder'
    BY <1>1 DEF IInv, SubmitsInOrder
  <1> QED
    BY <1>2, <1>3 DEF IInv

(* The invariant holds at the start, when the ring is empty.               *)
LEMMA InitIInv == Init => IInv
  <1> SUFFICES ASSUME Init PROVE IInv
    OBVIOUS
  <1> USE DEF Init, RingInit
  <1>1. TypeOK
    BY InitType, ScriptTypes DEF TypeOK, Phases
  <1>2. Quiescent /\ Pending = 0 /\ Published = 0
    <2>1. Quiescent
      BY DEF Quiescent, Active
    <2>2. RingEmpty /\ Published = next - 1
      BY <1>1, <2>1, PublishedCases DEF RingEmpty
    <2> QED
      BY <1>1, <2>1, <2>2, PendingTypes
  <1> QED
    BY <1>1, <1>2, ConstantTypes
       DEF IInv, CallInv, QuietInv, RoomInv, StageInv, SubmitsInOrder, Writing,
           Quiescent, Active

(* Every step keeps it.                                                    *)
LEMMA StepIInv ==
  ASSUME IInv, [Next]_vars
  PROVE  IInv'
  <1>1. TypeOK'
    BY TypeStep DEF IInv
  <1>2. CASE Call
    BY <1>1, <1>2, CallStep
  <1>3. CASE BeginTeardown
    BY <1>1, <1>3, OtherStep DEF BeginTeardown
  <1>4. CASE FreePool
    <2>1. Quiescent
      BY <1>4 DEF FreePool, Quiescent, IInv, CallInv
    <2> QED
      BY <1>1, <1>4, <2>1, OtherStep DEF FreePool
  <1>5. CASE Exit
    BY <1>1, <1>5, OtherStep DEF Exit, IInv, CallInv, Quiescent
  <1>6. ASSUME NEW p \in Producers, InPerror(p)
        PROVE  IInv'
    BY <1>1, <1>6, WriteStep, PublishStep DEF InPerror, Perror
  <1>7. CASE KernelStep /\ UNCHANGED <<next, phase>>
    <2>1. CASE FetchWrite \/ FetchNop
      BY <1>1, <1>7, <2>1, FetchStep
    <2>2. ASSUME NEW r \in inflight, PerformWrite(r)
          PROVE  IInv'
      BY <1>1, <1>7, <2>2, OtherStep DEF PerformWrite, PutOut
    <2>3. CASE PollerIdles
      BY <1>1, <1>7, <2>3, OtherStep DEF PollerIdles
    <2> QED
      BY <1>7, <2>1, <2>2, <2>3 DEF KernelStep
  <1>8. CASE UNCHANGED vars
    BY <1>1, <1>8, OtherStep DEF vars, ringVars
  <1> QED
    BY <1>2, <1>3, <1>4, <1>5, <1>6, <1>7, <1>8 DEF Next, Main, Terminated

(* Whatever the kernel may fetch is complete, in call order, and backed by *)
(* its buffer until teardown, for every script, however often the ring and *)
(* its counters wrap.                                                      *)
THEOREM OrderCorrect == Spec => []SubmitsInOrder
  <1>1. Spec => []IInv
    BY InitIInv, StepIInv, PTL DEF Spec
  <1>2. IInv => SubmitsInOrder
    BY DEF IInv
  <1> QED
    BY <1>1, <1>2, PTL

(* The ring never holds more entries than it has positions.                *)
THEOREM RoomCorrect == Spec => []NeverOverfull
  <1>1. Spec => []IInv
    BY InitIInv, StepIInv, PTL DEF Spec
  <1>2. IInv => NeverOverfull
    BY DEF IInv, RoomInv, NeverOverfull
  <1> QED
    BY <1>1, <1>2, PTL

(* Every store to the ring's tail moves it by exactly one entry.           *)
THEOREM TailCorrect == Spec => TailAdvances
  <1>1. Spec => []IInv
    BY InitIInv, StepIInv, PTL DEF Spec
  <1>2. ASSUME IInv, [Next]_vars, sring_tail' # sring_tail
        PROVE  sring_tail' = Inc(sring_tail)
    <2>1. ASSUME NEW p \in Producers, Publish(p)
          PROVE  sring_tail' = Inc(sring_tail)
      BY <1>2, <2>1 DEF Publish, Step, IInv, CallInv, Active
    <2>2. PICK p \in Producers : Publish(p)
      BY <1>2 DEF Next, Main, Call, Reserve, BeginTeardown, FreePool, Exit,
                  InPerror, Perror, AwaitRoom, ZeroBuff, CopyMsg, ZeroSqe,
                  BeginSqe, FillSqe, SetArray, KernelStep, FetchWrite, FetchNop, TakeWrite, TakeNop,
                  PerformWrite, PutOut, PollerIdles, Terminated, vars, ringVars, ring
    <2> QED
      BY <2>1, <2>2
  <1>3. IInv /\ [Next]_vars =>
          [sring_tail' # sring_tail => sring_tail' = Inc(sring_tail)]_vars
    BY <1>2
  <1> QED
    BY <1>1, <1>3, PTL DEF Spec, TailAdvances

-----------------------------------------------------------------------------
(* Scripts of at most QUEUE_DEPTH calls: no index is ever reused.          *)

ShortScript == Len(Script) <= QUEUE_DEPTH

\* Counters do not wrap: they count calls.
TicketInv == sring_tail = Published /\ sring_head = Fetched

(* The counters of a short script lie below Entries.                       *)
LEMMA TicketBounds ==
  ASSUME ShortScript, TypeOK
  PROVE  /\ Published \in Int /\ Published <= Len(Script)
         /\ \A p \in Producers : Active(p) => Published < Len(Script)
         /\ Len(Script) <= QUEUE_DEPTH /\ Len(Script) < Wrap
         /\ Len(Script) <= Entries
  BY ScriptTypes, ConstantTypes, PublishedCases
     DEF ShortScript, TypeOK, Published, Quiescent

(* A step keeps the counters equal to the calls they count.                *)
LEMMA TicketStep ==
  ASSUME ShortScript, IInv, IInv', TicketInv, [Next]_vars
  PROVE  TicketInv'
  <1>1. /\ sring_head \in Counter /\ sring_tail \in Counter
        /\ TypeOK /\ TypeOK'
    BY DEF IInv, TypeOK, RingTypeOK
  <1>2. CASE Call
    <2>1. Quiescent /\ next \in 1 .. Len(Script) /\ next' = next + 1
      BY <1>1, <1>2 DEF Call, TypeOK
    <2>2. pc'[Script[next].by] # "idle" /\ Script[next].by \in Producers
      BY <1>1, <1>2, <2>1, ScriptTypes
         DEF Call, Reserve, Step, Active, TypeOK, RingTypeOK
    <2>3. Published' = Published
      BY <1>1, <2>1, <2>2, ScriptTypes DEF Published, Quiescent, Active
    <2> QED
      BY <1>2, <2>3 DEF Call, Reserve, ring, TicketInv, Fetched, Pending
  <1>3. ASSUME NEW p \in Producers, InPerror(p), ~Publish(p)
        PROVE  TicketInv'
    <2>1. /\ Active(p) /\ Active(p)' /\ next' = next
          /\ UNCHANGED <<sring_head, sring_tail>>
      BY <1>1, <1>3 DEF InPerror, Perror, AwaitRoom, ZeroBuff, CopyMsg, ZeroSqe,
                  BeginSqe, FillSqe, SetArray, Step, Active, ring, TypeOK, RingTypeOK
    <2> QED
      BY <2>1 DEF TicketInv, Fetched, Published, Quiescent, Pending
  <1>4. ASSUME NEW p \in Producers, InPerror(p), Publish(p)
        PROVE  TicketInv'
    <2>1. /\ Active(p) /\ tail[p] = sring_tail /\ next' = next
          /\ sring_tail' = Inc(sring_tail) /\ sring_head' = sring_head
      BY <1>4 DEF InPerror, Publish, Step, Active, IInv, CallInv
    <2>2. Published' = Published + 1
      <3>1. \A q \in Producers : ~Active(q)'
        BY <1>1, <1>4, <2>1, OneCaller
           DEF Publish, Step, Active, IInv, TypeOK, RingTypeOK
      <3> QED
        BY <1>1, <2>1, <3>1, PublishedCases, ScriptTypes
           DEF TypeOK, Published, Quiescent
    <2>3. Inc(sring_tail) = sring_tail + 1
      BY <1>1, <2>1, TicketBounds, IncCases, ConstantTypes DEF TicketInv
    <2>4. Pending' = Pending + 1
      <3>1. Sub(sring_tail, sring_head) + 1 < Wrap
        BY <1>1, <1>4, PendingTypes, ConstantTypes
           DEF IInv, RoomInv, Writing, Publish, Step, Pending
      <3> QED
        BY <1>1, <2>1, <3>1, SubIncTail DEF Pending
    <2> QED
      BY <1>1, <2>1, <2>2, <2>3, <2>4, PendingTypes, PublishedCases
         DEF TicketInv, Fetched
  <1>5. CASE (FetchWrite \/ FetchNop) /\ UNCHANGED <<next, phase>>
    <2>1. /\ sring_head' = Inc(sring_head) /\ ~RingEmpty
          /\ UNCHANGED <<sring_tail, pc, next>>
      BY <1>5 DEF FetchWrite, FetchNop, TakeWrite, TakeNop
    <2>2. Pending' = Pending - 1
      BY <1>1, <2>1, SubIncHead DEF Pending, RingEmpty
    <2>3. Published' = Published
      BY <2>1 DEF Published, Quiescent, Active
    <2>4. sring_head < Wrap - 1
      <3>1. Pending >= 1
        BY <1>1, <2>1, PendingTypes
      <3> QED
        BY <1>1, <3>1, PendingTypes, TicketBounds, ConstantTypes, ScriptTypes
           DEF TicketInv, Fetched
    <2>5. Inc(sring_head) = sring_head + 1
      BY <1>1, <2>4, IncCases, ConstantTypes DEF Counter
    <2> QED
      BY <1>1, <2>1, <2>2, <2>3, <2>5, PendingTypes, PublishedCases
         DEF TicketInv, Fetched
  <1>6. CASE UNCHANGED <<sring_head, sring_tail, pc, next>>
    BY <1>6 DEF TicketInv, Fetched, Published, Quiescent, Active, Pending
  <1> QED
    BY <1>2, <1>3, <1>4, <1>5, <1>6
       DEF Next, Main, BeginTeardown, FreePool, Exit, KernelStep, PerformWrite, PutOut,
           PollerIdles, Terminated, vars, ringVars, ring

(* The counters of a short script count its calls.                         *)
LEMMA TicketCorrect ==
  ASSUME ShortScript
  PROVE  Spec => [](IInv /\ TicketInv)
  <1>1. Init => IInv /\ TicketInv
    <2> SUFFICES ASSUME Init PROVE IInv /\ TicketInv
      OBVIOUS
    <2>1. IInv /\ TypeOK
      BY InitIInv DEF IInv
    <2>2. Quiescent /\ RingEmpty /\ sring_head = 0 /\ sring_tail = 0 /\ next = 1
      BY DEF Init, RingInit, Quiescent, Active, RingEmpty
    <2> QED
      BY <2>1, <2>2, PublishedCases, PendingTypes DEF TicketInv, Fetched
  <1>2. IInv /\ TicketInv /\ [Next]_vars => (IInv /\ TicketInv)'
    BY StepIInv, TicketStep
  <1> QED
    BY <1>1, <1>2, PTL DEF Spec

(* A script of at most QUEUE_DEPTH calls never writes outside msg_pool,    *)
(* although the index ranges over the larger number of ring positions.     *)
THEOREM PoolCorrect ==
  ASSUME ShortScript
  PROVE  Spec => []WithinPool
  <1>1. ASSUME IInv, TicketInv
        PROVE  WithinPool
    <2> SUFFICES ASSUME NEW p \in Producers, Writing(p)
                 PROVE  Idx(p) < QUEUE_DEPTH
      BY DEF WithinPool
    <2>1. Active(p) /\ tail[p] = Published /\ TypeOK /\ tail[p] \in Counter
      BY <1>1 DEF IInv, CallInv, TicketInv, Writing, Active, TypeOK, RingTypeOK
    <2>2. tail[p] \in 0 .. Entries - 1 /\ tail[p] < QUEUE_DEPTH
      BY <2>1, TicketBounds, ConstantTypes DEF Counter
    <2> QED
      BY <2>2, ModSmall, ConstantTypes DEF Idx, Slot
  <1> QED
    BY <1>1, TicketCorrect, PTL

-----------------------------------------------------------------------------
(* Short scripts, given that sleep(3) is long enough: what is printed.     *)

\* A write in flight finds its message in its buffer; a text has been
\* printed once if it is the message of a call whose entry was fetched and
\* is not in flight, and never otherwise; main frees the pool after that.
PrintInv ==
  /\ \A r \in inflight :
       /\ r.slot = r.seq
       /\ r.seq < sring_head
       /\ r.msg = Script[r.seq + 1].msg
       /\ msg_pool[r.slot] = r.msg
  /\ \A x \in Texts :
       lines[x] = IF \E i \in 1 .. sring_head :
                       Script[i].msg = x /\ \A r \in inflight : r.seq # i - 1
                  THEN 1 ELSE 0
  /\ phase = "sleeping" => poller = "polling" \/ RingEmpty
  /\ phase \in {"freed", "exited"} => RingEmpty /\ inflight = {}

ShortInv == IInv /\ TicketInv /\ PrintInv

(* The messages of different calls differ.                                 *)
LEMMA ScriptDistinct ==
  ASSUME NEW i \in 1 .. Len(Script), NEW j \in 1 .. Len(Script),
         Script[i].msg = Script[j].msg
  PROVE  i = j
  BY ScriptAssumption

(* Head and tail of a short script, and the entry the kernel reads next.   *)
LEMMA HeadAndTail ==
  ASSUME ShortScript, IInv, TicketInv
  PROVE  /\ sring_head \in Nat /\ sring_tail \in Nat
         /\ sring_head <= sring_tail /\ sring_tail <= Len(Script)
         /\ RingEmpty \/ /\ sring_head < sring_tail
                         /\ NextSqe = sring_head
                         /\ sqes[NextSqe] = Script[sring_head + 1].msg
                         /\ sqes[NextSqe] \in Msgs
                         /\ phase \in {"running", "sleeping"} =>
                              msg_pool[NextSqe] = sqes[NextSqe]
  <1>1. /\ TypeOK /\ sring_head \in Counter /\ sring_tail \in Counter
        /\ Pending \in Nat /\ Pending <= Published
    BY PendingTypes DEF IInv, TypeOK, RingTypeOK, SubmitsInOrder
  <1>2. /\ sring_head \in Nat /\ sring_tail \in Nat /\ Fetched = sring_head
        /\ sring_head <= sring_tail /\ sring_tail <= Len(Script)
    BY <1>1, TicketBounds DEF Counter, TicketInv, Fetched
  <1>3. ASSUME ~RingEmpty
        PROVE  /\ sring_head < sring_tail
               /\ NextSqe = sring_head
               /\ sqes[NextSqe] = Script[sring_head + 1].msg
               /\ sqes[NextSqe] \in Msgs
               /\ phase \in {"running", "sleeping"} =>
                    msg_pool[NextSqe] = sqes[NextSqe]
    <2>1. sring_head < sring_tail /\ sring_head + 1 \in 1 .. Len(Script)
      BY <1>2, <1>3, ScriptTypes DEF RingEmpty
    <2>2. 0 \in 0 .. Pending - 1
      BY <1>1, <1>3, PendingTypes
    <2>3. sring_head \in 0 .. Wrap - 1 /\ sring_head \in 0 .. Entries - 1
      BY <1>1, <1>2, <2>1, TicketBounds, ConstantTypes DEF Counter
    <2>4. (sring_head + 0) % Wrap = sring_head /\ Slot(sring_head) = sring_head
      BY <2>3, ModSmall, ConstantTypes DEF Slot
    <2>5. /\ sring_array[sring_head] = sring_head
          /\ sqes[sring_head] = Script[Fetched + 0 + 1].msg
          /\ phase \in {"running", "sleeping"} =>
               msg_pool[sring_head] = sqes[sring_head]
      BY <2>2, <2>4 DEF IInv, SubmitsInOrder
    <2>6. Fetched + 0 + 1 = sring_head + 1
      BY <1>2
    <2> QED
      BY <2>1, <2>4, <2>5, <2>6, ScriptTypes DEF NextSqe
  <1> QED
    BY <1>2, <1>3

(* The index of a call in progress is the tail.                            *)
LEMMA CallerIndex ==
  ASSUME ShortScript, IInv, TicketInv, NEW p \in Producers, Active(p)
  PROVE  Idx(p) = sring_tail
  <1>1. tail[p] = sring_tail /\ sring_tail = Published /\ TypeOK
    BY DEF IInv, CallInv, TicketInv
  <1>2. sring_tail \in 0 .. Entries - 1
    BY <1>1, HeadAndTail, TicketBounds, ConstantTypes
  <1> QED
    BY <1>1, <1>2, ModSmall, ConstantTypes DEF Idx, Slot

(* The kernel fetches: a write, never a NOP, of the next call's message.   *)
LEMMA FetchPrints ==
  ASSUME ShortScript, ShortInv, IInv', TicketInv', UNCHANGED <<next, phase>>,
         FetchWrite \/ FetchNop
  PROVE  PrintInv'
  <1>1. /\ ~RingEmpty /\ IInv /\ TicketInv /\ PrintInv /\ poller = "polling"
        /\ sring_head' = Inc(sring_head)
        /\ UNCHANGED <<msg_pool, lines, poller>>
    BY DEF FetchWrite, FetchNop, TakeWrite, TakeNop, ShortInv, kernel
  <1>2. /\ NextSqe = sring_head
        /\ sqes[NextSqe] = Script[sring_head + 1].msg
        /\ sqes[NextSqe] \in Msgs
        /\ phase \in {"running", "sleeping"}
        /\ msg_pool[NextSqe] = sqes[NextSqe]
        /\ sring_head \in Nat /\ sring_head + 1 <= Len(Script)
    BY <1>1, HeadAndTail, ScriptTypes
       DEF PrintInv, IInv, TypeOK, Phases
  <1>3. sring_head' = sring_head + 1
    BY <1>1, <1>2, TicketBounds, IncCases, ConstantTypes, ScriptTypes
       DEF IInv, TypeOK, RingTypeOK
  <1> DEFINE n == [seq |-> sring_head, slot |-> NextSqe, msg |-> sqes[NextSqe]]
  <1>4. inflight' = inflight \union {n}
    <2>1. /\ Asked(NextSqe, sqes[NextSqe]) = {sqes[NextSqe]}
          /\ sqes[NextSqe] \notin {Zero, Half}
      BY <1>2, AskedMsg
    <2> QED
      BY <2>1 DEF FetchWrite, FetchNop, TakeWrite, TakeNop
  <1>5. /\ n.seq = sring_head /\ n.slot = sring_head
        /\ n.msg = Script[sring_head + 1].msg /\ msg_pool[sring_head] = n.msg
    BY <1>2
  <1> HIDE DEF n
  <1>6. \A r \in inflight :
          /\ r.seq \in Nat /\ r.slot = r.seq /\ r.seq < sring_head
          /\ r.msg = Script[r.seq + 1].msg /\ msg_pool[r.slot] = r.msg
    BY <1>1, CounterTypes DEF PrintInv, IInv, TypeOK, RingTypeOK, Request, Counter
  <1>7. \A r \in inflight' :
          /\ r.slot = r.seq /\ r.seq < sring_head'
          /\ r.msg = Script[r.seq + 1].msg /\ msg_pool'[r.slot] = r.msg
    BY <1>1, <1>2, <1>3, <1>4, <1>5, <1>6
  <1>8. ASSUME NEW x \in Texts
        PROVE  (\E i \in 1 .. sring_head' :
                  Script[i].msg = x /\ \A r \in inflight' : r.seq # i - 1)
               <=> (\E i \in 1 .. sring_head :
                      Script[i].msg = x /\ \A r \in inflight : r.seq # i - 1)
    <2>1. ASSUME NEW i \in 1 .. sring_head', \A r \in inflight' : r.seq # i - 1
          PROVE  i \in 1 .. sring_head /\ \A r \in inflight : r.seq # i - 1
      <3>1. n.seq # i - 1
        BY <1>4, <2>1
      <3> QED
        BY <1>2, <1>3, <1>4, <1>5, <2>1, <3>1
    <2>2. ASSUME NEW i \in 1 .. sring_head, \A r \in inflight : r.seq # i - 1
          PROVE  i \in 1 .. sring_head' /\ \A r \in inflight' : r.seq # i - 1
      BY <1>2, <1>3, <1>4, <1>5, <2>2
    <2> QED
      BY <2>1, <2>2
  <1> QED
    BY <1>1, <1>2, <1>7, <1>8 DEF PrintInv

(* A write is performed: its message, whole, for the first time.           *)
LEMMA WritePrints ==
  ASSUME ShortScript, ShortInv, UNCHANGED <<next, phase>>,
         NEW r \in inflight, PerformWrite(r)
  PROVE  /\ PrintInv'
         /\ r.msg \in Msgs /\ lines[r.msg] = 0
         /\ lines' = [lines EXCEPT ![r.msg] = 1]
         /\ phase \in {"running", "sleeping"}
         /\ r.msg \in {Script[i].msg : i \in 1 .. Published}
  <1>1. /\ IInv /\ TicketInv /\ PrintInv /\ TypeOK /\ RingTypeOK
        /\ inflight' = inflight \ {r}
        /\ UNCHANGED <<msg_pool, poller, sring_head, sring_tail>>
    BY DEF PerformWrite, PutOut, ShortInv, IInv, TypeOK, ring
  <1> DEFINE k == r.seq + 1
  <1>2. /\ r.slot = r.seq /\ r.seq < sring_head /\ r.msg = Script[k].msg
        /\ msg_pool[r.slot] = r.msg /\ r.seq \in Nat /\ r.msg \in Msgs
        /\ phase \in {"running", "sleeping"}
    <2>1. /\ r.slot = r.seq /\ r.seq < sring_head /\ r.msg = Script[k].msg
          /\ msg_pool[r.slot] = r.msg /\ r.seq \in Nat
          /\ phase \in {"running", "sleeping"}
      BY <1>1 DEF PrintInv, RingTypeOK, Request, Counter, TypeOK, Phases
    <2>2. k \in 1 .. Len(Script)
      BY <1>1, <2>1, HeadAndTail, PublishedCases, ScriptTypes DEF TicketInv
    <2> QED
      BY <2>1, <2>2, ScriptTypes
  <1>3. /\ sring_head \in Nat /\ sring_head <= Len(Script) /\ k \in 1 .. sring_head
        /\ sring_head <= Published /\ Published \in Int
    BY <1>1, <1>2, HeadAndTail, PublishedCases, ScriptTypes DEF TicketInv
  <1> HIDE DEF k
  <1>4. r.seq = k - 1
    BY <1>2 DEF k
  <1>5. ASSUME NEW i \in 1 .. sring_head, Script[i].msg = r.msg
        PROVE  i = k
    BY <1>2, <1>3, <1>5, ScriptDistinct, ScriptTypes
  <1>6. lines[r.msg] = 0
    BY <1>1, <1>2, <1>4, <1>5 DEF PrintInv, Texts
  <1>7. lines' = [lines EXCEPT ![r.msg] = 1]
    <2>1. Text(r) = r.msg
      BY <1>2 DEF Text
    <2>2. (IF lines[r.msg] < 2 THEN lines[r.msg] + 1 ELSE 2) = 1
      BY <1>6
    <2>3. lines' = [lines EXCEPT ![r.msg] =
                      IF lines[r.msg] < 2 THEN lines[r.msg] + 1 ELSE 2]
      BY <2>1 DEF PerformWrite, PutOut
    <2> QED
      BY <2>2, <2>3
  <1>8. ASSUME NEW q \in inflight, q.seq = r.seq
        PROVE  q = r
    BY <1>1, <1>8 DEF PrintInv, RingTypeOK, Request
  <1>9. ASSUME NEW x \in Texts
        PROVE  lines'[x] = IF \E i \in 1 .. sring_head :
                              /\ Script[i].msg = x
                              /\ \A q \in inflight' : q.seq # i - 1
                           THEN 1 ELSE 0
    <2>1. CASE x = r.msg
      <3>1. \A q \in inflight' : q.seq # k - 1
        BY <1>1, <1>4, <1>8
      <3> QED
        BY <1>1, <1>2, <1>3, <1>7, <2>1, <3>1 DEF RingTypeOK
    <2>2. CASE x # r.msg
      <3>1. lines'[x] = lines[x]
        BY <1>1, <1>7, <2>2 DEF RingTypeOK
      <3>2. ASSUME NEW i \in 1 .. sring_head, Script[i].msg = x
            PROVE  (\A q \in inflight' : q.seq # i - 1)
                   <=> (\A q \in inflight : q.seq # i - 1)
        <4>1. i # k
          BY <1>2, <2>2, <3>2
        <4>2. r.seq # i - 1
          BY <1>3, <1>4, <4>1
        <4> QED
          BY <1>1, <4>2
      <3> QED
        BY <1>1, <3>1, <3>2 DEF PrintInv
    <2> QED
      BY <2>1, <2>2
  <1>10. PrintInv'
    BY <1>1, <1>2, <1>9 DEF PrintInv, RingEmpty
  <1>11. r.msg \in {Script[i].msg : i \in 1 .. Published}
    BY <1>2, <1>3
  <1> QED
    BY <1>2, <1>6, <1>7, <1>10, <1>11

(* Every other step leaves what is printed and in flight alone.            *)
LEMMA QuietPrints ==
  ASSUME ShortScript, DrainsInTime, ShortInv,
         \/ Main
         \/ \E p \in Producers : InPerror(p)
         \/ PollerIdles /\ UNCHANGED <<next, phase>>
         \/ UNCHANGED vars
  PROVE  /\ PrintInv'
         /\ lines' = lines
  <1>1. IInv /\ TicketInv /\ PrintInv /\ TypeOK /\ RingTypeOK
    BY DEF ShortInv, IInv, TypeOK
  <1>2. CASE Call
    BY <1>1, <1>2 DEF Call, Reserve, PrintInv, RingEmpty, ring, kernel
  <1>3. CASE BeginTeardown
    BY <1>1, <1>3 DEF BeginTeardown, Wakeup, PrintInv, RingEmpty, ring
  <1>4. CASE FreePool
    <2>1. RingEmpty /\ inflight = {}
      BY <1>1, <1>4 DEF FreePool, PrintInv, KernelDone
    <2> QED
      BY <1>1, <1>4, <2>1 DEF FreePool, PrintInv, RingEmpty, ring, kernel
  <1>5. CASE Exit
    BY <1>1, <1>5 DEF Exit, PrintInv, RingEmpty, ring
  <1>6. ASSUME NEW p \in Producers, InPerror(p)
        PROVE  /\ PrintInv'
               /\ UNCHANGED <<lines, inflight>>
    <2>1. /\ Active(p) /\ phase = "running" /\ phase' = "running"
          /\ UNCHANGED <<sring_head, inflight, lines, poller>>
      BY <1>1, <1>6 DEF InPerror, Perror, AwaitRoom, ZeroBuff, CopyMsg, ZeroSqe,
            BeginSqe, FillSqe, SetArray, Publish, Step, Active, ring, kernel, IInv, CallInv
    <2>2. \A r \in inflight : msg_pool'[r.slot] = msg_pool[r.slot]
      <3>1. \A r \in inflight : r.slot # Idx(p) /\ r.slot \in Slots
        BY <1>1, <2>1, CallerIndex, HeadAndTail
           DEF PrintInv, RingTypeOK, Request, Counter
      <3> QED
        BY <1>1, <1>6, <3>1 DEF InPerror, Perror, AwaitRoom, ZeroBuff, CopyMsg,
              ZeroSqe, BeginSqe, FillSqe, SetArray, Publish, RingTypeOK
    <2> QED
      BY <1>1, <2>1, <2>2 DEF PrintInv
  <1>7. CASE PollerIdles /\ UNCHANGED <<next, phase>>
    BY <1>1, <1>7 DEF PollerIdles, PrintInv, RingEmpty, ring
  <1>8. CASE UNCHANGED vars
    BY <1>1, <1>8 DEF vars, ringVars, ring, kernel, PrintInv, RingEmpty
  <1> QED
    BY <1>2, <1>3, <1>4, <1>5, <1>6, <1>7, <1>8
       DEF Main, Call, BeginTeardown, FreePool, Exit, Reserve, kernel,
           PollerIdles, vars, ringVars

(* Short scripts: the invariant holds at the start and is kept.            *)
LEMMA ShortCorrect ==
  ASSUME ShortScript, DrainsInTime
  PROVE  Spec => []ShortInv
  <1>1. Init => PrintInv
    BY DEF Init, RingInit, PrintInv
  <1>2. ASSUME ShortInv, IInv', TicketInv', [Next]_vars
        PROVE  PrintInv'
    <2>1. CASE KernelStep /\ UNCHANGED <<next, phase>>
      <3>1. ASSUME NEW r \in inflight, PerformWrite(r)
            PROVE  PrintInv'
        BY <1>2, <2>1, <3>1, WritePrints
      <3> QED
        BY <1>2, <2>1, <3>1, FetchPrints, QuietPrints DEF KernelStep
    <2>2. CASE ~(KernelStep /\ UNCHANGED <<next, phase>>)
      BY <1>2, <2>2, QuietPrints DEF Next, Terminated
    <2> QED
      BY <2>1, <2>2
  <1> QED
    BY <1>1, <1>2, TicketCorrect, PTL DEF Spec, ShortInv

(* With sleep(3) long enough, nothing but messages is ever printed: no     *)
(* buffer is reused or freed under a write in flight.                      *)
THEOREM LinesCorrect ==
  ASSUME ShortScript, DrainsInTime
  PROVE  Spec => []NoGarbledLine
  <1>1. ASSUME ShortInv
        PROVE  NoGarbledLine
    <2>1. \A i \in 1 .. sring_head : Script[i].msg # Garbled
      BY <1>1, HeadAndTail, ScriptTypes, RingAssumption DEF ShortInv
    <2> QED
      BY <1>1, <2>1 DEF ShortInv, PrintInv, NoGarbledLine, Texts
  <1> QED
    BY <1>1, ShortCorrect, PTL

(* And no message is printed twice.                                        *)
THEOREM OnceCorrect ==
  ASSUME ShortScript, DrainsInTime
  PROVE  Spec => []PrintedOnce
  <1>1. ShortInv => PrintedOnce
    BY DEF ShortInv, PrintInv, PrintedOnce, Texts
  <1> QED
    BY <1>1, ShortCorrect, PTL

-----------------------------------------------------------------------------
(* The demo implements the asynchronous printer.                           *)

\* The messages of the calls that have stored the tail.
Posted == {Script[i].msg : i \in 1 .. Published}

(* The initial state is the printer's.                                     *)
LEMMA InitPrints == Init => Contract!Init
  <1> SUFFICES ASSUME Init PROVE Contract!Init
    OBVIOUS
  <1>1. TypeOK /\ Quiescent /\ next = 1
    BY InitIInv DEF IInv, Init, RingInit, Quiescent, Active
  <1>2. Published = 0
    BY <1>1, PublishedCases
  <1> QED
    BY <1>2 DEF Contract!Init, Init, RingInit

(* A step that moves neither the tail, nor what is printed, nor main past  *)
(* the free, is a stutter of the printer.                                  *)
LEMMA StutterPrints ==
  ASSUME ShortInv, ShortInv', UNCHANGED <<sring_tail, lines>>,
         phase' = phase \/ (phase = "running" /\ phase' = "sleeping")
                        \/ (phase = "freed" /\ phase' = "exited")
  PROVE  UNCHANGED Contract!vars
  <1>1. Published' = Published
    BY DEF ShortInv, TicketInv
  <1>2. {Script[i].msg : i \in 1 .. Published}' = {Script[i].msg : i \in 1 .. Published}
    BY <1>1
  <1>3. (phase \in {"running", "sleeping"})' = (phase \in {"running", "sleeping"})
    OBVIOUS
  <1> QED
    BY <1>2, <1>3 DEF Contract!vars

(* Storing the tail posts the call's message.                              *)
LEMMA PublishPosts ==
  ASSUME ShortScript, DrainsInTime, ShortInv, ShortInv',
         NEW p \in Producers, InPerror(p), Publish(p)
  PROVE  \E m \in Msgs : Contract!Post(m)
  <1>1. /\ IInv /\ TicketInv /\ TypeOK /\ Active(p)
        /\ phase = "running" /\ phase' = "running"
        /\ next > 1 /\ msg[p] = Script[next - 1].msg
        /\ sring_tail' = Inc(sring_tail) /\ lines' = lines
    BY DEF ShortInv, IInv, CallInv, InPerror, Publish, Step, Active, kernel
  <1>2. Published = next - 2 /\ next - 1 \in 1 .. Len(Script)
    BY <1>1, PublishedCases, ScriptTypes DEF TypeOK
  <1>3. Published' = next - 1
    <2>1. sring_tail = next - 2 /\ sring_tail < Wrap - 1 /\ sring_tail \in Counter
      BY <1>1, <1>2, TicketBounds, ConstantTypes, ScriptTypes
         DEF TicketInv, TypeOK, RingTypeOK
    <2>2. Inc(sring_tail) = next - 1
      BY <1>1, <1>2, <2>1, IncCases, ConstantTypes DEF TypeOK
    <2> QED
      BY <1>1, <2>2 DEF ShortInv, TicketInv
  <1>4. PICK m \in Msgs : m = Script[next - 1].msg
    BY <1>2, ScriptTypes
  <1>5. \A i : i \in 1 .. Published' <=> i \in 1 .. Published \/ i = next - 1
    BY <1>1, <1>2, <1>3 DEF TypeOK
  <1>6. Posted' = Posted \union {m}
    BY <1>4, <1>5 DEF Posted
  <1>7. m \notin Posted
    BY <1>1, <1>2, <1>4, ScriptDistinct, ScriptTypes DEF Posted, TypeOK
  <1>8. Contract!Post(m)
    BY <1>1, <1>6, <1>7 DEF Contract!Post, Posted
  <1> QED
    BY <1>8

(* Performing a write shows its message.                                   *)
LEMMA WriteShows ==
  ASSUME ShortScript, ShortInv, ShortInv', UNCHANGED <<next, phase>>,
         NEW r \in inflight, PerformWrite(r)
  PROVE  Contract!Show(r.msg) /\ r.msg \in Msgs
  <1>1. Published' = Published
    BY DEF ShortInv, TicketInv, PerformWrite, PutOut, ring
  <1> QED
    BY <1>1, WritePrints DEF Contract!Show

(* Freeing the pool closes the printer: every message posted is printed.   *)
LEMMA FreeCloses ==
  ASSUME ShortScript, DrainsInTime, ShortInv, ShortInv', FreePool
  PROVE  Contract!Close
  <1>1. /\ IInv /\ TicketInv /\ PrintInv /\ RingEmpty /\ inflight = {}
        /\ phase = "sleeping" /\ phase' = "freed"
        /\ UNCHANGED <<sring_tail, lines>>
    BY DEF ShortInv, FreePool, PrintInv, KernelDone, ring, kernel
  <1>2. Published = sring_head /\ Published' = Published
    BY <1>1 DEF TicketInv, RingEmpty, ShortInv
  <1>3. ASSUME NEW i \in 1 .. Published
        PROVE  lines[Script[i].msg] = 1
    <2>1. Script[i].msg \in Texts
      BY <1>1, <1>2, HeadAndTail, ScriptTypes DEF Texts
    <2> QED
      BY <1>1, <1>2, <2>1 DEF PrintInv
  <1> QED
    BY <1>1, <1>2, <1>3 DEF Contract!Close

(* Every step of the demo is a step of the printer or a stutter.           *)
LEMMA StepPrints ==
  ASSUME ShortScript, DrainsInTime, ShortInv, ShortInv', [Next]_vars
  PROVE  [Contract!Next]_(Contract!vars)
  <1>1. CASE Call
    BY <1>1, StutterPrints DEF Call, Reserve, ring, kernel
  <1>2. CASE BeginTeardown
    BY <1>2, StutterPrints DEF BeginTeardown, ring
  <1>3. CASE FreePool
    BY <1>3, FreeCloses DEF Contract!Next
  <1>4. CASE Exit
    BY <1>4, StutterPrints DEF Exit, ring
  <1>5. ASSUME NEW p \in Producers, InPerror(p)
        PROVE  [Contract!Next]_(Contract!vars)
    <2>1. CASE Publish(p)
      BY <1>5, <2>1, PublishPosts DEF Contract!Next
    <2>2. CASE ~Publish(p)
      BY <1>5, <2>2, StutterPrints DEF InPerror, Perror, AwaitRoom, ZeroBuff,
            CopyMsg, ZeroSqe, BeginSqe, FillSqe, SetArray, ring, kernel
    <2> QED
      BY <2>1, <2>2
  <1>6. CASE KernelStep /\ UNCHANGED <<next, phase>>
    <2>1. ASSUME NEW r \in inflight, PerformWrite(r)
          PROVE  [Contract!Next]_(Contract!vars)
      BY <1>6, <2>1, WriteShows DEF Contract!Next
    <2>2. CASE FetchWrite \/ FetchNop \/ PollerIdles
      BY <1>6, <2>2, StutterPrints DEF FetchWrite, FetchNop, TakeWrite, TakeNop, PollerIdles, ring,
            kernel
    <2> QED
      BY <1>6, <2>1, <2>2 DEF KernelStep
  <1>7. CASE UNCHANGED vars
    BY <1>7, StutterPrints DEF vars, ringVars, ring, kernel
  <1> QED
    BY <1>1, <1>2, <1>3, <1>4, <1>5, <1>6, <1>7 DEF Next, Main, Terminated

(* Every message of the script that has been posted is printed once, whole *)
(* and before the pool is freed: the demo implements AsyncPrint's safety.  *)
THEOREM PrintsCorrect ==
  ASSUME ShortScript, DrainsInTime
  PROVE  Spec => Prints
  <1>1. ShortInv /\ ShortInv' /\ [Next]_vars => [Contract!Next]_(Contract!vars)
    BY StepPrints
  <1> QED
    BY <1>1, InitPrints, ShortCorrect, PTL DEF Spec, Prints, Contract!SafeSpec

=============================================================================
