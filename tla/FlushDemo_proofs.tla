--------------------------- MODULE FlushDemo_proofs ---------------------------
(***************************************************************************)
(* Proofs about FlushDemo, for every set of programs, every ring size and  *)
(* every width of the counters.                                            *)
(***************************************************************************)
EXTENDS FlushDemo, UringRing_proofs, FiniteSetTheorems

(* What the provers need of a program.                                     *)
LEMMA ProgramTypes ==
  ASSUME NEW g \in Program
  PROVE  /\ g.sqpoll \in BOOLEAN
         /\ Len(g.script) \in Nat
         /\ \A i \in 1 .. Len(g.script) :
              /\ g.script[i].op \in {"call", "flush", "reap"}
              /\ g.script[i].op = "call" =>
                   g.script[i].by \in Producers /\ g.script[i].msg \in Msgs
  <1>1. /\ g.sqpoll \in BOOLEAN /\ Len(g.script) \in Nat
        /\ \A i \in 1 .. Len(g.script) : g.script[i] \in Ops
    BY DEF Program
  <1>2. ASSUME NEW o \in Ops
        PROVE  /\ o.op \in {"call", "flush", "reap"}
               /\ o.op = "call" => o.by \in Producers /\ o.msg \in Msgs
    BY DEF Ops, Say, Flush, Reap
  <1> QED
    BY <1>1, <1>2

(* The call main makes next.                                               *)
LEMMA ReadyFacts ==
  ASSUME TypeOK, NEW op, Ready(op)
  PROVE  /\ next \in 1 .. Len(Script) /\ next' = next + 1
         /\ next + 1 \in 1 .. Len(Script) + 1
         /\ phase = "running" /\ Quiescent
         /\ Script[next].op = op
         /\ op = "call" => Script[next].by \in Producers /\ Script[next].msg \in Msgs
  <1>1. next \in 1 .. Len(Script) /\ next' = next + 1 /\ phase = "running" /\ Quiescent
        /\ Script[next].op = op
    BY ProgramTypes DEF Ready, TypeOK, Script
  <1> QED
    BY <1>1, ProgramTypes DEF TypeOK, Script

(* The types but for the ring's, which the ring's own lemmas keep.         *)
LEMMA TypeStep ==
  ASSUME TypeOK, [Next]_vars
  PROVE  TypeOK'
  <1> USE DEF Phases
  <1>0. /\ RingTypeOK /\ program \in Program
        /\ next \in 1 .. Len(Script) + 1 /\ phase \in Phases
        /\ submitted \in 0 .. QUEUE_DEPTH
        /\ cring_head \in Counter /\ cring_tail \in Counter /\ seen \in Counter
        /\ 0 \in Counter /\ 0 \in 0 .. QUEUE_DEPTH
    BY ConstantTypes DEF TypeOK, Counter
  <1>1. CASE Call
    <2>1. RingTypeOK'
      BY <1>0, <1>1, ReadyFacts, ReserveType DEF Call
    <2>2. next' \in 1 .. Len(Script) + 1 /\ UNCHANGED <<program, phase, submitted, cq, seen>>
      BY <1>1, ReadyFacts DEF Call
    <2> QED
      BY <1>0, <2>1, <2>2 DEF TypeOK, Script, cq
  <1>2. CASE FlushEnter
    <2>1. next' \in 1 .. Len(Script) + 1
      BY <1>2, ReadyFacts DEF FlushEnter
    <2>2. RingTypeOK'
      BY <1>0, <1>2 DEF FlushEnter, Wakeup, RingTypeOK, ring, callers
    <2> QED
      BY <1>0, <1>2, <2>1, <2>2 DEF FlushEnter, TypeOK, Script, cq
  <1>3. CASE FlushReturn
    BY <1>0, <1>3 DEF FlushReturn, TypeOK, RingTypeOK, Script, SqPoll, ring, callers, cq
  <1>4. CASE FlushFails
    <2>1. next' \in 1 .. Len(Script) + 1
      BY <1>4, ReadyFacts DEF FlushFails
    <2>2. RingTypeOK'
      BY <1>0, <1>4 DEF FlushFails, Wakeup, RingTypeOK, ring, callers
    <2> QED
      BY <1>0, <1>4, <2>1, <2>2 DEF FlushFails, TypeOK, Script, cq
  <1>5. CASE FlushInterrupted
    BY <1>0, <1>5 DEF FlushInterrupted, TypeOK, RingTypeOK, Script, ring, callers, cq
  <1>6. CASE ReapLoad
    <2>1. next' \in 1 .. Len(Script) + 1
      BY <1>6, ReadyFacts DEF ReapLoad
    <2> QED
      BY <1>0, <1>6, <2>1
         DEF ReapLoad, TypeOK, RingTypeOK, Script, ringVars, ring, callers, kernel, cq
  <1>7. CASE ReapStore
    BY <1>0, <1>7
       DEF ReapStore, TypeOK, RingTypeOK, Script, ringVars, ring, callers, kernel
  <1>8. CASE Teardown
    BY <1>0, <1>8
       DEF Teardown, PoolAfterFree, TypeOK, RingTypeOK, Script, ring, callers, kernel, cq
  <1>9. CASE Exit
    BY <1>0, <1>9 DEF Exit, TypeOK, RingTypeOK, Script, ring, callers, cq
  <1>10. ASSUME NEW p \in Producers, InPerror(p)
        PROVE  TypeOK'
    <2>1. RingTypeOK'
      BY <1>0, <1>10, PerrorType DEF InPerror
    <2> QED
      BY <1>0, <1>10, <2>1 DEF InPerror, TypeOK, Script, cq, main
  <1>11. CASE Submit
    <2>1. RingTypeOK'
      BY <1>0, <1>11, KernelType DEF Submit, MayTake, KernelStep
    <2>2. submitted' \in 0 .. QUEUE_DEPTH
      BY <1>0, <1>11, ConstantTypes DEF Submit, MayTake
    <2> QED
      BY <1>0, <1>11, <2>1, <2>2 DEF Submit, MayTake, TypeOK, Script, cq
  <1>12. CASE Complete
    <2>1. RingTypeOK'
      BY <1>0, <1>12, KernelType DEF Complete, KernelStep
    <2>2. Inc(cring_tail) \in Counter
      BY <1>0, CounterTypes DEF Counter
    <2> QED
      BY <1>0, <1>12, <2>1, <2>2 DEF Complete, TypeOK, Script, main
  <1>13. CASE SubmitNop
    <2>1. RingTypeOK'
      BY <1>0, <1>13, KernelType DEF SubmitNop, KernelStep
    <2>2. submitted' \in 0 .. QUEUE_DEPTH /\ Inc(cring_tail) \in Counter
      BY <1>0, <1>13, ConstantTypes, CounterTypes DEF SubmitNop, MayTake, Counter
    <2> QED
      BY <1>0, <1>13, <2>1, <2>2 DEF SubmitNop, MayTake, TypeOK, Script
  <1>14. CASE Idle
    <2>1. RingTypeOK'
      BY <1>0, <1>14, KernelType DEF Idle, KernelStep
    <2> QED
      BY <1>0, <1>14, <2>1 DEF Idle, TypeOK, Script, cq, main
  <1>15. CASE UNCHANGED vars
    BY <1>0, <1>15
       DEF vars, ringVars, ring, callers, kernel, cq, main, TypeOK, RingTypeOK, Script
  <1> QED
    BY <1>1, <1>2, <1>3, <1>4, <1>5, <1>6, <1>7, <1>8,
       <1>9, <1>10, <1>11, <1>12, <1>13, <1>14, <1>15
       DEF Next, Main, Terminated

(* Initially the types are right.                                          *)
LEMMA InitTypes == Init => TypeOK
  <1> SUFFICES ASSUME Init PROVE TypeOK
    OBVIOUS
  <1>1. RingTypeOK /\ program \in Program
    BY InitType, ProgramAssumption DEF Init
  <1>2. Len(Script) \in Nat
    BY <1>1, ProgramTypes DEF Script
  <1> QED
    BY <1>1, <1>2, ConstantTypes DEF Init, TypeOK, Phases, Counter

(* Every variable keeps its type, whatever the programs.                   *)
THEOREM TypeCorrect == Spec => []TypeOK
  BY InitTypes, TypeStep, PTL DEF Spec

-----------------------------------------------------------------------------
(* One caller at a time.                                                   *)

\* The call in progress is the last one main made, its ticket is the ring's
\* tail, and no other ticket is out.
CallInv ==
  \A p \in Producers : Active(p) =>
    /\ phase = "running"
    /\ next > 1
    /\ Script[next - 1].op = "call"
    /\ p = Script[next - 1].by
    /\ tail[p] = sring_tail
    /\ sq_tail_cache = Inc(sring_tail)

\* Between calls every ticket taken has been published.
QuietInv == Quiescent => sq_tail_cache = sring_tail

OneCallInv == TypeOK /\ CallInv /\ QuietInv

(* A call starts: it is the only one.                                      *)
LEMMA CallStarts ==
  ASSUME OneCallInv, Call
  PROVE  LET c == Script[next].by IN
         /\ c \in Producers /\ Script[next].op = "call" /\ Quiescent
         /\ \A q \in Producers : Active(q)' <=> q = c
         /\ pc' = [pc EXCEPT ![c] = "room"]
         /\ tail' = [tail EXCEPT ![c] = sring_tail]
         /\ sq_tail_cache' = Inc(sring_tail)
         /\ next \in Nat /\ next' = next + 1 /\ phase = "running"
         /\ UNCHANGED <<program, ring, kernel, msg_pool, cq, phase, submitted, seen>>
  <1> DEFINE c == Script[next].by
  <1>1. /\ Ready("call") /\ Reserve(c, Script[next].msg)
        /\ UNCHANGED <<program, cq, phase, submitted, seen>>
    BY DEF Call
  <1>2. /\ c \in Producers /\ Script[next].op = "call" /\ Quiescent
        /\ next \in Nat /\ next' = next + 1 /\ phase = "running"
    BY <1>1, ReadyFacts DEF OneCallInv
  <1> HIDE DEF c
  <1>3. /\ pc' = [pc EXCEPT ![c] = "room"]
        /\ tail' = [tail EXCEPT ![c] = sring_tail]
        /\ sq_tail_cache' = Inc(sring_tail)
        /\ UNCHANGED <<ring, kernel, msg_pool>>
    BY <1>1, <1>2 DEF Reserve, Step, OneCallInv, QuietInv
  <1>4. \A q \in Producers : Active(q)' <=> q = c
    BY <1>2, <1>3 DEF Quiescent, Active, OneCallInv, TypeOK, RingTypeOK
  <1> QED
    BY <1>1, <1>2, <1>3, <1>4 DEF c

(* The steps of a call before it publishes.                                *)
Writes(p) ==
  \/ AwaitRoom(p) \/ ZeroBuff(p) \/ CopyMsg(p) \/ ZeroSqe(p) \/ BeginSqe(p) \/ FillSqe(p) \/ SetArray(p)

(* They leave it the only one.                                             *)
LEMMA CallGoesOn ==
  ASSUME OneCallInv, NEW p \in Producers, Writes(p)
  PROVE  /\ Active(p) /\ Active(p)'
         /\ \A q \in Producers : Active(q) <=> q = p
         /\ \A q \in Producers : q # p => pc'[q] = pc[q] /\ pc[q] = "idle"
         /\ UNCHANGED <<sring_head, sring_tail, sq_tail_cache, tail, msg, kernel>>
  <1> USE DEF Writes, AwaitRoom, ZeroBuff, CopyMsg, ZeroSqe, BeginSqe, FillSqe, SetArray, Step,
              ring, callers
  <1>1. Active(p) /\ Active(p)'
    BY DEF Active, OneCallInv, TypeOK, RingTypeOK
  <1>2. \A q \in Producers : Active(q) <=> q = p
    BY <1>1 DEF OneCallInv, CallInv
  <1>3. \A q \in Producers : q # p => pc'[q] = pc[q] /\ pc[q] = "idle"
    BY <1>2 DEF OneCallInv, TypeOK, RingTypeOK, Active
  <1> QED
    BY <1>1, <1>2, <1>3

(* A call publishes, and none is left.                                     *)
LEMMA CallEnds ==
  ASSUME OneCallInv, NEW p \in Producers, Publish(p)
  PROVE  /\ Active(p) /\ pc[p] = "publish" /\ \A q \in Producers : ~Active(q)'
         /\ tail[p] = sring_tail /\ sring_tail' = Inc(sring_tail)
         /\ sq_tail_cache' = sring_tail'
         /\ UNCHANGED <<sring_head, sring_array, sqes, msg_pool, kernel, tail, msg>>
  <1> USE DEF Publish, Step, callers
  <1>1. Active(p) /\ pc[p] = "publish"
    BY DEF Active
  <1>2. tail[p] = sring_tail /\ sq_tail_cache = Inc(sring_tail)
    BY <1>1 DEF OneCallInv, CallInv
  <1>3. \A q \in Producers : Active(q) => q = p
    BY <1>1 DEF OneCallInv, CallInv
  <1>4. \A q \in Producers : ~Active(q)'
    BY <1>3 DEF OneCallInv, TypeOK, RingTypeOK, Active
  <1> QED
    BY <1>1, <1>2, <1>4

\* Everything else: main between its calls, and the kernel.
Between ==
  \/ FlushEnter \/ FlushFails \/ FlushReturn \/ FlushInterrupted
  \/ ReapLoad \/ ReapStore \/ Teardown \/ Exit

KernelSteps == Submit \/ SubmitNop \/ Complete \/ Idle

(* They start and end no call.                                             *)
LEMMA OtherSteps ==
  ASSUME Between \/ KernelSteps \/ UNCHANGED vars
  PROVE  /\ UNCHANGED <<pc, tail, msg, sq_tail_cache, sring_tail, sring_array, sqes, program>>
         /\ \A q \in Producers : Active(q)' <=> Active(q)
         /\ Quiescent' <=> Quiescent
  <1>1. UNCHANGED <<pc, tail, msg, sq_tail_cache, sring_tail, sring_array, sqes, program>>
    BY DEF Between, FlushEnter, FlushFails, FlushReturn, FlushInterrupted,
       ReapLoad, ReapStore, Teardown, Exit,
       KernelSteps, Submit, SubmitNop, MayTake, FetchWrite, TakeWrite,
          FetchNop, TakeNop, Complete, PerformWrite, PutOut, Idle, PollerIdles,
       ringVars, ring, callers, main, vars
  <1> QED
    BY <1>1 DEF Active, Quiescent

(* A step keeps the calls one at a time.                                   *)
LEMMA OneCallStep ==
  ASSUME OneCallInv, [Next]_vars
  PROVE  OneCallInv'
  <1>0. TypeOK'
    BY TypeStep DEF OneCallInv
  <1>1. CASE Call
    <2> DEFINE c == Script[next].by
    <2>1. /\ c \in Producers /\ Script[next].op = "call"
          /\ \A q \in Producers : Active(q)' <=> q = c
          /\ tail' = [tail EXCEPT ![c] = sring_tail]
          /\ sq_tail_cache' = Inc(sring_tail)
          /\ next \in Nat /\ next' = next + 1 /\ phase' = "running" /\ next \in 1 .. Len(Script)
          /\ UNCHANGED <<program, sring_tail>>
      BY <1>1, CallStarts, ReadyFacts DEF ring, Call, OneCallInv
    <2>2. Script' = Script /\ c = Script[next].by
      BY <2>1 DEF Script
    <2>3. tail'[c] = sring_tail /\ next' > 1 /\ next' - 1 = next
      BY <2>1 DEF OneCallInv, TypeOK, RingTypeOK
    <2> HIDE DEF c
    <2>4. CallInv'
      BY <2>1, <2>2, <2>3 DEF CallInv
    <2>5. QuietInv'
      BY <2>1 DEF QuietInv, Quiescent
    <2> QED
      BY <1>0, <2>4, <2>5 DEF OneCallInv
  <1>2. ASSUME NEW p \in Producers, Writes(p), UNCHANGED <<cq, main>>
        PROVE  OneCallInv'
    <2>1. UNCHANGED <<tail, sring_tail, sq_tail_cache, next, phase, program>>
      BY <1>2, CallGoesOn DEF main
    <2>2. \A q \in Producers : Active(q)' => Active(q)
      BY <1>2, CallGoesOn DEF Active
    <2>3. ~Quiescent'
      BY <1>2, CallGoesOn DEF Quiescent
    <2> QED
      BY <1>0, <2>1, <2>2, <2>3 DEF OneCallInv, CallInv, QuietInv, Script
  <1>3. ASSUME NEW p \in Producers, Publish(p), UNCHANGED <<cq, main>>
        PROVE  OneCallInv'
    BY <1>0, <1>3, CallEnds DEF OneCallInv, CallInv, QuietInv
  <1>4. CASE Between \/ KernelSteps \/ UNCHANGED vars
    <2>1. QuietInv'
      BY <1>4, OtherSteps DEF OneCallInv, QuietInv
    <2>2. CallInv'
      <3>1. CASE Quiescent
        BY <1>4, <3>1, OtherSteps DEF CallInv, Quiescent
      <3>2. CASE ~Quiescent
        <4>1. phase = "running" /\ ~Quiescent
          BY <3>2 DEF OneCallInv, CallInv, Quiescent
        <4>2. UNCHANGED <<next, phase>>
          BY <1>4, <4>1 DEF Between, FlushEnter, FlushFails, FlushReturn,
             FlushInterrupted, ReapLoad, ReapStore,
             Teardown, Exit, Ready, KernelSteps, Submit, SubmitNop, MayTake,
                Complete, Idle, main, vars
        <4> QED
          BY <1>4, <4>2, OtherSteps DEF OneCallInv, CallInv, Script
      <3> QED
        BY <3>1, <3>2
    <2> QED
      BY <1>0, <2>1, <2>2 DEF OneCallInv
  <1> QED
    BY <1>1, <1>2, <1>3, <1>4
       DEF Next, Main, Terminated, InPerror, Perror, Writes, Between, KernelSteps

(* Initially there is no call.                                             *)
LEMMA InitOneCall == Init => OneCallInv
  BY InitTypes DEF Init, RingInit, OneCallInv, CallInv, QuietInv, Active

(* An index is a position.                                                 *)
LEMMA IndexType ==
  ASSUME TypeOK, NEW p \in Producers
  PROVE  Idx(p) \in Slots
  BY CounterTypes DEF TypeOK, RingTypeOK, Idx, Counter

\* What the call in progress has written so far.
StageInv ==
  \A p \in Producers :
    /\ Active(p) => msg[p] \in Msgs
    /\ pc[p] \in {"zero_sqe", "begin_sqe", "fill_sqe", "index", "publish"} =>
         msg_pool[Idx(p)] = msg[p]
    /\ pc[p] \in {"index", "publish"} => sqes[Idx(p)] = msg[p]
    /\ pc[p] = "publish" => sring_array[Idx(p)] = Idx(p)

(* Initially nothing.                                                      *)
LEMMA InitStage == Init => StageInv
  BY DEF Init, RingInit, StageInv, Active

(* A call in progress writes at its own index, and nobody else does.       *)
LEMMA StageStep ==
  ASSUME OneCallInv, StageInv, [Next]_vars
  PROVE  StageInv'
  <1>1. /\ TypeOK
        /\ msg_pool \in [Slots -> Msgs \union {Zero}]
        /\ sqes \in [Slots -> Msgs \union {Zero, Half}]
        /\ sring_array \in [Slots -> Slots]
        /\ pc \in [Producers -> Stages] /\ msg \in [Producers -> Msgs \union {Zero}]
    BY DEF OneCallInv, TypeOK, RingTypeOK
  <1>2. CASE Call
    <2> DEFINE c == Script[next].by
    <2>1. /\ c \in Producers /\ Quiescent
          /\ \A q \in Producers : Active(q)' <=> q = c
          /\ pc' = [pc EXCEPT ![c] = "room"]
      BY <1>2, CallStarts
    <2>2. Script[next].msg \in Msgs /\ msg' = [msg EXCEPT ![c] = Script[next].msg]
      BY <1>1, <1>2, ReadyFacts DEF Call, Reserve
    <2> HIDE DEF c
    <2>3. \A q \in Producers : pc'[q] \in {"idle", "room"}
      BY <1>1, <2>1 DEF Quiescent, Active
    <2>4. \A q \in Producers : Active(q)' => msg'[q] \in Msgs
      BY <1>1, <2>1, <2>2
    <2> QED
      BY <2>3, <2>4 DEF StageInv
  <1>3. ASSUME NEW p \in Producers, Writes(p)
        PROVE  StageInv'
    <2>1. /\ Idx(p) \in Slots
          /\ \A q \in Producers : q # p => pc'[q] = pc[q] /\ pc[q] = "idle"
          /\ Active(p) /\ UNCHANGED <<tail, msg>>
      BY <1>1, <1>3, CallGoesOn, IndexType
    <2> USE DEF Writes, AwaitRoom, ZeroBuff, CopyMsg, ZeroSqe, BeginSqe, FillSqe, SetArray, Step,
                ring, callers, kernel
    <2>2. Idx(p)' = Idx(p)
      BY <2>1 DEF Idx
    <2>3. /\ pc'[p] \in {"zero_sqe", "begin_sqe", "fill_sqe", "index", "publish"} =>
               msg_pool'[Idx(p)] = msg[p]
          /\ pc'[p] \in {"index", "publish"} => sqes'[Idx(p)] = msg[p]
          /\ pc'[p] = "publish" => sring_array'[Idx(p)] = Idx(p)
      BY <1>1, <1>3, <2>1, <2>2 DEF StageInv
    <2>4. msg'[p] \in Msgs
      BY <2>1 DEF StageInv
    <2> QED
      BY <2>1, <2>2, <2>3, <2>4 DEF StageInv, Active
  <1>4. ASSUME NEW p \in Producers, Publish(p)
        PROVE  StageInv'
    BY <1>4, CallEnds DEF StageInv, Active
  <1>5. CASE Teardown
    <2>1. \A q \in Producers : pc'[q] = "idle"
      BY <1>5, OtherSteps DEF Between, Teardown, Quiescent, Active
    <2> QED
      BY <2>1 DEF StageInv, Active
  <1>6. CASE (Between \/ KernelSteps \/ UNCHANGED vars) /\ ~Teardown
    <2>1. UNCHANGED msg_pool
      BY <1>6 DEF Between, FlushEnter, FlushFails, FlushReturn,
         FlushInterrupted, ReapLoad, ReapStore, Exit, KernelSteps,
         Submit, SubmitNop, MayTake, FetchWrite, TakeWrite, FetchNop, TakeNop,
            Complete, PerformWrite, PutOut, Idle, PollerIdles, vars, ringVars
    <2> QED
      BY <1>6, <2>1, OtherSteps DEF StageInv, Idx
  <1> QED
    BY <1>2, <1>3, <1>4, <1>5, <1>6
       DEF Next, Main, Terminated, InPerror, Perror, Writes, Between, KernelSteps

-----------------------------------------------------------------------------
(* What is taken and what is seen, counted.                                *)

(* A call more, or another call.                                           *)
LEMMA CallsCount ==
  ASSUME NEW n \in Nat \ {0}
  PROVE  /\ CallsBefore(n) \in Nat
         /\ Script[n].op = "call" => CallsBefore(n + 1) = CallsBefore(n) + 1
         /\ Script[n].op # "call" => CallsBefore(n + 1) = CallsBefore(n)
  <1> DEFINE S == {i \in 1 .. n - 1 : Script[i].op = "call"}
             T == {i \in 1 .. n : Script[i].op = "call"}
  <1>1. IsFiniteSet(1 .. n - 1)
    BY FS_Interval
  <1>2. IsFiniteSet(S) /\ n \notin S
    BY <1>1, FS_Subset
  <1>3. CallsBefore(n) = Cardinality(S) /\ CallsBefore(n + 1) = Cardinality(T)
    <2>1. (n + 1) - 1 = n
      OBVIOUS
    <2> QED
      BY <2>1 DEF CallsBefore
  <1>4. /\ Script[n].op = "call" => T = S \union {n}
        /\ Script[n].op # "call" => T = S
    OBVIOUS
  <1> HIDE DEF S, T
  <1>5. Cardinality(S) \in Nat /\ Cardinality(S \union {n}) = Cardinality(S) + 1
    BY <1>2, FS_CardinalityType, FS_AddElement
  <1> QED
    BY <1>3, <1>4, <1>5

\* Completions that are posted or will be, beyond those up to x.
Unseen(x) == Sub(cring_tail, x) + Cardinality(inflight)

ReapInv ==
  /\ OneCallInv
  /\ IsFiniteSet(inflight)
  /\ Unseen(cring_head) <= Taken
  /\ phase = "reaping" => Unseen(seen) <= Taken

(* The quantities are numbers.                                             *)
LEMMA CountTypes ==
  ASSUME TypeOK, IsFiniteSet(inflight)
  PROVE  /\ Pending \in Nat /\ Taken \in Int /\ Published \in Int
         /\ Cardinality(inflight) \in Nat
         /\ Sub(cring_tail, cring_head) \in Nat /\ Sub(cring_tail, seen) \in Nat
  <1>1. next \in Nat \ {0}
    BY ProgramTypes DEF TypeOK, Script
  <1>2. CallsBefore(next) \in Nat
    BY <1>1, CallsCount
  <1>3. Published \in Int
    BY <1>2 DEF Published
  <1>4. Pending \in Nat /\ Sub(cring_tail, cring_head) \in Nat /\ Sub(cring_tail, seen) \in Nat
    BY CounterTypes DEF Pending, TypeOK, RingTypeOK, Counter
  <1> QED
    BY <1>3, <1>4, FS_CardinalityType DEF Taken

(* The tail goes one further: the distance grows by one, or wraps.         *)
LEMMA SubIncTailAtMost ==
  ASSUME NEW x \in Counter, NEW y \in Counter
  PROVE  Sub(Inc(x), y) <= Sub(x, y) + 1
  <1>1. Sub(x, y) \in Counter /\ Inc(x) \in Counter /\ Sub(Inc(x), y) \in Counter
    BY CounterTypes DEF Counter
  <1>2. CASE Sub(x, y) + 1 < Wrap
    BY <1>1, <1>2, SubIncTail DEF Counter
  <1>3. CASE ~(Sub(x, y) + 1 < Wrap)
    BY <1>1, <1>3, ConstantTypes DEF Counter
  <1> QED
    BY <1>2, <1>3

(* The difference does not shrink when its parts grow by one at most.      *)
LEMMA GrowTogether ==
  ASSUME NEW a \in Int, NEW b \in Nat, NEW c \in Nat, c <= b + 1
  PROVE  a - b <= (a + 1) - c /\ (a + 1) - c \in Int
  OBVIOUS

(* A step takes no fewer calls than it sees completed.                     *)
LEMMA ReapStep ==
  ASSUME ReapInv, [Next]_vars
  PROVE  ReapInv'
  <1> USE DEF ReapInv
  <1>1. /\ OneCallInv' /\ TypeOK /\ TypeOK' /\ IsFiniteSet(inflight)
        /\ Pending \in Nat /\ Taken \in Int /\ Published \in Int
        /\ Cardinality(inflight) \in Nat
        /\ Sub(cring_tail, cring_head) \in Nat /\ Sub(cring_tail, seen) \in Nat
        /\ sring_tail \in Counter /\ sring_head \in Counter
        /\ cring_tail \in Counter /\ cring_head \in Counter /\ seen \in Counter
    BY OneCallStep, CountTypes DEF OneCallInv, TypeOK, RingTypeOK
  <1>2. CASE Call
    <2>1. /\ Quiescent /\ ~Quiescent' /\ next \in Nat \ {0} /\ next' = next + 1
          /\ Script[next].op = "call" /\ phase' = phase /\ phase = "running"
          /\ UNCHANGED <<program, sring_head, sring_tail, inflight, cq, seen>>
      BY <1>1, <1>2, CallStarts, ReadyFacts DEF Quiescent, ring, kernel, Call
    <2>2. Published' = CallsBefore(next + 1) - 1 /\ Published = CallsBefore(next)
      <3>1. CallsBefore(next)' = CallsBefore(next + 1)
        BY <2>1 DEF CallsBefore, Script
      <3>2. CallsBefore(next) \in Nat
        BY <2>1, CallsCount
      <3> QED
        BY <2>1, <3>1, <3>2 DEF Published
    <2>3. Taken' = Taken
      BY <2>1, <2>2, CallsCount DEF Taken, Pending
    <2> QED
      BY <1>1, <2>1, <2>3 DEF Unseen, cq
  <1>3. ASSUME NEW p \in Producers, Writes(p), UNCHANGED <<cq, main>>
        PROVE  ReapInv'
    <2>1. /\ UNCHANGED <<sring_head, sring_tail, inflight, cring_head, cring_tail, seen,
                         phase, next, program>>
          /\ ~Quiescent /\ ~Quiescent'
      BY <1>3, CallGoesOn DEF kernel, cq, main, Quiescent
    <2>2. Taken' = Taken
      BY <2>1 DEF Taken, Pending, Published, CallsBefore, Script
    <2> QED
      BY <1>1, <2>1, <2>2 DEF Unseen
  <1>4. ASSUME NEW p \in Producers, Publish(p), UNCHANGED <<cq, main>>
        PROVE  ReapInv'
    <2>1. /\ UNCHANGED <<sring_head, inflight, cring_head, cring_tail, seen,
                         phase, next, program>>
          /\ sring_tail' = Inc(sring_tail)
          /\ ~Quiescent /\ Quiescent'
      BY <1>4, CallEnds DEF kernel, cq, main, Quiescent
    <2>2. Published' = Published + 1
      <3>1. next \in Nat \ {0}
        BY <1>1, ProgramTypes DEF TypeOK, Script
      <3>2. CallsBefore(next) \in Nat
        BY <3>1, CallsCount
      <3>3. Published' = CallsBefore(next) /\ Published = CallsBefore(next) - 1
        BY <2>1, <3>2 DEF Published, CallsBefore, Script
      <3> QED
        BY <3>2, <3>3
    <2>3. Pending' <= Pending + 1 /\ Pending' \in Nat
      <3>1. Pending' = Sub(Inc(sring_tail), sring_head)
        BY <2>1 DEF Pending
      <3>2. Inc(sring_tail) \in Int /\ sring_head \in Int
        BY <1>1, CounterTypes DEF Counter
      <3>3. Pending' \in Nat
        BY <3>1, <3>2, CounterTypes DEF Counter
      <3> QED
        BY <1>1, <3>1, <3>3, SubIncTailAtMost DEF Pending
    <2>4. Taken <= Taken' /\ Taken' \in Int
      <3>1. Taken' = (Published + 1) - Pending' /\ Taken = Published - Pending
        BY <2>2 DEF Taken
      <3>2. Published \in Int /\ Pending \in Nat
        BY <1>1
      <3>3. /\ Published - Pending <= (Published + 1) - Pending'
            /\ (Published + 1) - Pending' \in Int
        BY <2>3, <3>2, GrowTogether
      <3> QED
        BY <3>1, <3>3
    <2>5. /\ Unseen(cring_head)' = Unseen(cring_head) /\ Unseen(seen)' = Unseen(seen)
          /\ Unseen(cring_head) \in Int /\ Unseen(seen) \in Int
      BY <1>1, <2>1 DEF Unseen
    <2> QED
      BY <1>1, <2>1, <2>4, <2>5
  <1>5. CASE FlushEnter \/ FlushFails \/ ReapLoad
    <2>1. /\ Quiescent /\ Quiescent' /\ next \in Nat \ {0} /\ next' = next + 1
          /\ Script[next].op # "call"
          /\ phase' = "reaping" => ReapLoad
          /\ UNCHANGED <<program, sring_head, sring_tail, inflight, cq>>
      <3>1. /\ Ready("flush") \/ Ready("reap")
            /\ phase' = "reaping" => ReapLoad
            /\ UNCHANGED <<program, sring_head, inflight, cq>>
        BY <1>5 DEF FlushEnter, FlushFails, Ready, ReapLoad, ringVars, ring, kernel
      <3> QED
        BY <1>1, <1>5, <3>1, ReadyFacts, OtherSteps DEF Between
    <2>2. Published' = CallsBefore(next + 1) /\ Published = CallsBefore(next)
      <3>1. next + 1 \in Nat \ {0}
        BY <2>1
      <3>2. CallsBefore(next) \in Nat /\ CallsBefore(next + 1) \in Nat
        BY <2>1, <3>1, CallsCount
      <3> QED
        BY <2>1, <3>2 DEF Published, CallsBefore, Script
    <2>3. Taken' = Taken
      BY <2>1, <2>2, CallsCount DEF Taken, Pending
    <2>4. Unseen(cring_head)' <= Taken'
      BY <1>1, <2>1, <2>3 DEF Unseen, cq
    <2>5. phase' = "reaping" => Unseen(seen)' <= Taken'
      <3>1. SUFFICES ASSUME ReapLoad
                     PROVE  Unseen(seen)' <= Taken'
        BY <2>1
      <3>2. Unseen(seen)' <= Taken'
        <4>1. seen' = cring_tail /\ cring_tail' = cring_tail
          BY <3>1 DEF ReapLoad, cq
        <4>2. Unseen(seen)' = 0 + Cardinality(inflight)
          BY <1>1, <2>1, <4>1, SubZero DEF Unseen
        <4> QED
          BY <1>1, <2>3, <4>2 DEF Unseen
      <3> QED
        BY <3>2
    <2> QED
      BY <1>1, <2>1, <2>4, <2>5
  <1>6. CASE FlushReturn \/ FlushInterrupted \/ ReapStore \/ Teardown \/ Exit \/ Idle \/ UNCHANGED vars
    <2>1. /\ UNCHANGED <<sring_head, sring_tail, cring_tail, seen, next, program>>
          /\ inflight' \in {inflight, {}}
          /\ phase' = "reaping" => phase = "reaping"
          /\ \/ cring_head' = cring_head
             \/ phase = "reaping" /\ cring_head' = seen
      BY <1>6 DEF FlushReturn, FlushInterrupted, ReapStore, Teardown, Exit,
         Idle, PollerIdles, vars, ringVars,
         ring, kernel, cq, main
    <2>2. Taken' = Taken
      <3>1. Quiescent' <=> Quiescent
        BY <1>6, OtherSteps DEF Between, KernelSteps
      <3> QED
        BY <2>1, <3>1 DEF Taken, Pending, Published, CallsBefore, Script
    <2>3. IsFiniteSet(inflight') /\ Cardinality(inflight') \in Nat
          /\ Cardinality(inflight') <= Cardinality(inflight)
      BY <1>1, <2>1, FS_EmptySet
    <2> QED
      BY <1>1, <2>1, <2>2, <2>3 DEF Unseen
  <1>7. CASE Submit
    <2>1. PICK m \in Asked(NextSqe, sqes[NextSqe]) :
            inflight' = inflight \union {[seq |-> sring_head, slot |-> NextSqe, msg |-> m]}
      BY <1>7 DEF Submit, FetchWrite, TakeWrite
    <2> DEFINE r == [seq |-> sring_head, slot |-> NextSqe, msg |-> m]
    <2> HIDE DEF r
    <2>2. /\ UNCHANGED <<sring_tail, cring_head, cring_tail, seen, next, program, phase>>
          /\ sring_head' = Inc(sring_head) /\ sring_tail # sring_head
          /\ inflight' = inflight \union {r}
      BY <1>7, <2>1 DEF Submit, FetchWrite, TakeWrite, RingEmpty, cq, r
    <2>3. Taken' = Taken + 1
      <3>1. Quiescent' <=> Quiescent
        BY <1>7, OtherSteps DEF KernelSteps
      <3>2. Published' = Published
        BY <2>2, <3>1 DEF Published, CallsBefore, Script
      <3>3. Pending' = Pending - 1
        BY <1>1, <2>2, SubIncHead DEF Pending
      <3> QED
        BY <1>1, <3>2, <3>3 DEF Taken
    <2>4. /\ IsFiniteSet(inflight') /\ Cardinality(inflight') \in Nat
          /\ Cardinality(inflight') <= Cardinality(inflight) + 1
      <3>1. CASE r \in inflight
        <4>1. inflight' = inflight
          BY <2>2, <3>1
        <4>2. Cardinality(inflight) \in Nat
          BY <1>1
        <4> QED
          BY <1>1, <4>1, <4>2
      <3>2. CASE r \notin inflight
        BY <1>1, <2>2, <3>2, FS_AddElement
      <3> QED
        BY <3>1, <3>2
    <2> QED
      BY <1>1, <2>2, <2>3, <2>4 DEF Unseen
  <1>8. CASE Complete
    <2>1. PICK r \in inflight : inflight' = inflight \ {r}
      BY <1>8 DEF Complete, PerformWrite, PutOut
    <2>2. /\ UNCHANGED <<sring_head, sring_tail, cring_head, seen, next, program, phase>>
          /\ cring_tail' = Inc(cring_tail)
      BY <1>8 DEF Complete, PerformWrite, PutOut, ring, main
    <2>3. Taken' = Taken
      <3>1. Quiescent' <=> Quiescent
        BY <1>8, OtherSteps DEF KernelSteps
      <3> QED
        BY <2>2, <3>1 DEF Taken, Pending, Published, CallsBefore, Script
    <2>4. /\ IsFiniteSet(inflight') /\ Cardinality(inflight') \in Nat
          /\ Cardinality(inflight') = Cardinality(inflight) - 1
      BY <1>1, <2>1, FS_RemoveElement, FS_CardinalityType
    <2>5. /\ Sub(cring_tail', cring_head) <= Sub(cring_tail, cring_head) + 1
          /\ Sub(cring_tail', seen) <= Sub(cring_tail, seen) + 1
          /\ Sub(cring_tail', cring_head) \in Int /\ Sub(cring_tail', seen) \in Int
      BY <1>1, <2>2, SubIncTailAtMost, CounterTypes DEF Counter, Inc
    <2> QED
      BY <1>1, <2>2, <2>3, <2>4, <2>5 DEF Unseen
  <1>9. CASE SubmitNop
    <2>1. /\ UNCHANGED <<sring_tail, cring_head, seen, next, program, phase, inflight>>
          /\ sring_head' = Inc(sring_head) /\ sring_tail # sring_head
          /\ cring_tail' = Inc(cring_tail)
      BY <1>9 DEF SubmitNop, FetchNop, TakeNop, RingEmpty, kernel
    <2>2. Taken' = Taken + 1
      <3>1. Quiescent' <=> Quiescent
        BY <1>9, OtherSteps DEF KernelSteps
      <3>2. Published' = Published
        BY <2>1, <3>1 DEF Published, CallsBefore, Script
      <3>3. Pending' = Pending - 1
        BY <1>1, <2>1, SubIncHead DEF Pending
      <3> QED
        BY <1>1, <3>2, <3>3 DEF Taken
    <2>3. /\ Sub(cring_tail', cring_head) <= Sub(cring_tail, cring_head) + 1
          /\ Sub(cring_tail', seen) <= Sub(cring_tail, seen) + 1
          /\ Sub(cring_tail', cring_head) \in Int /\ Sub(cring_tail', seen) \in Int
      BY <1>1, <2>1, SubIncTailAtMost, CounterTypes DEF Counter, Inc
    <2> QED
      BY <1>1, <2>1, <2>2, <2>3 DEF Unseen
  <1> QED
    BY <1>2, <1>3, <1>4, <1>5, <1>6, <1>7, <1>8, <1>9
       DEF Next, Main, Terminated, InPerror, Perror, Writes

(* uring_process_completions never runs ahead of the kernel, in any order  *)
(* of calls, with and without a polling thread, counters wrapping included.*)
THEOREM ReapCorrect == Spec => []NeverReapsAhead
  <1>1. Init => ReapInv
    <2> SUFFICES ASSUME Init PROVE ReapInv
      OBVIOUS
    <2>1. OneCallInv /\ TypeOK
      BY InitOneCall DEF OneCallInv
    <2>2. inflight = {} /\ cring_tail = 0 /\ cring_head = 0 /\ next = 1 /\ Quiescent
          /\ sring_tail = 0 /\ sring_head = 0 /\ phase = "running"
      BY DEF Init, RingInit, Quiescent, Active
    <2>3. IsFiniteSet(inflight) /\ Cardinality(inflight) = 0
      BY <2>2, FS_EmptySet
    <2>4. Sub(0, 0) = 0
      BY ConstantTypes, SubZero DEF Counter
    <2>5. Taken \in Int /\ CallsBefore(1) \in Nat
      BY <2>1, <2>3, CountTypes, CallsCount
    <2>6. Published = CallsBefore(1) /\ Pending = 0
      BY <2>2, <2>4, <2>5 DEF Published, Pending
    <2> QED
      BY <2>1, <2>2, <2>3, <2>4, <2>5, <2>6 DEF ReapInv, Unseen, Taken
  <1>2. ReapInv /\ [Next]_vars => ReapInv'
    BY ReapStep
  <1>3. ReapInv => NeverReapsAhead
    BY CountTypes DEF ReapInv, OneCallInv, NeverReapsAhead, Unseen
  <1> QED
    BY <1>1, <1>2, <1>3, PTL DEF Spec

-----------------------------------------------------------------------------
(* Programs in rounds.                                                     *)

\* Nothing is left that the kernel would do.
AtRest == RingEmpty /\ inflight = {}

\* The entry of the last call is in the ring, ...
Queued ==
  /\ sring_tail = Inc(sring_head)
  /\ inflight = {}
  /\ cring_tail = cring_head
  /\ LET s == Slot(sring_head) IN
       sring_array[s] = s /\ sqes[s] \in Msgs /\ msg_pool[s] = sqes[s]

\* ... or its write is under way, ...
UnderWay ==
  /\ RingEmpty
  /\ \E r \in inflight : inflight = {r} /\ msg_pool[r.slot] = r.msg /\ r.msg \in Msgs
  /\ cring_tail = cring_head

\* ... or its completion is posted.
Posted == AtRest /\ cring_tail = Inc(cring_head)

Out == Queued \/ UnderWay \/ Posted

\* main has last made a call with this name.
Last(op) == next > 1 /\ Script[next - 1].op = op

\* The stages of a round.
Round ==
  \/ /\ phase = "running" /\ (next = 1 \/ Last("reap"))
     /\ AtRest /\ cring_tail = cring_head
  \/ /\ phase = "running" /\ Last("call") /\ ~Quiescent
     /\ AtRest /\ cring_tail = cring_head
  \/ phase = "running" /\ Last("call") /\ Quiescent /\ Out
  \/ phase = "entering" /\ Last("flush") /\ Out
  \/ phase = "running" /\ Last("flush") /\ Posted
  \/ phase = "reaping" /\ Last("reap") /\ AtRest /\ seen = cring_tail
  \/ phase \in {"freed", "exited"} /\ AtRest

RoundInv ==
  /\ OneCallInv
  /\ StageInv
  /\ SureRounds => Round /\ lines[Garbled] = 0

(* A program stays what it is.                                             *)
LEMMA InRoundsStays ==
  ASSUME program' = program
  PROVE  (InRounds' <=> InRounds) /\ (SureRounds' <=> SureRounds)
  <1>1. InRounds' <=> InRounds
    BY DEF InRounds, StaysInPool, CallsBefore, Script, SqPoll
  <1> QED
    BY <1>1 DEF SureRounds, Fails

(* What follows what in a program in rounds.                               *)
LEMMA RoundOrder ==
  ASSUME TypeOK, InRounds, next \in 1 .. Len(Script)
  PROVE  /\ SqPoll
         /\ Script[next].op = "call" => next = 1 \/ Last("reap")
         /\ Script[next].op = "flush" => Last("call")
         /\ Script[next].op = "reap" => Last("flush")
  <1>1. /\ SqPoll
        /\ Script[next].op = "call" <=> next = 1 \/ Script[next - 1].op = "reap"
        /\ Script[next].op = "flush" <=> next > 1 /\ Script[next - 1].op = "call"
    BY DEF InRounds
  <1>2. next # 1 => next > 1 /\ next - 1 \in 1 .. Len(Script)
    BY ProgramTypes DEF TypeOK, Script
  <1>3. next # 1 => Script[next - 1].op \in {"call", "flush", "reap"}
    BY <1>2, ProgramTypes DEF TypeOK, Script
  <1> QED
    BY <1>1, <1>2, <1>3 DEF Last

(* A program in rounds ends after a round.                                 *)
LEMMA RoundEnd ==
  ASSUME TypeOK, InRounds, next > Len(Script)
  PROVE  next = 1 \/ Last("reap")
  <1>1. Len(Script) \in Nat /\ next = Len(Script) + 1
    BY ProgramTypes DEF TypeOK, Script
  <1>2. CASE Len(Script) = 0
    BY <1>1, <1>2
  <1>3. CASE Len(Script) # 0
    <2>1. Script # <<>> /\ next > 1 /\ next - 1 = Len(Script)
      BY <1>1, <1>3
    <2> QED
      BY <2>1 DEF InRounds, Last
  <1> QED
    BY <1>2, <1>3

(* Different places in the script, and different counters.                 *)
LEMMA Different ==
  ASSUME TypeOK
  PROVE  /\ Last("call") => ~Last("flush") /\ ~Last("reap") /\ next # 1
         /\ Last("flush") => ~Last("reap") /\ next # 1
         /\ \A x \in Counter : Inc(x) # x
  <1>1. \A x \in Counter : Inc(x) # x
    BY IncCases, ConstantTypes DEF Counter
  <1> QED
    BY <1>1 DEF Last

(* main makes a call of its own, or returns from one.                      *)
LEMMA RoundMainStep ==
  ASSUME RoundInv, SureRounds, Between, OneCallInv'
  PROVE  Round'
  <1>1. /\ TypeOK /\ Round /\ TypeOK' /\ InRounds /\ SqPoll /\ Fails = {}
        /\ next \in Nat /\ cring_head \in Counter /\ cring_tail \in Counter
    BY ProgramTypes DEF RoundInv, OneCallInv, TypeOK, Script, SureRounds, InRounds
  <1>2. /\ UNCHANGED <<sring_tail, sring_array, sqes, program>>
        /\ Quiescent' <=> Quiescent
    BY OtherSteps
  <1>3. CASE FlushEnter
    <2>1. /\ next \in 1 .. Len(Script) /\ next' = next + 1 /\ phase = "running"
          /\ Quiescent /\ Script[next].op = "flush"
      BY <1>1, <1>3, ReadyFacts DEF FlushEnter
    <2>2. Last("call")
      BY <1>1, <2>1, RoundOrder
    <2>3. Out
      BY <1>1, <2>1, <2>2, Different DEF Round
    <2>4. Out'
      BY <1>3, <2>3 DEF FlushEnter, Out, Queued, UnderWay, Posted, AtRest,
         RingEmpty, ring, cq
    <2>5. Last("flush")' /\ phase' = "entering"
      BY <1>2, <1>3, <2>1 DEF FlushEnter, Last, Script
    <2> QED
      BY <2>4, <2>5 DEF Round
  <1>4. CASE FlushReturn
    <2>1. phase = "entering" /\ phase' = "running" /\ cring_tail # cring_head
          /\ UNCHANGED <<sring_head, inflight, cring_head, cring_tail, next>>
      BY <1>1, <1>4 DEF FlushReturn, MustWait, ring, cq
    <2>2. Last("flush") /\ Posted
      BY <1>1, <2>1 DEF Round, Out, Queued, UnderWay
    <2>3. Last("flush")' /\ Posted'
      BY <1>2, <2>1, <2>2 DEF Last, Script, Posted, AtRest, RingEmpty
    <2> QED
      BY <2>1, <2>3 DEF Round
  <1>9. CASE FlushFails \/ FlushInterrupted
    BY <1>1, <1>9 DEF FlushFails, FlushInterrupted
  <1>5. CASE ReapLoad
    <2>1. /\ next \in 1 .. Len(Script) /\ next' = next + 1 /\ phase = "running"
          /\ Quiescent /\ Script[next].op = "reap"
      BY <1>1, <1>5, ReadyFacts DEF ReapLoad
    <2>2. Last("flush")
      BY <1>1, <2>1, RoundOrder
    <2>3. Posted
      BY <1>1, <2>1, <2>2, Different DEF Round
    <2>4. AtRest' /\ seen' = cring_tail'
      BY <1>5, <2>3 DEF ReapLoad, Posted, AtRest, RingEmpty, ringVars, ring, kernel, cq
    <2>5. Last("reap")' /\ phase' = "reaping"
      BY <1>2, <1>5, <2>1 DEF ReapLoad, Last, Script
    <2> QED
      BY <2>4, <2>5 DEF Round
  <1>6. CASE ReapStore
    <2>1. Last("reap") /\ AtRest /\ seen = cring_tail /\ phase' = "running"
          /\ cring_head' = seen
          /\ UNCHANGED <<sring_head, inflight, cring_tail, next>>
      BY <1>1, <1>6 DEF ReapStore, Round, ringVars, ring, kernel
    <2>2. Last("reap")' /\ AtRest'
      BY <1>2, <2>1 DEF Last, Script, AtRest, RingEmpty
    <2> QED
      BY <2>1, <2>2 DEF Round
  <1>7. CASE Teardown
    <2>1. /\ phase = "running" /\ next > Len(Script) /\ phase' = "freed"
          /\ UNCHANGED <<sring_head, inflight>>
      BY <1>7 DEF Teardown, ring, kernel
    <2>2. next = 1 \/ Last("reap")
      BY <1>1, <2>1, RoundEnd
    <2>3. AtRest
      BY <1>1, <2>1, <2>2, Different DEF Round
    <2> QED
      BY <1>2, <2>1, <2>3 DEF Round, AtRest, RingEmpty
  <1>8. CASE Exit
    BY <1>1, <1>2, <1>8 DEF Exit, Round, AtRest, RingEmpty, ring
  <1> QED
    BY <1>3, <1>4, <1>5, <1>6, <1>7, <1>8, <1>9 DEF Between

\* A flush of the round is called for or waits.
InCall ==
  \/ phase = "running" /\ Last("call") /\ Quiescent
  \/ phase = "entering" /\ Last("flush")

(* The kernel takes the last call's entry, performs its write, or idles.   *)
LEMMA RoundKernelStep ==
  ASSUME RoundInv, SureRounds, KernelSteps
  PROVE  Round' /\ lines'[Garbled] = 0
  <1>1. /\ TypeOK /\ RingTypeOK /\ Round /\ lines[Garbled] = 0
        /\ sring_head \in Counter /\ cring_head \in Counter
    BY DEF RoundInv, OneCallInv, TypeOK, RingTypeOK
  <1>2. /\ UNCHANGED <<sring_tail, sring_array, sqes, program, msg_pool>>
        /\ Quiescent' <=> Quiescent
    <2>1. UNCHANGED msg_pool
      BY DEF KernelSteps, Submit, SubmitNop, MayTake, FetchWrite, TakeWrite,
         FetchNop, TakeNop, Complete, PerformWrite, PutOut, Idle, PollerIdles
    <2> QED
      BY <2>1, OtherSteps
  <1>3. CASE Submit
    <2> DEFINE s == Slot(sring_head)
               r == [seq |-> sring_head, slot |-> s, msg |-> sqes[s]]
               e == sqes[NextSqe]
    <2>1. /\ ~RingEmpty /\ sring_head' = Inc(sring_head)
          /\ UNCHANGED <<lines, phase, next, cring_head, cring_tail>>
          /\ \E m \in Asked(NextSqe, e) :
               inflight' = inflight \union {[seq |-> sring_head, slot |-> NextSqe, msg |-> m]}
      BY <1>3 DEF Submit, FetchWrite, TakeWrite, cq
    <2>2. Queued /\ InCall
      <3>1. ~AtRest /\ ~Posted /\ ~UnderWay
        BY <2>1 DEF AtRest, Posted, UnderWay
      <3>2. Out /\ InCall
        BY <1>1, <3>1 DEF Round, InCall
      <3> QED
        BY <3>1, <3>2 DEF Out
    <2>3. inflight' = {r} /\ r.slot = s /\ r.msg = sqes[s]
          /\ msg_pool[s] = sqes[s] /\ sqes[s] \in Msgs
      BY <2>1, <2>2, AskedMsg DEF Queued, NextSqe
    <2> HIDE DEF s, r
    <2>4. UnderWay'
      BY <1>2, <2>1, <2>2, <2>3 DEF UnderWay, Queued, RingEmpty
    <2>5. Last("call")' = Last("call") /\ Last("flush")' = Last("flush")
      BY <1>2, <2>1 DEF Last, Script
    <2> QED
      BY <1>1, <1>2, <2>1, <2>2, <2>4, <2>5 DEF Round, Out, InCall
  <1>6. CASE SubmitNop
    <2>1. ~RingEmpty /\ sqes[NextSqe] \in {Zero, Half}
      BY <1>6 DEF SubmitNop, FetchNop, TakeNop
    <2>2. Queued
      BY <1>1, <2>1 DEF Round, Out, AtRest, Posted, UnderWay
    <2> QED
      BY <2>1, <2>2, RingAssumption DEF Queued, NextSqe
  <1>4. CASE Complete
    <2>1. PICK r \in inflight :
            /\ inflight' = inflight \ {r}
            /\ lines' = [lines EXCEPT ![Text(r)] = IF @ < 2 THEN @ + 1 ELSE 2]
      BY <1>4 DEF Complete, PerformWrite, PutOut
    <2>2. /\ UNCHANGED <<sring_head, phase, next, cring_head>>
          /\ cring_tail' = Inc(cring_tail)
      BY <1>4 DEF Complete, PerformWrite, PutOut, ring, main
    <2>3. UnderWay /\ InCall
      <3>1. ~AtRest /\ ~Posted /\ ~Queued
        BY <2>1 DEF AtRest, Posted, Queued
      <3>2. Out /\ InCall
        BY <1>1, <3>1 DEF Round, InCall
      <3> QED
        BY <3>1, <3>2 DEF Out
    <2>4. inflight = {r} /\ msg_pool[r.slot] = r.msg /\ r.msg \in Msgs
      BY <2>1, <2>3 DEF UnderWay
    <2>5. Posted'
      BY <1>2, <2>1, <2>2, <2>3, <2>4 DEF Posted, AtRest, UnderWay, RingEmpty
    <2>6. lines'[Garbled] = 0
      <3>1. Text(r) \in Msgs
        BY <2>4 DEF Text
      <3> QED
        BY <1>1, <2>1, <3>1, RingAssumption DEF RingTypeOK, Texts
    <2>7. Last("call")' = Last("call") /\ Last("flush")' = Last("flush")
      BY <1>2, <2>2 DEF Last, Script
    <2> QED
      BY <1>1, <1>2, <2>2, <2>3, <2>5, <2>6, <2>7 DEF Round, Out, InCall
  <1>5. CASE Idle
    <2>1. UNCHANGED <<sring_head, inflight, lines, phase, next, cring_head, cring_tail, seen>>
      BY <1>5 DEF Idle, PollerIdles, ring, cq, main
    <2> QED
      BY <1>1, <1>2, <2>1
         DEF Round, Out, Queued, UnderWay, Posted, AtRest, RingEmpty, Last, Script
  <1> QED
    BY <1>3, <1>4, <1>5, <1>6 DEF KernelSteps

(* A round begins.                                                         *)
LEMMA RoundCallStep ==
  ASSUME RoundInv, SureRounds, Call
  PROVE  Round' /\ lines'[Garbled] = 0
  <1> DEFINE c == Script[next].by
  <1>1. /\ TypeOK /\ OneCallInv /\ InRounds /\ Round /\ lines[Garbled] = 0
        /\ pc \in [Producers -> Stages] /\ msg \in [Producers -> Msgs \union {Zero}]
    BY DEF RoundInv, OneCallInv, TypeOK, RingTypeOK, SureRounds
  <1>2. /\ c \in Producers /\ Script[next].op = "call" /\ Quiescent
        /\ \A q \in Producers : Active(q)' <=> q = c
        /\ pc' = [pc EXCEPT ![c] = "room"]
        /\ next \in Nat /\ next' = next + 1 /\ phase = "running"
        /\ UNCHANGED <<program, ring, kernel, msg_pool, cq, phase, submitted, seen>>
    BY <1>1, CallStarts
  <1>3. next \in 1 .. Len(Script) /\ Script[next].msg \in Msgs
        /\ msg' = [msg EXCEPT ![c] = Script[next].msg]
    BY <1>1, ReadyFacts DEF Call, Reserve
  <1>4. AtRest /\ cring_tail = cring_head
    <2>1. next = 1 \/ Last("reap")
      BY <1>1, <1>2, <1>3, RoundOrder
    <2> QED
      BY <1>1, <1>2, <2>1, Different DEF Round
  <1>5. Round'
    <2>1. Last("call")' /\ ~Quiescent'
      BY <1>2, <1>3 DEF Last, Script, Quiescent
    <2>2. AtRest' /\ cring_tail' = cring_head' /\ phase' = "running"
      BY <1>2, <1>4 DEF AtRest, RingEmpty, ring, kernel, cq
    <2> QED
      BY <2>1, <2>2 DEF Round
  <1> QED
    BY <1>1, <1>2, <1>5 DEF kernel

(* The call is made.                                                       *)
LEMMA RoundWriteStep ==
  ASSUME RoundInv, SureRounds, NEW p \in Producers, Writes(p), UNCHANGED <<cq, main>>
  PROVE  Round' /\ lines'[Garbled] = 0
  <1>1. /\ TypeOK /\ OneCallInv /\ Round /\ StageInv /\ lines[Garbled] = 0
        /\ msg_pool \in [Slots -> Msgs \union {Zero}]
        /\ sqes \in [Slots -> Msgs \union {Zero, Half}]
        /\ sring_array \in [Slots -> Slots]
        /\ pc \in [Producers -> Stages]
        /\ Idx(p) \in Slots
    BY IndexType DEF RoundInv, OneCallInv, TypeOK, RingTypeOK
  <1>2. /\ Active(p) /\ Active(p)'
        /\ \A q \in Producers : Active(q) <=> q = p
        /\ \A q \in Producers : q # p => pc'[q] = pc[q] /\ pc[q] = "idle"
        /\ UNCHANGED <<sring_head, sring_tail, sq_tail_cache, tail, msg, kernel>>
    BY <1>1, CallGoesOn
  <1>3. Round'
    <2>1. phase = "running" /\ Last("call") /\ ~Quiescent /\ ~Quiescent'
      BY <1>1, <1>2 DEF OneCallInv, CallInv, Last, Quiescent
    <2>2. AtRest /\ cring_tail = cring_head
      BY <1>1, <2>1, Different DEF Round
    <2> QED
      BY <1>2, <2>1, <2>2 DEF Round, AtRest, RingEmpty, Last, Script, kernel, cq, main
  <1> QED
    BY <1>1, <1>2, <1>3 DEF kernel

(* The call publishes its entry.                                           *)
LEMMA RoundPublishStep ==
  ASSUME RoundInv, SureRounds, NEW p \in Producers, Publish(p), UNCHANGED <<cq, main>>
  PROVE  Round' /\ lines'[Garbled] = 0
  <1>1. /\ TypeOK /\ OneCallInv /\ Round /\ StageInv /\ lines[Garbled] = 0
        /\ Idx(p) \in Slots
    BY IndexType DEF RoundInv, OneCallInv
  <1>2. /\ Active(p) /\ pc[p] = "publish" /\ \A q \in Producers : ~Active(q)'
        /\ tail[p] = sring_tail /\ sring_tail' = Inc(sring_tail)
        /\ UNCHANGED <<sring_head, sring_array, sqes, msg_pool, kernel, tail, msg>>
    BY <1>1, CallEnds
  <1>3. phase = "running" /\ Last("call") /\ ~Quiescent /\ Quiescent'
    BY <1>1, <1>2 DEF OneCallInv, CallInv, Last, Quiescent
  <1>4. AtRest /\ cring_tail = cring_head
    BY <1>1, <1>3, Different DEF Round
  <1>5. Slot(sring_head) = Idx(p)
    BY <1>2, <1>4 DEF Idx, AtRest, RingEmpty
  <1>6. /\ sring_array[Idx(p)] = Idx(p) /\ sqes[Idx(p)] = msg[p]
        /\ msg_pool[Idx(p)] = msg[p] /\ msg[p] \in Msgs
    BY <1>1, <1>2 DEF StageInv
  <1>7. Queued'
    BY <1>2, <1>4, <1>5, <1>6 DEF Queued, AtRest, RingEmpty, kernel, cq
  <1>8. Round'
    BY <1>3, <1>7 DEF Round, Out, Last, Script, main
  <1> QED
    BY <1>1, <1>2, <1>8 DEF kernel

(* A step keeps the rounds.                                                *)
LEMMA RoundStep ==
  ASSUME RoundInv, [Next]_vars
  PROVE  RoundInv'
  <1>1. OneCallInv' /\ StageInv'
    BY OneCallStep, StageStep DEF RoundInv
  <1>2. program' = program
    BY DEF Next, Main, Call, FlushEnter, FlushFails, FlushReturn,
       FlushInterrupted, ReapLoad, ReapStore, Teardown, Exit,
       InPerror, Submit, SubmitNop, MayTake, Complete, Idle, Terminated, main, vars
  <1>3. SUFFICES ASSUME SureRounds
                 PROVE  Round' /\ lines'[Garbled] = 0
    BY <1>1, <1>2, InRoundsStays DEF RoundInv
  <1>4. CASE Call
    BY <1>3, <1>4, RoundCallStep
  <1>5. ASSUME NEW p \in Producers, InPerror(p)
        PROVE  Round' /\ lines'[Garbled] = 0
    BY <1>3, <1>5, RoundWriteStep, RoundPublishStep DEF InPerror, Perror, Writes
  <1>6. CASE Between
    <2>1. UNCHANGED lines
      BY <1>6 DEF Between, FlushEnter, FlushFails, FlushReturn,
         FlushInterrupted, ReapLoad, ReapStore, Teardown, Exit,
         ringVars, kernel
    <2> QED
      BY <1>1, <1>3, <1>6, <2>1, RoundMainStep DEF RoundInv
  <1>7. CASE KernelSteps
    BY <1>3, <1>7, RoundKernelStep
  <1>8. CASE UNCHANGED vars
    BY <1>3, <1>8
       DEF vars, ringVars, ring, callers, kernel, cq, main, RoundInv, Round,
          StageInv, Active,
           Quiescent, Idx, Out, Queued, UnderWay, Posted, AtRest, RingEmpty, Last, Script
  <1> QED
    BY <1>4, <1>5, <1>6, <1>7, <1>8
       DEF Next, Main, Terminated, Between, KernelSteps

(* The rounds are kept for ever.                                           *)
LEMMA RoundsKept == Spec => []RoundInv
  <1>1. Init => RoundInv
    BY InitOneCall, InitStage DEF Init, RingInit, RoundInv, Round, AtRest, RingEmpty, Texts
  <1> QED
    BY <1>1, RoundStep, PTL DEF Spec

(* A program in rounds of which no flush fails prints whole lines only:    *)
(* when it frees the pool no write is left that could read it.             *)
THEOREM RoundsCorrect == Spec => []RoundsPrintWhole
  <1>1. RoundInv => RoundsPrintWhole
    BY DEF RoundInv, RoundsPrintWhole
  <1> QED
    BY <1>1, RoundsKept, PTL

-----------------------------------------------------------------------------
(* Programs in rounds, some of whose flushes may fail.                     *)

\* Entries the kernel has not taken and writes it has not performed.
Outstanding == Pending + Cardinality(inflight)

\* They, and the completions after x.
Left(x) == Outstanding + Sub(cring_tail, x)

Failures == Cardinality(FailedBefore(next))

\* What is left at each stage of a round; a call in progress counts already.
SettleCount ==
  \/ phase = "running" /\ (next = 1 \/ Last("reap")) /\ Left(cring_head) <= Failures
  \/ /\ phase = "running" /\ Last("call")
     /\ Left(cring_head) + (IF Quiescent THEN 0 ELSE 1) <= Failures + 1
  \/ phase = "entering" /\ Last("flush") /\ Left(cring_head) <= Failures + 1
  \/ phase = "running" /\ Last("flush") /\ Outstanding <= Failures
  \/ phase = "reaping" /\ Last("reap") /\ Left(seen) <= Failures
  \/ phase \in {"freed", "exited"}

SettleInv ==
  /\ OneCallInv
  /\ IsFiniteSet(inflight)
  /\ InRounds => SettleCount

(* A failed flush more, or another call.                                   *)
LEMMA FailedCount ==
  ASSUME NEW n \in Nat \ {0}
  PROVE  LET Fail == Script[n].op = "flush" /\ n \in Fails IN
         /\ Cardinality(FailedBefore(n)) \in Nat
         /\ Fail => Cardinality(FailedBefore(n + 1)) = Cardinality(FailedBefore(n)) + 1
         /\ ~Fail => FailedBefore(n + 1) = FailedBefore(n)
  <1>1. IsFiniteSet(1 .. n - 1)
    BY FS_Interval
  <1>2. IsFiniteSet(FailedBefore(n)) /\ n \notin FailedBefore(n)
    BY <1>1, FS_Subset DEF FailedBefore
  <1>3. IF Script[n].op = "flush" /\ n \in Fails
          THEN FailedBefore(n + 1) = FailedBefore(n) \union {n}
          ELSE FailedBefore(n + 1) = FailedBefore(n)
    BY DEF FailedBefore
  <1> QED
    BY <1>2, <1>3, FS_CardinalityType, FS_AddElement

(* The counts are numbers.                                                 *)
LEMMA SettleTypes ==
  ASSUME TypeOK, IsFiniteSet(inflight)
  PROVE  /\ next \in Nat \ {0} /\ Failures \in Nat /\ Outstanding \in Nat
         /\ Pending \in Nat /\ Cardinality(inflight) \in Nat
         /\ Sub(cring_tail, cring_head) \in Nat /\ Sub(cring_tail, seen) \in Nat
         /\ sring_tail \in Counter /\ sring_head \in Counter
         /\ cring_tail \in Counter /\ cring_head \in Counter /\ seen \in Counter
  <1>1. next \in Nat \ {0}
    BY ProgramTypes DEF TypeOK, Script
  <1> QED
    BY <1>1, FailedCount, CountTypes DEF Failures, Outstanding, TypeOK, RingTypeOK

(* The kernel adds to nothing that is left: what it takes is still to be   *)
(* done, and what it has done is a completion.                             *)
LEMMA SettleKernel ==
  ASSUME TypeOK, IsFiniteSet(inflight), KernelSteps
  PROVE  /\ IsFiniteSet(inflight') /\ Outstanding' \in Nat /\ Outstanding' <= Outstanding
         /\ Left(cring_head)' <= Left(cring_head) /\ Left(seen)' <= Left(seen)
         /\ UNCHANGED <<program, next, phase, cring_head, seen>>
  <1>1. /\ Pending' \in Nat
        /\ Sub(cring_tail', cring_head) \in Nat /\ Sub(cring_tail', seen) \in Nat
    <2>1. TypeOK'
      BY TypeStep DEF Next, KernelSteps
    <2>2. /\ sring_tail' \in Counter /\ sring_head' \in Counter /\ cring_tail' \in Counter
      BY <2>1 DEF TypeOK, RingTypeOK
    <2>3. cring_head \in Counter /\ seen \in Counter
      BY SettleTypes
    <2> QED
      BY <2>2, <2>3, CounterTypes DEF Pending, Counter
  <1>2. UNCHANGED <<program, next, phase, cring_head, seen, sring_tail>>
    BY OtherSteps DEF KernelSteps, Submit, SubmitNop, Complete, Idle, MayTake, cq, main
  <1>3. CASE Submit
    <2>1. PICK m \in Asked(NextSqe, sqes[NextSqe]) :
            inflight' = inflight \union {[seq |-> sring_head, slot |-> NextSqe, msg |-> m]}
      BY <1>3 DEF Submit, FetchWrite, TakeWrite
    <2> DEFINE r == [seq |-> sring_head, slot |-> NextSqe, msg |-> m]
    <2> HIDE DEF r
    <2>2. /\ sring_head' = Inc(sring_head) /\ sring_tail # sring_head
          /\ cring_tail' = cring_tail /\ inflight' = inflight \union {r}
      BY <1>3, <2>1 DEF Submit, FetchWrite, TakeWrite, RingEmpty, cq, r
    <2>3. Pending' = Pending - 1
      BY <1>2, <2>2, SettleTypes, SubIncHead DEF Pending
    <2>4. IsFiniteSet(inflight') /\ Cardinality(inflight') <= Cardinality(inflight) + 1
      <3>1. CASE r \in inflight
        <4>1. inflight' = inflight
          BY <2>2, <3>1
        <4> QED
          BY <4>1, SettleTypes
      <3>2. CASE r \notin inflight
        <4>1. Cardinality(inflight') = Cardinality(inflight) + 1 /\ IsFiniteSet(inflight')
          BY <2>2, <3>2, FS_AddElement
        <4> QED
          BY <4>1, SettleTypes
      <3> QED
        BY <3>1, <3>2
    <2>5. Outstanding' \in Nat /\ Outstanding' <= Outstanding
      <3>1. Outstanding' \in Nat /\ Cardinality(inflight') \in Nat
        BY <1>1, <2>4, FS_CardinalityType DEF Outstanding
      <3> QED
        BY <2>3, <2>4, <3>1, SettleTypes DEF Outstanding
    <2> QED
      BY <1>2, <2>2, <2>4, <2>5, SettleTypes DEF Left
  <1>4. CASE SubmitNop \/ Complete
    <2>1. cring_tail' = Inc(cring_tail)
      BY <1>4 DEF SubmitNop, Complete
    <2>2. IsFiniteSet(inflight') /\ Outstanding' = Outstanding - 1
      <3>1. CASE SubmitNop
        <4>1. /\ sring_head' = Inc(sring_head) /\ sring_tail # sring_head
              /\ inflight' = inflight
          BY <3>1 DEF SubmitNop, FetchNop, TakeNop, RingEmpty, kernel
        <4>2. Pending' = Pending - 1
          BY <1>2, <4>1, SettleTypes, SubIncHead DEF Pending
        <4> QED
          BY <4>1, <4>2, SettleTypes DEF Outstanding
      <3>2. CASE Complete
        <4>1. PICK r \in inflight : inflight' = inflight \ {r} /\ sring_head' = sring_head
          BY <3>2 DEF Complete, PerformWrite, PutOut, ring
        <4>2. IsFiniteSet(inflight') /\ Cardinality(inflight') = Cardinality(inflight) - 1
          BY <4>1, FS_RemoveElement, FS_CardinalityType
        <4> QED
          BY <1>2, <4>1, <4>2, SettleTypes DEF Outstanding, Pending
      <3> QED
        BY <1>4, <3>1, <3>2
    <2>3. Outstanding' \in Nat
      BY <1>1, <2>2, FS_CardinalityType DEF Outstanding
    <2>4. /\ Sub(cring_tail', cring_head) <= Sub(cring_tail, cring_head) + 1
          /\ Sub(cring_tail', seen) <= Sub(cring_tail, seen) + 1
          /\ Sub(cring_tail', cring_head) \in Nat /\ Sub(cring_tail', seen) \in Nat
      <3>1. /\ Sub(cring_tail', cring_head) <= Sub(cring_tail, cring_head) + 1
            /\ Sub(cring_tail', seen) <= Sub(cring_tail, seen) + 1
        BY <2>1, SubIncTailAtMost, SettleTypes
      <3> QED
        BY <1>1, <3>1
    <2> QED
      BY <1>2, <2>2, <2>3, <2>4, SettleTypes DEF Left
  <1>5. CASE Idle
    <2>1. UNCHANGED <<sring_head, inflight, cring_tail>>
      BY <1>5 DEF Idle, PollerIdles, ring, cq
    <2> QED
      BY <1>2, <2>1, SettleTypes DEF Left, Outstanding, Pending
  <1> QED
    BY <1>2, <1>3, <1>4, <1>5 DEF KernelSteps

(* A step keeps the count.                                                 *)
LEMMA SettleStep ==
  ASSUME SettleInv, [Next]_vars
  PROVE  SettleInv'
  <1>1. /\ OneCallInv /\ TypeOK /\ IsFiniteSet(inflight) /\ OneCallInv' /\ TypeOK'
    BY OneCallStep DEF SettleInv, OneCallInv
  <1>2. /\ next \in Nat \ {0} /\ Failures \in Nat /\ Outstanding \in Nat
        /\ Left(cring_head) \in Nat /\ Left(seen) \in Nat
        /\ Sub(cring_tail, cring_head) \in Nat
        /\ cring_tail \in Counter /\ cring_head \in Counter
    BY <1>1, SettleTypes DEF Left
  <1>3. ASSUME NEW op, Ready(op), program' = program
        PROVE  /\ next' = next + 1 /\ Last(op)' /\ Quiescent
               /\ next \in 1 .. Len(Script) /\ Script[next].op = op /\ phase = "running"
               /\ op # "flush" \/ next \notin Fails => Failures' = Failures
               /\ op = "flush" /\ next \in Fails => Failures' = Failures + 1
    <2>1. /\ next' = next + 1 /\ Script[next].op = op /\ Quiescent /\ phase = "running"
          /\ next \in 1 .. Len(Script)
      BY <1>1, <1>3, ReadyFacts
    <2>2. Failures' = Cardinality(FailedBefore(next + 1))
      BY <1>3, <2>1 DEF Failures, FailedBefore, Script, Fails
    <2>3. Last(op)'
      BY <1>2, <1>3, <2>1 DEF Last, Script
    <2> QED
      BY <1>2, <2>1, <2>2, <2>3, FailedCount DEF Failures
  <1>4. ASSUME UNCHANGED <<program, next>>
        PROVE  Failures' = Failures /\ \A op \in {"call", "flush", "reap"} : Last(op)' <=> Last(op)
    BY <1>4 DEF Failures, FailedBefore, Last, Script, Fails
  <1>5. IsFiniteSet(inflight') /\ program' = program
    <2>1. CASE KernelSteps
      BY <1>1, <2>1, SettleKernel
    <2>2. ASSUME NEW p \in Producers, InPerror(p)
          PROVE  inflight' = inflight /\ program' = program
      BY <2>2 DEF InPerror, Perror, AwaitRoom, ZeroBuff, CopyMsg, ZeroSqe, BeginSqe,
         FillSqe, SetArray, Publish, kernel, main
    <2>3. CASE Exit
      BY <2>3, FS_EmptySet DEF Exit
    <2>4. CASE ~Exit /\ (Between \/ Call \/ UNCHANGED vars)
      BY <1>1, <2>4 DEF Between, FlushEnter, FlushFails, FlushReturn, FlushInterrupted,
         ReapLoad, ReapStore, Teardown, Call, Reserve, vars, ringVars, kernel, main
    <2> QED
      BY <1>1, <2>1, <2>2, <2>3, <2>4
         DEF Next, Main, Terminated, Between, KernelSteps
  <1>6. SUFFICES ASSUME InRounds PROVE SettleCount'
    BY <1>1, <1>5, InRoundsStays DEF SettleInv
  <1>7. SettleCount /\ SqPoll
    BY <1>6 DEF SettleInv, InRounds
  <1>8. CASE Call
    <2>1. /\ Ready("call") /\ ~Quiescent' /\ phase' = phase
          /\ UNCHANGED <<sring_head, sring_tail, inflight, cring_head, cring_tail>>
      BY <1>1, <1>8, CallStarts DEF Call, Quiescent, ring, kernel, cq
    <2>2. /\ next \in 1 .. Len(Script) /\ Script[next].op = "call" /\ phase = "running"
          /\ Last("call")' /\ Failures' = Failures
      BY <1>3, <1>5, <2>1
    <2>3. Left(cring_head) <= Failures
      BY <1>1, <1>6, <1>7, <2>2, RoundOrder, Different DEF SettleCount
    <2>4. Left(cring_head)' = Left(cring_head)
      BY <2>1 DEF Left, Outstanding, Pending
    <2> QED
      BY <1>2, <2>1, <2>2, <2>3, <2>4 DEF SettleCount
  <1>9. ASSUME NEW p \in Producers, Writes(p), UNCHANGED <<cq, main>>
        PROVE  SettleCount'
    <2>1. /\ UNCHANGED <<sring_head, sring_tail, inflight>>
          /\ ~Quiescent /\ ~Quiescent'
      BY <1>1, <1>9, CallGoesOn DEF Quiescent, kernel
    <2>2. UNCHANGED <<cring_head, cring_tail, seen, phase, program, next>>
      BY <1>9 DEF cq, main
    <2>3. /\ Outstanding' = Outstanding /\ Left(cring_head)' = Left(cring_head)
          /\ Left(seen)' = Left(seen)
      BY <2>1, <2>2 DEF Left, Outstanding, Pending
    <2> QED
      BY <1>4, <1>7, <2>1, <2>2, <2>3 DEF SettleCount, Last, Script
  <1>10. ASSUME NEW p \in Producers, Publish(p), UNCHANGED <<cq, main>>
         PROVE  SettleCount'
    <2>1. /\ Active(p) /\ sring_tail' = Inc(sring_tail)
          /\ UNCHANGED <<sring_head, inflight, cring_head, cring_tail, phase, program, next>>
          /\ ~Quiescent /\ Quiescent'
      BY <1>1, <1>10, CallEnds DEF Quiescent, kernel, cq, main
    <2>2. phase = "running" /\ Last("call")
      BY <1>1, <2>1 DEF OneCallInv, CallInv, Last
    <2>3. Left(cring_head) + 1 <= Failures + 1
      BY <1>1, <1>7, <2>1, <2>2, Different DEF SettleCount
    <2>4. Pending' \in Nat /\ Pending' <= Pending + 1
      <3>1. sring_tail \in Counter /\ sring_head \in Counter /\ sring_tail' \in Counter
        BY <1>1 DEF TypeOK, RingTypeOK
      <3>2. Pending' \in Nat
        BY <2>1, <3>1, CounterTypes DEF Pending, Counter
      <3> QED
        BY <2>1, <3>1, <3>2, SubIncTailAtMost DEF Pending
    <2>5. Left(cring_head)' <= Left(cring_head) + 1 /\ Left(cring_head)' \in Nat
      <3>1. Pending \in Nat /\ Cardinality(inflight) \in Nat
        BY <1>1, SettleTypes
      <3> QED
        BY <1>2, <2>1, <2>4, <3>1 DEF Left, Outstanding
    <2> QED
      BY <1>2, <1>4, <2>1, <2>2, <2>3, <2>5 DEF SettleCount
  <1>11. CASE FlushEnter
    <2>1. /\ Ready("flush") /\ next \notin Fails /\ phase' = "entering"
          /\ UNCHANGED <<sring_head, sring_tail, inflight, cring_head, cring_tail>>
      BY <1>11 DEF FlushEnter, ring, cq
    <2>2. /\ next \in 1 .. Len(Script) /\ Script[next].op = "flush" /\ phase = "running"
          /\ Last("flush")' /\ Failures' = Failures /\ Quiescent
      BY <1>3, <1>5, <2>1
    <2>3. Left(cring_head) <= Failures + 1
      BY <1>1, <1>2, <1>6, <1>7, <2>2, RoundOrder, Different DEF SettleCount
    <2>4. Left(cring_head)' = Left(cring_head)
      BY <2>1 DEF Left, Outstanding, Pending
    <2> QED
      BY <2>1, <2>2, <2>3, <2>4 DEF SettleCount
  <1>12. CASE FlushFails
    <2>1. /\ Ready("flush") /\ next \in Fails /\ phase' = phase
          /\ UNCHANGED <<sring_head, sring_tail, inflight>>
      BY <1>12 DEF FlushFails, ring
    <2>2. /\ next \in 1 .. Len(Script) /\ Script[next].op = "flush" /\ phase = "running"
          /\ Last("flush")' /\ Failures' = Failures + 1 /\ Quiescent
      BY <1>3, <1>5, <2>1
    <2>3. Left(cring_head) <= Failures + 1
      BY <1>1, <1>2, <1>6, <1>7, <2>2, RoundOrder, Different DEF SettleCount
    <2>4. Outstanding' = Outstanding /\ Outstanding <= Left(cring_head)
      BY <1>2, <2>1 DEF Left, Outstanding, Pending
    <2> QED
      BY <1>2, <2>1, <2>2, <2>3, <2>4 DEF SettleCount
  <1>13. CASE FlushReturn
    <2>1. /\ phase = "entering" /\ phase' = "running" /\ cring_tail # cring_head
          /\ UNCHANGED <<sring_head, sring_tail, inflight, next>>
      BY <1>7, <1>13 DEF FlushReturn, MustWait, ring
    <2>2. Last("flush") /\ Left(cring_head) <= Failures + 1
      BY <1>7, <2>1 DEF SettleCount
    <2>3. Sub(cring_tail, cring_head) # 0
      BY <1>2, <2>1, SubZero
    <2>4. Outstanding' = Outstanding /\ Outstanding <= Failures
      BY <1>2, <2>1, <2>2, <2>3 DEF Left, Outstanding, Pending
    <2> QED
      BY <1>4, <1>5, <2>1, <2>2, <2>4 DEF SettleCount
  <1>14. CASE FlushInterrupted
    BY <1>7, <1>14 DEF FlushInterrupted
  <1>15. CASE ReapLoad
    <2>1. /\ Ready("reap") /\ phase' = "reaping" /\ seen' = cring_tail
          /\ UNCHANGED <<sring_head, sring_tail, inflight, cring_tail>>
      BY <1>15 DEF ReapLoad, ringVars, ring, kernel, cq
    <2>2. /\ next \in 1 .. Len(Script) /\ Script[next].op = "reap" /\ phase = "running"
          /\ Last("reap")' /\ Failures' = Failures
      BY <1>3, <1>5, <2>1
    <2>3. Outstanding <= Failures
      BY <1>1, <1>6, <1>7, <2>2, RoundOrder, Different DEF SettleCount
    <2>4. Left(seen)' = Outstanding
      BY <1>2, <2>1, SubZero DEF Left, Outstanding, Pending
    <2> QED
      BY <2>1, <2>2, <2>3, <2>4 DEF SettleCount
  <1>16. CASE ReapStore
    <2>1. /\ phase = "reaping" /\ phase' = "running" /\ cring_head' = seen
          /\ UNCHANGED <<sring_head, sring_tail, inflight, cring_tail, next>>
      BY <1>16 DEF ReapStore, ringVars, ring, kernel
    <2>2. Last("reap") /\ Left(seen) <= Failures
      BY <1>7, <2>1 DEF SettleCount
    <2>3. Left(cring_head)' = Left(seen)
      BY <2>1 DEF Left, Outstanding, Pending
    <2> QED
      BY <1>4, <1>5, <2>1, <2>2, <2>3 DEF SettleCount
  <1>17. CASE Teardown \/ Exit
    BY <1>17 DEF Teardown, Exit, SettleCount
  <1>18. CASE KernelSteps
    <2>1. /\ Outstanding' \in Nat /\ Outstanding' <= Outstanding
          /\ Left(cring_head)' <= Left(cring_head) /\ Left(seen)' <= Left(seen)
          /\ UNCHANGED <<next, phase>> /\ (Quiescent' <=> Quiescent)
      BY <1>1, <1>18, SettleKernel, OtherSteps
    <2>2. Left(cring_head)' \in Int /\ Left(seen)' \in Int
      <3>1. cring_tail' \in Counter /\ cring_head' \in Counter /\ seen' \in Counter
        BY <1>1 DEF TypeOK
      <3>2. Sub(cring_tail', cring_head') \in Nat /\ Sub(cring_tail', seen') \in Nat
        BY <3>1, CounterTypes DEF Counter
      <3> QED
        BY <2>1, <3>2 DEF Left
    <2> QED
      BY <1>2, <1>4, <1>5, <1>7, <2>1, <2>2 DEF SettleCount
  <1>19. CASE UNCHANGED vars
    BY <1>7, <1>19
       DEF vars, ringVars, ring, kernel, cq, main, SettleCount, Last, Left, Outstanding,
           Pending, Failures, FailedBefore, Script, Fails, Quiescent, Active
  <1> QED
    BY <1>8, <1>9, <1>10, <1>11, <1>12, <1>13, <1>14, <1>15, <1>16, <1>17, <1>18, <1>19
       DEF Next, Main, Terminated, InPerror, Perror, Writes, KernelSteps

(* In io_uring_svm_cpu_only, and in every program of such rounds, waiting  *)
(* for at least one completion waits for the round's own, but for as many  *)
(* writes as flushes have failed.                                          *)
THEOREM SettlesCorrect == Spec => []FlushSettles
  <1>1. Init => SettleInv
    <2> SUFFICES ASSUME Init PROVE SettleInv
      OBVIOUS
    <2>1. OneCallInv /\ TypeOK
      BY InitOneCall DEF OneCallInv
    <2>2. /\ inflight = {} /\ cring_tail = 0 /\ cring_head = 0 /\ next = 1
          /\ sring_tail = 0 /\ sring_head = 0 /\ phase = "running"
      BY DEF Init, RingInit
    <2>3. IsFiniteSet(inflight) /\ Cardinality(inflight) = 0
      BY <2>2, FS_EmptySet
    <2>4. Sub(0, 0) = 0
      BY ConstantTypes, SubZero DEF Counter
    <2>5. Left(cring_head) = 0 /\ Failures \in Nat
      BY <2>1, <2>2, <2>3, <2>4, SettleTypes DEF Left, Outstanding, Pending
    <2> QED
      BY <2>1, <2>2, <2>3, <2>5 DEF SettleInv, SettleCount
  <1>2. SettleInv => FlushSettles
    <2> SUFFICES ASSUME SettleInv, InRounds, phase \in {"running", "reaping"}, next > 1,
                        Script[next - 1].op # "call"
                 PROVE  Outstanding <= Failures
      BY DEF FlushSettles, Outstanding, Failures
    <2>1. TypeOK /\ SettleCount /\ ~Last("call")
      BY DEF SettleInv, OneCallInv, Last
    <2>2. /\ Outstanding \in Nat /\ Failures \in Nat
          /\ Outstanding <= Left(cring_head) /\ Outstanding <= Left(seen)
          /\ Left(cring_head) \in Nat /\ Left(seen) \in Nat
      BY <2>1, SettleTypes DEF SettleInv, Left
    <2> QED
      BY <2>1, <2>2 DEF SettleCount
  <1> QED
    BY <1>1, <1>2, SettleStep, PTL DEF Spec

-----------------------------------------------------------------------------
(* Programs of no more calls than there are buffers.                       *)

Short == CallsBefore(Len(Script) + 1) <= QUEUE_DEPTH

Pooled == phase \notin {"freed", "exited"}

\* The entry at this position is complete.
Filled(s) == sring_array[s] = s /\ sqes[s] \in Msgs /\ msg_pool[s] = sqes[s]

\* Tickets count the calls and are their own positions.
ShortInv ==
  /\ sq_tail_cache = CallsBefore(next)
  /\ sring_head <= sring_tail
  /\ \A s \in 0 .. sring_tail - 1 : Filled(s)
  /\ \A r \in inflight : r.slot \in 0 .. sring_tail - 1 /\ r.msg = sqes[r.slot]
  /\ lines[Garbled] = 0

LinesInv ==
  /\ OneCallInv
  /\ StageInv
  /\ Short /\ Pooled => ShortInv

(* No prefix of a program has more calls than the program.                 *)
LEMMA CallsGrow ==
  ASSUME TypeOK, NEW m \in 1 .. Len(Script) + 1
  PROVE  CallsBefore(m) <= CallsBefore(Len(Script) + 1)
  <1> DEFINE n == Len(Script)
             S == {i \in 1 .. m - 1 : Script[i].op = "call"}
             T == {i \in 1 .. (n + 1) - 1 : Script[i].op = "call"}
  <1>1. n \in Nat /\ m \in 1 .. n + 1
    BY ProgramTypes DEF TypeOK, Script
  <1>2. S \subseteq T
    BY <1>1
  <1>3. IsFiniteSet(1 .. n) /\ T \subseteq 1 .. n
    BY <1>1, FS_Interval
  <1>4. IsFiniteSet(T)
    BY <1>3, FS_Subset
  <1>5. CallsBefore(m) = Cardinality(S) /\ CallsBefore(n + 1) = Cardinality(T)
    BY DEF CallsBefore
  <1> HIDE DEF S, T
  <1> QED
    BY <1>2, <1>4, <1>5, FS_Subset

(* The tail stays below the pool's size, and the call in progress writes   *)
(* just past what is in the ring.                                          *)
LEMMA ShortTail ==
  ASSUME OneCallInv, Short, ShortInv
  PROVE  /\ sring_tail \in Nat /\ sring_head \in Nat
         /\ sring_tail <= QUEUE_DEPTH
         /\ 0 .. sring_tail - 1 \subseteq Slots
         /\ \A s \in 0 .. sring_tail - 1 : Slot(s) = s
         /\ \A p \in Producers : Active(p) =>
              /\ sring_tail < QUEUE_DEPTH
              /\ sq_tail_cache = sring_tail + 1
              /\ Idx(p) = sring_tail
  <1>1. /\ sring_tail \in Counter /\ sring_head \in Counter /\ next \in Nat \ {0}
        /\ CallsBefore(next) <= QUEUE_DEPTH /\ CallsBefore(next) \in Nat
    <2>1. next \in Nat \ {0} /\ Len(Script) + 1 \in Nat \ {0}
      BY ProgramTypes DEF OneCallInv, TypeOK, Script
    <2>2. CallsBefore(next) \in Nat /\ CallsBefore(Len(Script) + 1) \in Nat
      BY <2>1, CallsCount
    <2> QED
      BY <2>1, <2>2, CallsGrow, ConstantTypes DEF OneCallInv, TypeOK, RingTypeOK, Short
  <1>2. ASSUME NEW p \in Producers, Active(p)
        PROVE  sq_tail_cache = sring_tail + 1 /\ sring_tail < QUEUE_DEPTH /\ tail[p] = sring_tail
    <2>1. /\ sq_tail_cache = Inc(sring_tail) /\ tail[p] = sring_tail
          /\ next > 1 /\ Script[next - 1].op = "call"
      BY <1>2 DEF OneCallInv, CallInv
    <2>2. next - 1 \in Nat \ {0} /\ (next - 1) + 1 = next
      BY <1>1, <2>1
    <2>3. CallsBefore(next) = CallsBefore(next - 1) + 1 /\ CallsBefore(next - 1) \in Nat
      BY <2>1, <2>2, CallsCount
    <2>4. Inc(sring_tail) # 0
      <3>1. CallsBefore(next) # 0
        BY <2>3
      <3> QED
        BY <2>1, <3>1 DEF ShortInv
    <2>5. Inc(sring_tail) = sring_tail + 1
      BY <1>1, <2>4, IncCases
    <2>6. sring_tail + 1 = CallsBefore(next)
      BY <2>1, <2>5 DEF ShortInv
    <2> QED
      BY <1>1, <2>1, <2>5, <2>6, ConstantTypes DEF Counter
  <1>3. sring_tail \in Nat /\ sring_head \in Nat /\ sring_tail <= QUEUE_DEPTH
    <2>1. CASE Quiescent
      BY <1>1, <2>1 DEF OneCallInv, QuietInv, ShortInv, Counter
    <2>2. CASE ~Quiescent
      BY <1>1, <1>2, <2>2, ConstantTypes DEF Quiescent, Counter
    <2> QED
      BY <2>1, <2>2
  <1>4. \A s \in 0 .. sring_tail - 1 : s \in Slots /\ Slot(s) = s
    BY <1>3, ConstantTypes, ModSmall DEF Slots, Slot
  <1>5. \A p \in Producers : Active(p) => Idx(p) = sring_tail
    <2>1. sring_tail < QUEUE_DEPTH => sring_tail \in 0 .. Entries - 1
      BY <1>3, ConstantTypes
    <2> QED
      BY <1>2, <2>1, ConstantTypes, ModSmall DEF Idx, Slot
  <1> QED
    BY <1>2, <1>3, <1>4, <1>5

(* A call takes the next position, fills it and publishes it.              *)
LEMMA ShortCallStep ==
  ASSUME LinesInv, Short, ShortInv, OneCallInv',
         \/ Call
         \/ (\E p \in Producers : Writes(p) \/ Publish(p)) /\ UNCHANGED <<cq, main>>
  PROVE  ShortInv'
  <1>1. /\ OneCallInv /\ StageInv /\ TypeOK
        /\ msg_pool \in [Slots -> Msgs \union {Zero}]
        /\ sqes \in [Slots -> Msgs \union {Zero, Half}]
        /\ sring_array \in [Slots -> Slots]
    BY DEF LinesInv, OneCallInv, TypeOK, RingTypeOK
  <1>2. /\ sring_tail \in Nat /\ sring_head \in Nat /\ sring_tail <= QUEUE_DEPTH
        /\ 0 .. sring_tail - 1 \subseteq Slots
    BY <1>1, ShortTail
  <1>3. CASE Call
    <2>1. /\ Script[next].op = "call" /\ Quiescent /\ sq_tail_cache' = Inc(sring_tail)
          /\ next \in Nat \ {0} /\ next' = next + 1
          /\ UNCHANGED <<program, ring, kernel, msg_pool>>
      BY <1>1, <1>3, CallStarts, ReadyFacts DEF Call
    <2>2. sring_tail = CallsBefore(next)
      BY <1>1, <2>1 DEF OneCallInv, QuietInv, ShortInv
    <2>3. CallsBefore(next)' = CallsBefore(next) + 1
      <3>1. CallsBefore(next)' = CallsBefore(next + 1)
        BY <2>1 DEF CallsBefore, Script
      <3> QED
        BY <2>1, <3>1, CallsCount
    <2>4. Inc(sring_tail) = sring_tail + 1
      <3>1. next + 1 \in 1 .. Len(Script) + 1 /\ Len(Script) + 1 \in Nat \ {0}
        BY <1>1, <1>3, ReadyFacts, ProgramTypes DEF Call, TypeOK, Script
      <3>2. CallsBefore(next + 1) <= QUEUE_DEPTH
        <4>1. /\ CallsBefore(next + 1) \in Nat /\ CallsBefore(Len(Script) + 1) \in Nat
          BY <3>1, CallsCount
        <4> QED
          BY <1>1, <3>1, <4>1, CallsGrow, ConstantTypes DEF Short
      <3>3. CallsBefore(next + 1) = sring_tail + 1
        BY <2>1, <2>2, CallsCount
      <3>4. sring_tail \in 0 .. Wrap - 2
        BY <1>2, <3>2, <3>3, ConstantTypes
      <3> QED
        BY <3>4, IncCases, ConstantTypes DEF Counter
    <2> QED
      BY <2>1, <2>2, <2>3, <2>4 DEF ShortInv, Filled, ring, kernel
  <1>4. ASSUME NEW p \in Producers, Writes(p), UNCHANGED <<cq, main>>
        PROVE  ShortInv'
    <2>1. /\ Active(p)
          /\ UNCHANGED <<sring_head, sring_tail, sq_tail_cache, inflight, lines, next, program>>
      BY <1>1, <1>4, CallGoesOn DEF kernel, main
    <2>2. Idx(p) = sring_tail
      BY <1>1, <2>1, ShortTail
    <2>3. \A s \in 0 .. sring_tail - 1 :
            /\ s \in Slots /\ s # Idx(p)
            /\ sring_array'[s] = sring_array[s] /\ sqes'[s] = sqes[s]
            /\ msg_pool'[s] = msg_pool[s]
      <3>1. \A s \in 0 .. sring_tail - 1 : s \in Slots /\ s # Idx(p)
        BY <1>2, <2>2
      <3> HIDE DEF Idx
      <3> QED
        BY <1>1, <1>4, <3>1
           DEF Writes, AwaitRoom, ZeroBuff, CopyMsg, ZeroSqe, BeginSqe,
              FillSqe, SetArray, ring
    <2>4. CallsBefore(next)' = CallsBefore(next)
      BY <2>1 DEF CallsBefore, Script
    <2> QED
      BY <2>1, <2>3, <2>4 DEF ShortInv, Filled
  <1>5. ASSUME NEW p \in Producers, Publish(p), UNCHANGED <<cq, main>>
        PROVE  ShortInv'
    <2>1. /\ Active(p) /\ pc[p] = "publish" /\ sring_tail' = Inc(sring_tail)
          /\ sq_tail_cache' = sring_tail'
          /\ UNCHANGED <<sring_head, sring_array, sqes, msg_pool, inflight, lines, next, program>>
      BY <1>1, <1>5, CallEnds DEF kernel, main
    <2>2. Idx(p) = sring_tail /\ sring_tail' = sring_tail + 1
      <3>1. /\ Idx(p) = sring_tail /\ sq_tail_cache = sring_tail + 1
            /\ sq_tail_cache = Inc(sring_tail)
        BY <1>1, <2>1, ShortTail DEF OneCallInv, CallInv
      <3> QED
        BY <2>1, <3>1
    <2>3. Filled(sring_tail)
      BY <1>1, <2>1, <2>2 DEF Filled, StageInv
    <2>4. CallsBefore(next)' = sq_tail_cache'
      <3>1. CallsBefore(next)' = CallsBefore(next)
        BY <2>1 DEF CallsBefore, Script
      <3>2. sq_tail_cache = Inc(sring_tail)
        BY <1>1, <2>1 DEF OneCallInv, CallInv
      <3> QED
        BY <2>1, <3>1, <3>2 DEF ShortInv
    <2>5. \A s \in 0 .. sring_tail' - 1 : s \in 0 .. sring_tail - 1 \/ s = sring_tail
      BY <1>2, <2>2
    <2>6. \A s \in 0 .. sring_tail - 1 : s \in 0 .. sring_tail' - 1
      BY <1>2, <2>2
    <2>7. sring_head' <= sring_tail'
      BY <1>2, <2>1, <2>2 DEF ShortInv
    <2> QED
      BY <2>1, <2>3, <2>4, <2>5, <2>6, <2>7 DEF ShortInv, Filled
  <1> QED
    BY <1>3, <1>4, <1>5

(* main and the kernel leave the positions in use alone, until teardown.   *)
LEMMA ShortOtherStep ==
  ASSUME LinesInv, Short, ShortInv, Between \/ KernelSteps \/ UNCHANGED vars, Pooled'
  PROVE  ShortInv'
  <1>1. /\ OneCallInv /\ TypeOK /\ lines \in [Texts -> 0 .. 2]
    BY DEF LinesInv, OneCallInv, TypeOK, RingTypeOK
  <1>2. /\ sring_tail \in Nat /\ sring_head \in Nat /\ sring_tail <= QUEUE_DEPTH
        /\ \A s \in 0 .. sring_tail - 1 : s \in Slots /\ Slot(s) = s
    BY <1>1, ShortTail
  <1>3. UNCHANGED <<sq_tail_cache, sring_tail, sring_array, sqes, program>>
    BY OtherSteps
  <1>4. CASE FlushEnter \/ FlushFails \/ ReapLoad
    <2>1. next \in Nat \ {0} /\ next' = next + 1 /\ Script[next].op # "call"
      <3>1. Ready("flush") \/ Ready("reap")
        BY <1>4 DEF FlushEnter, FlushFails, ReapLoad
      <3> QED
        BY <1>1, <3>1, ReadyFacts
    <2>2. UNCHANGED <<sring_head, msg_pool, inflight, lines>>
      BY <1>4 DEF FlushEnter, FlushFails, ReapLoad, ringVars, ring, kernel
    <2>3. CallsBefore(next)' = CallsBefore(next)
      <3>1. CallsBefore(next)' = CallsBefore(next + 1)
        BY <1>3, <2>1 DEF CallsBefore, Script
      <3> QED
        BY <2>1, <3>1, CallsCount
    <2> QED
      BY <1>3, <2>2, <2>3 DEF ShortInv, Filled
  <1>5. CASE FlushReturn \/ FlushInterrupted \/ ReapStore \/ Idle \/ UNCHANGED vars
    <2>1. UNCHANGED <<sring_head, msg_pool, inflight, lines, next>>
      BY <1>5 DEF FlushReturn, FlushInterrupted, ReapStore, Idle, PollerIdles, ringVars,
         ring, kernel, main, vars
    <2>2. CallsBefore(next)' = CallsBefore(next)
      BY <1>3, <2>1 DEF CallsBefore, Script
    <2> QED
      BY <1>3, <2>1, <2>2 DEF ShortInv, Filled
  <1>6. CASE Teardown \/ Exit
    BY <1>6 DEF Teardown, Exit, Pooled
  <1>7. CASE Submit \/ SubmitNop
    <2>1. /\ sring_tail # sring_head /\ sring_head' = Inc(sring_head)
          /\ UNCHANGED <<msg_pool, lines, next>>
      BY <1>7 DEF Submit, FetchWrite, TakeWrite, SubmitNop, FetchNop, TakeNop,
         RingEmpty, kernel
    <2>2. sring_head \in 0 .. sring_tail - 1
      BY <1>2, <2>1 DEF ShortInv
    <2>3. sring_head' <= sring_tail
      BY <1>2, <2>1, <2>2, IncCases, ConstantTypes DEF Counter
    <2>4. NextSqe = sring_head /\ sqes[NextSqe] \in Msgs
      BY <1>2, <2>2 DEF NextSqe, ShortInv, Filled
    <2>5. \A r \in inflight' : r.slot \in 0 .. sring_tail - 1 /\ r.msg = sqes[r.slot]
      <3> DEFINE e == sqes[NextSqe]
      <3>1. ~SubmitNop
        BY <2>4, RingAssumption DEF SubmitNop, FetchNop, TakeNop
      <3>2. PICK m \in Asked(NextSqe, e) :
              inflight' = inflight \union {[seq |-> sring_head, slot |-> NextSqe, msg |-> m]}
        BY <1>7, <3>1 DEF Submit, FetchWrite, TakeWrite
      <3>3. m = e
        BY <2>4, AskedMsg
      <3> QED
        BY <2>2, <2>4, <3>2, <3>3 DEF ShortInv
    <2>6. CallsBefore(next)' = CallsBefore(next)
      BY <1>3, <2>1 DEF CallsBefore, Script
    <2> QED
      BY <1>3, <2>1, <2>3, <2>5, <2>6 DEF ShortInv, Filled
  <1>8. CASE Complete
    <2>1. PICK r \in inflight :
            /\ inflight' = inflight \ {r}
            /\ lines' = [lines EXCEPT ![Text(r)] = IF @ < 2 THEN @ + 1 ELSE 2]
            /\ UNCHANGED <<msg_pool, sring_head, next>>
      BY <1>8 DEF Complete, PerformWrite, PutOut, ring, main
    <2>2. Text(r) \in Msgs
      BY DEF ShortInv, Filled, Text
    <2>3. lines'[Garbled] = 0
      BY <1>1, <2>1, <2>2, RingAssumption DEF ShortInv, Texts
    <2>4. CallsBefore(next)' = CallsBefore(next)
      BY <1>3, <2>1 DEF CallsBefore, Script
    <2> QED
      BY <1>3, <2>1, <2>3, <2>4 DEF ShortInv, Filled
  <1> QED
    BY <1>4, <1>5, <1>6, <1>7, <1>8 DEF Between, KernelSteps

(* A step keeps the invariant.                                             *)
LEMMA LinesStep ==
  ASSUME LinesInv, [Next]_vars
  PROVE  LinesInv'
  <1>1. OneCallInv' /\ StageInv'
    BY OneCallStep, StageStep DEF LinesInv
  <1>2. program' = program /\ (Pooled' => Pooled)
    BY DEF Next, Main, Call, FlushEnter, FlushFails, FlushReturn,
       FlushInterrupted, ReapLoad, ReapStore, Teardown, Exit,
       Ready, InPerror, Submit, SubmitNop, MayTake, Complete, Idle, Terminated,
          main, vars, Pooled
  <1>3. Short' <=> Short
    BY <1>2 DEF Short, CallsBefore, Script
  <1>4. SUFFICES ASSUME Short, Pooled', ShortInv
                 PROVE  ShortInv'
    BY <1>1, <1>2, <1>3 DEF LinesInv
  <1> QED
    BY <1>1, <1>4, ShortCallStep, ShortOtherStep
       DEF Next, Main, Terminated, InPerror, Perror, Writes, Between, KernelSteps

(* A program of no more calls than there are buffers prints whole lines,   *)
(* with any flushes and however few completions they wait for, until it    *)
(* frees the pool.                                                         *)
THEOREM LinesCorrect == Spec => []WholeLines
  <1>1. Init => LinesInv
    <2> SUFFICES ASSUME Init PROVE LinesInv
      OBVIOUS
    <2>1. /\ sq_tail_cache = 0 /\ sring_head = 0 /\ sring_tail = 0 /\ inflight = {}
          /\ lines[Garbled] = 0 /\ next = 1
      BY DEF Init, RingInit, Texts
    <2>2. CallsBefore(1) = 0
      <3>1. {i \in 1 .. 1 - 1 : Script[i].op = "call"} = {}
        OBVIOUS
      <3> QED
        BY <3>1, FS_EmptySet DEF CallsBefore
    <2> QED
      BY <2>1, <2>2, InitOneCall, InitStage DEF LinesInv, ShortInv
  <1>2. LinesInv => WholeLines
    BY DEF LinesInv, ShortInv, WholeLines, Short, Pooled
  <1> QED
    BY <1>1, <1>2, LinesStep, PTL DEF Spec

-----------------------------------------------------------------------------
(* Without a polling thread.                                               *)

\* No flush that succeeds at the positions from b up to, and without, e.
NoFlush(b, e) == \A k \in b .. e - 1 : ~Flushed(k)

\* b is the position after the last flush that has succeeded, if any has: the
\* kernel has taken the calls before it, and those the flush in progress has
\* submitted.
HeldFrom(b) ==
  /\ b \in 1 .. next
  /\ b = 1 \/ Flushed(b - 1)
  /\ phase = "entering" =>
       /\ next > 1 /\ Flushed(next - 1)
       /\ b <= next - 1 /\ NoFlush(b, next - 1) /\ Taken = CallsBefore(b) + submitted
  /\ phase # "entering" => NoFlush(b, next) /\ Taken = CallsBefore(b)

\* Only in io_uring_enter does the kernel take anything.
Asleep == phase # "entering" => poller # "polling"

HeldInv ==
  /\ OneCallInv
  /\ ~SqPoll /\ BatchesFit => Asleep /\ \E b \in 1 .. next : HeldFrom(b)

(* The counts of a program without a polling thread.                       *)
LEMMA HeldTypes ==
  ASSUME TypeOK
  PROVE  /\ next \in Nat \ {0} /\ Len(Script) \in Nat
         /\ Pending \in Nat /\ Published \in Int /\ Taken \in Int
         /\ submitted \in Nat /\ submitted <= QUEUE_DEPTH
         /\ sring_tail \in Counter /\ sring_head \in Counter
         /\ CallsBefore(next) \in Nat
         /\ \A b \in 1 .. next : b \in Nat \ {0} /\ CallsBefore(b) \in Nat
  <1>1. next \in Nat \ {0} /\ Len(Script) \in Nat
    BY ProgramTypes DEF TypeOK, Script
  <1>2. \A b \in 1 .. next : b \in Nat \ {0} /\ CallsBefore(b) \in Nat
    BY <1>1, CallsCount
  <1>3. CallsBefore(next) \in Nat
    BY <1>1, CallsCount
  <1>4. /\ sring_tail \in Counter /\ sring_head \in Counter
        /\ submitted \in Nat /\ submitted <= QUEUE_DEPTH
    BY ConstantTypes DEF TypeOK, RingTypeOK
  <1>5. Pending \in Nat
    BY <1>4, CounterTypes DEF Pending, Counter
  <1>6. Published \in Int
    BY <1>3 DEF Published
  <1> QED
    BY <1>1, <1>2, <1>3, <1>4, <1>5, <1>6 DEF Taken

(* main makes its next call, of whichever kind.                            *)
LEMMA NextCallTaken ==
  ASSUME OneCallInv, NEW op \in {"call", "flush", "reap"}, Ready(op),
         UNCHANGED <<program, sring_head, sring_tail>>,
         op = "call" <=> ~Quiescent'
  PROVE  Taken' = Taken
  <1>1. /\ Quiescent /\ next \in Nat \ {0} /\ next' = next + 1 /\ Script[next].op = op
        /\ CallsBefore(next) \in Nat
    BY ReadyFacts, HeldTypes DEF OneCallInv
  <1>2. CallsBefore(next)' = CallsBefore(next + 1)
    BY <1>1 DEF CallsBefore, Script
  <1>3. CallsBefore(next + 1) = CallsBefore(next) + (IF op = "call" THEN 1 ELSE 0)
    BY <1>1, CallsCount
  <1>4. Published' = Published
    BY <1>1, <1>2, <1>3 DEF Published
  <1> QED
    BY <1>4 DEF Taken, Pending

(* main goes on to its next call, other than a flush that succeeds.        *)
LEMMA HeldNextCall ==
  ASSUME OneCallInv, NEW b, HeldFrom(b), NEW op, Ready(op), ~Flushed(next),
         program' = program, phase' # "entering", Taken' = Taken
  PROVE  HeldFrom(b)'
  <1>1. /\ next' = next + 1 /\ next \in Nat
        /\ phase = "running" /\ Script' = Script /\ Fails' = Fails
    BY ReadyFacts, HeldTypes DEF OneCallInv, Script, Fails
  <1>2. b \in Nat /\ b \in 1 .. next /\ b \in 1 .. next'
    BY <1>1 DEF HeldFrom
  <1>3. \A k \in b .. next' - 1 : k \in b .. next - 1 \/ k = next
    BY <1>1, <1>2
  <1>4. NoFlush(b, next)'
    BY <1>1, <1>3 DEF NoFlush, HeldFrom, Flushed
  <1>5. CallsBefore(b)' = CallsBefore(b)
    BY <1>1 DEF CallsBefore
  <1> QED
    BY <1>1, <1>2, <1>4, <1>5 DEF HeldFrom, Flushed

(* Steps that leave the program and its calls where they are.              *)
LEMMA HeldStays ==
  ASSUME NEW b, HeldFrom(b), UNCHANGED <<program, next, submitted>>, Taken' = Taken,
         phase' = "entering" <=> phase = "entering"
  PROVE  HeldFrom(b)'
  BY DEF HeldFrom, Flushed, NoFlush, CallsBefore, Script, Fails

(* A flush returns: it has submitted every call before it.                 *)
LEMMA HeldFlushReturn ==
  ASSUME OneCallInv, BatchesFit, ~SqPoll, NEW b \in 1 .. next, HeldFrom(b),
         FlushReturn \/ FlushInterrupted, Taken' = Taken
  PROVE  HeldFrom(next)'
  <1>1. /\ phase = "entering" /\ phase' = "running"
        /\ RingEmpty \/ submitted = QUEUE_DEPTH
        /\ UNCHANGED <<next, program>> /\ Script' = Script /\ Fails' = Fails
    BY DEF FlushReturn, FlushInterrupted, Submitted, Script, Fails
  <1>2. Quiescent
    BY <1>1 DEF OneCallInv, CallInv, Quiescent
  <1>3. /\ next > 1 /\ Script[next - 1].op = "flush" /\ Flushed(next - 1)
        /\ b <= next - 1 /\ NoFlush(b, next - 1)
        /\ Taken = CallsBefore(b) + submitted
    BY <1>1 DEF HeldFrom, Flushed
  <1>4. /\ next \in Nat \ {0} /\ next - 1 \in Nat \ {0} /\ (next - 1) + 1 = next
        /\ Pending \in Nat /\ CallsBefore(next) \in Nat /\ CallsBefore(b) \in Nat
        /\ next \in 1 .. Len(Script) + 1
    BY <1>3, HeldTypes DEF OneCallInv, TypeOK
  <1>5. CallsBefore(next) = CallsBefore(next - 1)
    BY <1>3, <1>4, CallsCount
  <1>6. CallsBefore(next - 1) - CallsBefore(b) <= QUEUE_DEPTH
    <2>1. b \in 1 .. Len(Script) + 1 /\ next - 1 \in 1 .. Len(Script) + 1
      BY <1>3, <1>4, HeldTypes DEF OneCallInv
    <2> QED
      BY <1>3, <2>1 DEF BatchesFit, NoFlush
  <1>7. Taken = CallsBefore(next) - Pending
    BY <1>2, <1>4 DEF Taken, Published
  <1>8. Taken = CallsBefore(next)
    <2>1. CASE RingEmpty
      <3>1. Pending = 0
        BY <2>1, SubZero, HeldTypes DEF RingEmpty, Pending, OneCallInv
      <3> QED
        BY <1>4, <1>7, <3>1
    <2>2. CASE submitted = QUEUE_DEPTH
      BY <1>3, <1>4, <1>5, <1>6, <1>7, <2>2, ConstantTypes
    <2> QED
      BY <1>1, <2>1, <2>2
  <1>9. CallsBefore(next)' = CallsBefore(next) /\ NoFlush(next, next)'
    BY <1>1, <1>4 DEF CallsBefore, NoFlush
  <1> QED
    BY <1>1, <1>3, <1>4, <1>8, <1>9 DEF HeldFrom, Flushed

(* A flush begins, with nothing submitted.                                 *)
LEMMA HeldFlushEnter ==
  ASSUME OneCallInv, NEW b, HeldFrom(b), FlushEnter, Taken' = Taken
  PROVE  HeldFrom(b)'
  <1>1. /\ Ready("flush") /\ phase' = "entering" /\ submitted' = 0
        /\ program' = program /\ Script' = Script /\ Fails' = Fails
    BY DEF FlushEnter, Script, Fails
  <1>2. /\ next' = next + 1 /\ next \in Nat \ {0} /\ Flushed(next)
        /\ phase = "running"
    BY <1>1, ReadyFacts, HeldTypes DEF OneCallInv, FlushEnter, Flushed
  <1>3. /\ b \in 1 .. next /\ NoFlush(b, next) /\ Taken = CallsBefore(b)
        /\ b = 1 \/ Flushed(b - 1)
    BY <1>2 DEF HeldFrom
  <1>4. next' - 1 = next /\ next' > 1 /\ b \in 1 .. next' /\ b <= next' - 1
    BY <1>2, <1>3
  <1>5. NoFlush(b, next - 1)' /\ CallsBefore(b)' = CallsBefore(b)
    BY <1>1, <1>3, <1>4 DEF NoFlush, Flushed, CallsBefore
  <1>6. Flushed(next - 1)'
    BY <1>1, <1>2, <1>4 DEF Flushed
  <1>7. CallsBefore(b) \in Nat
    BY <1>3, HeldTypes DEF OneCallInv
  <1>8. Taken' = CallsBefore(b)' + submitted'
    BY <1>1, <1>3, <1>5, <1>7
  <1> QED
    BY <1>1, <1>3, <1>4, <1>5, <1>6, <1>8 DEF HeldFrom, Flushed

(* A call publishes: its entry is pending, and the ring does not wrap.     *)
LEMMA HeldPublish ==
  ASSUME OneCallInv, BatchesFit, NEW b \in 1 .. next, HeldFrom(b),
         NEW p \in Producers, Publish(p), UNCHANGED main
  PROVE  Taken' = Taken
  <1>1. /\ Active(p) /\ \A q \in Producers : ~Active(q)'
        /\ sring_tail' = Inc(sring_tail) /\ sring_head' = sring_head
    BY CallEnds
  <1>2. phase = "running" /\ ~Quiescent /\ Quiescent'
    BY <1>1 DEF OneCallInv, CallInv, Quiescent
  <1>3. /\ next \in Nat \ {0} /\ Pending \in Nat
        /\ CallsBefore(next) \in Nat /\ CallsBefore(b) \in Nat
        /\ sring_tail \in Counter /\ sring_head \in Counter
        /\ b \in 1 .. Len(Script) + 1 /\ next \in 1 .. Len(Script) + 1 /\ b <= next
    <2>1. next \in 1 .. Len(Script) + 1 /\ TypeOK
      BY DEF OneCallInv, TypeOK
    <2>2. /\ next \in Nat \ {0} /\ Pending \in Nat /\ Len(Script) \in Nat
          /\ CallsBefore(next) \in Nat /\ CallsBefore(b) \in Nat
          /\ sring_tail \in Counter /\ sring_head \in Counter
      BY <2>1, HeldTypes
    <2> QED
      BY <2>1, <2>2
  <1>4. CallsBefore(next) - CallsBefore(b) <= QUEUE_DEPTH
    BY <1>2, <1>3 DEF BatchesFit, NoFlush, HeldFrom
  <1>5. Taken = (CallsBefore(next) - 1) - Pending /\ Taken = CallsBefore(b)
    BY <1>2 DEF Taken, Published, HeldFrom
  <1>6. Pending + 1 < Wrap
    BY <1>3, <1>4, <1>5, ConstantTypes
  <1>7. Pending' = Pending + 1
    BY <1>1, <1>3, <1>6, SubIncTail DEF Pending
  <1>8. CallsBefore(next)' = CallsBefore(next)
    BY DEF main, CallsBefore, Script
  <1>9. Taken' = (CallsBefore(next) - 0) - Pending'
    BY <1>2, <1>8 DEF Taken, Published
  <1> QED
    BY <1>3, <1>5, <1>7, <1>9

(* The kernel takes an entry: a flush has submitted one more.              *)
LEMMA HeldSubmit ==
  ASSUME OneCallInv, ~SqPoll, Asleep, NEW b, HeldFrom(b), Submit \/ SubmitNop
  PROVE  HeldFrom(b)'
  <1>1. /\ poller = "polling" /\ sring_tail # sring_head
        /\ sring_head' = Inc(sring_head) /\ submitted' = submitted + 1
        /\ UNCHANGED <<sring_tail, next, phase, program>>
    BY DEF Submit, SubmitNop, MayTake, FetchWrite, TakeWrite, FetchNop, TakeNop, RingEmpty
  <1>2. phase = "entering"
    BY <1>1 DEF Asleep
  <1>3. /\ b \in 1 .. next /\ Pending \in Nat /\ Published \in Int /\ submitted \in Nat
        /\ sring_tail \in Counter /\ sring_head \in Counter
        /\ CallsBefore(b) \in Nat
    BY HeldTypes DEF OneCallInv, HeldFrom
  <1>4. Pending' = Pending - 1
    BY <1>1, <1>3, SubIncHead DEF Pending
  <1>5. Published' = Published
    <2>1. Quiescent' <=> Quiescent
      BY OtherSteps DEF KernelSteps
    <2> QED
      BY <1>1, <2>1 DEF Published, CallsBefore, Script
  <1>6. Taken' = Taken + 1
    BY <1>3, <1>4, <1>5 DEF Taken
  <1>7. Taken = CallsBefore(b) + submitted
    BY <1>2 DEF HeldFrom
  <1>8. CallsBefore(b)' = CallsBefore(b)
    BY <1>1 DEF CallsBefore, Script
  <1>9. Taken' = CallsBefore(b)' + submitted'
    BY <1>1, <1>3, <1>6, <1>7, <1>8
  <1> QED
    BY <1>1, <1>2, <1>9 DEF HeldFrom, Flushed, NoFlush, Script, Fails

(* Steps that leave the ring, the calls and main's position alone.         *)
LEMMA HeldRest ==
  ASSUME ReapStore \/ Teardown \/ Exit \/ Complete \/ UNCHANGED vars
  PROVE  /\ UNCHANGED <<program, next, submitted>> /\ Taken' = Taken
         /\ phase' = "entering" <=> phase = "entering"
         /\ Asleep => Asleep'
  <1>1. /\ UNCHANGED <<program, next, submitted, sring_head, sring_tail>>
        /\ phase' = "entering" <=> phase = "entering"
        /\ poller' = poller \/ poller' = "stopped"
    BY DEF ReapStore, Teardown, Exit, Complete, PerformWrite, PutOut, vars,
       ringVars, ring, kernel,
       cq, main
  <1>2. Quiescent' <=> Quiescent
    BY OtherSteps DEF Between, KernelSteps
  <1>3. Taken' = Taken
    BY <1>1, <1>2 DEF Taken, Pending, Published, CallsBefore, Script
  <1> QED
    BY <1>1, <1>3 DEF Asleep

(* A step keeps what a flush has submitted apart from what it has not.     *)
LEMMA HeldStep ==
  ASSUME HeldInv, [Next]_vars
  PROVE  HeldInv'
  <1>0. OneCallInv /\ OneCallInv'
    BY OneCallStep DEF HeldInv
  <1> SUFFICES ASSUME ~SqPoll', BatchesFit'
               PROVE  Asleep' /\ \E b \in 1 .. next' : HeldFrom(b)'
    BY <1>0 DEF HeldInv
  <1>1. program' = program
    BY DEF Next, Main, Terminated, Call, FlushEnter, FlushFails, FlushReturn,
       FlushInterrupted, ReapLoad, ReapStore,
       Teardown, Exit, InPerror, Submit, SubmitNop, MayTake, Complete, Idle, vars, main
  <1>2. ~SqPoll /\ BatchesFit
    BY <1>1 DEF SqPoll, BatchesFit, Flushed, CallsBefore, Script, Fails
  <1>3. Asleep /\ \E b \in 1 .. next : HeldFrom(b)
    BY <1>2 DEF HeldInv
  <1>4. PICK b \in 1 .. next : HeldFrom(b)
    BY <1>3
  <1>5. SUFFICES Asleep' /\ (HeldFrom(b)' \/ HeldFrom(next)')
    BY <1>0 DEF HeldFrom, OneCallInv
  <1>6. CASE Call
    <2>1. /\ Ready("call") /\ ~Quiescent' /\ phase = "running" /\ phase' = "running"
          /\ UNCHANGED <<sring_head, sring_tail, poller>>
      BY <1>0, <1>6, CallStarts DEF Quiescent, ring, kernel, Call
    <2>2. Taken' = Taken
      BY <1>0, <1>1, <2>1, NextCallTaken
    <2>3. HeldFrom(b)'
      BY <1>0, <1>1, <1>4, <2>1, <2>2, HeldNextCall DEF Flushed, Ready
    <2> QED
      BY <1>3, <2>1, <2>3 DEF Asleep
  <1>7. CASE ReapLoad
    <2>1. /\ Ready("reap") /\ phase = "running" /\ phase' = "reaping"
          /\ UNCHANGED <<sring_head, sring_tail, poller>>
          /\ Quiescent'
      BY <1>7, OtherSteps DEF ReapLoad, Ready, ringVars, ring, kernel, Between
    <2>2. Taken' = Taken
      BY <1>0, <1>1, <2>1, NextCallTaken
    <2>3. HeldFrom(b)'
      BY <1>0, <1>1, <1>4, <2>1, <2>2, HeldNextCall DEF Flushed, Ready
    <2> QED
      BY <1>3, <2>1, <2>3 DEF Asleep
  <1>8. CASE FlushEnter
    <2>1. /\ Ready("flush") /\ phase' = "entering"
          /\ UNCHANGED <<sring_head, sring_tail>>
          /\ Quiescent'
      BY <1>8, OtherSteps DEF FlushEnter, Ready, ring, Between
    <2>2. Taken' = Taken
      BY <1>0, <1>1, <2>1, NextCallTaken
    <2> QED
      BY <1>0, <1>4, <1>8, <2>1, <2>2, HeldFlushEnter DEF Asleep
  <1>9. CASE FlushFails
    <2>1. /\ Ready("flush") /\ next \in Fails /\ phase = "running" /\ phase' = "running"
          /\ UNCHANGED <<sring_head, sring_tail, poller>>
          /\ Quiescent'
      BY <1>2, <1>9, OtherSteps DEF FlushFails, Ready, ring, Between
    <2>2. Taken' = Taken
      BY <1>0, <1>1, <2>1, NextCallTaken
    <2>3. HeldFrom(b)'
      BY <1>0, <1>1, <1>4, <2>1, <2>2, HeldNextCall DEF Flushed
    <2> QED
      BY <1>3, <2>1, <2>3 DEF Asleep
  <1>10. CASE FlushReturn \/ FlushInterrupted
    <2>1. /\ UNCHANGED <<sring_head, sring_tail, next>> /\ poller' = "asleep"
      BY <1>2, <1>10 DEF FlushReturn, FlushInterrupted, ring
    <2>2. Quiescent' <=> Quiescent
      BY <1>10, OtherSteps DEF Between
    <2>3. Taken' = Taken
      BY <1>1, <2>1, <2>2 DEF Taken, Pending, Published, CallsBefore, Script
    <2> QED
      BY <1>0, <1>2, <1>4, <1>10, <2>1, <2>3, HeldFlushReturn DEF Asleep
  <1>11. ASSUME NEW p \in Producers, Writes(p), UNCHANGED main
         PROVE  Asleep' /\ HeldFrom(b)'
    <2>1. /\ UNCHANGED <<sring_head, sring_tail, poller, program, next, phase, submitted>>
          /\ ~Quiescent /\ ~Quiescent'
      BY <1>0, <1>11, CallGoesOn DEF Quiescent, kernel, main
    <2>2. Taken' = Taken
      BY <2>1 DEF Taken, Pending, Published, CallsBefore, Script
    <2> QED
      BY <1>3, <1>4, <2>1, <2>2, HeldStays DEF Asleep
  <1>12. ASSUME NEW p \in Producers, Publish(p), UNCHANGED main
         PROVE  Asleep' /\ HeldFrom(b)'
    <2>1. UNCHANGED <<poller, program, next, phase, submitted>>
      BY <1>0, <1>12, CallEnds DEF kernel, main
    <2>2. Taken' = Taken
      BY <1>0, <1>2, <1>4, <1>12, HeldPublish
    <2> QED
      BY <1>3, <1>4, <2>1, <2>2, HeldStays DEF Asleep
  <1>13. CASE Submit \/ SubmitNop
    <2>1. UNCHANGED <<poller, phase>>
      BY <1>13 DEF Submit, SubmitNop, FetchWrite, TakeWrite, FetchNop, TakeNop, kernel
    <2> QED
      BY <1>0, <1>2, <1>3, <1>4, <1>13, <2>1, HeldSubmit DEF Asleep
  <1>14. CASE ReapStore \/ Teardown \/ Exit \/ Complete \/ UNCHANGED vars
    BY <1>0, <1>2, <1>3, <1>4, <1>14, HeldRest, HeldStays
  <1> QED
    BY <1>2, <1>6, <1>7, <1>8, <1>9, <1>10, <1>11, <1>12, <1>13, <1>14
       DEF Next, Main, Terminated, InPerror, Perror, Writes, Idle

(* Initially nothing is called and nothing taken.                          *)
LEMMA InitHeld == Init => HeldInv
  <1> SUFFICES ASSUME Init PROVE HeldInv
    OBVIOUS
  <1>1. OneCallInv /\ TypeOK
    BY InitOneCall, InitTypes
  <1>2. /\ next = 1 /\ phase = "running" /\ sring_tail = 0 /\ sring_head = 0
        /\ poller = IF SqPoll THEN "polling" ELSE "asleep"
        /\ Quiescent
    BY DEF Init, RingInit, Quiescent, Active
  <1>3. CallsBefore(1) = 0
    <2>1. {i \in 1 .. 1 - 1 : Script[i].op = "call"} = {}
      OBVIOUS
    <2> QED
      BY <2>1, FS_EmptySet DEF CallsBefore
  <1>4. Taken = 0
    <2>1. Pending = 0
      BY <1>1, <1>2, SubZero, HeldTypes DEF Pending
    <2> QED
      BY <1>2, <1>3, <2>1 DEF Taken, Published
  <1>5. HeldFrom(1)
    BY <1>2, <1>3, <1>4 DEF HeldFrom, NoFlush
  <1> QED
    BY <1>1, <1>2, <1>5 DEF HeldInv, Asleep

(* Between two flushes that succeed the kernel takes nothing, and such a   *)
(* flush takes it all, what failed flushes have left behind included.      *)
THEOREM HeldCorrect == Spec => []HeldUntilFlush
  <1>1. HeldInv => HeldUntilFlush
    <2> SUFFICES ASSUME HeldInv, ~SqPoll, BatchesFit, phase # "entering"
                 PROVE  \/ Flushes = {} /\ Taken = 0
                        \/ \E f \in Flushes :
                             (\A g \in Flushes : g <= f) /\ Taken = CallsBefore(f)
      BY DEF HeldUntilFlush
    <2>1. PICK b \in 1 .. next : HeldFrom(b)
      BY DEF HeldInv
    <2>2. /\ NoFlush(b, next) /\ Taken = CallsBefore(b) /\ next \in Nat \ {0}
          /\ b \in Nat \ {0} /\ b <= next
          /\ b = 1 \/ Flushed(b - 1)
      BY <2>1, HeldTypes DEF HeldFrom, HeldInv, OneCallInv
    <2>3. \A g \in Flushes : g \in Nat /\ g < b
      BY <2>2 DEF Flushes, NoFlush
    <2>4. CASE b = 1
      <3>1. Flushes = {}
        BY <2>3, <2>4 DEF Flushes
      <3>2. {i \in 1 .. 1 - 1 : Script[i].op = "call"} = {}
        OBVIOUS
      <3>3. Taken = 0
        BY <2>2, <2>4, <3>2, FS_EmptySet DEF CallsBefore
      <3> QED
        BY <3>1, <3>3
    <2>5. CASE b # 1
      <3>1. b - 1 \in Flushes /\ b - 1 \in Nat \ {0} /\ (b - 1) + 1 = b
        BY <2>2, <2>5 DEF Flushes
      <3>2. CallsBefore(b) = CallsBefore(b - 1)
        BY <2>2, <2>5, <3>1, CallsCount DEF Flushed
      <3>3. \A g \in Flushes : g <= b - 1
        BY <2>2, <2>3
      <3> QED
        BY <2>2, <3>1, <3>2, <3>3
    <2> QED
      BY <2>4, <2>5
  <1> QED
    BY InitHeld, HeldStep, <1>1, PTL DEF Spec

-----------------------------------------------------------------------------
(* A program in rounds implements the asynchronous printer.                *)

\* What is handed over and not printed yet.
Waiting ==
  (IF RingEmpty THEN {} ELSE {sqes[NextSqe]}) \union {r.msg : r \in inflight}

\* A call in progress prints the message that main gave it.
ArgumentInv == \A p \in Producers : Active(p) => msg[p] = Script[next - 1].msg

PrintInv ==
  /\ RoundInv
  /\ ArgumentInv
  /\ OwnRounds =>
       \A m \in Msgs : lines[m] = IF m \in Handed \ Waiting THEN 1 ELSE 0

(* A program stays what it is.                                             *)
LEMMA OwnRoundsStays ==
  ASSUME program' = program
  PROVE  OwnRounds' <=> OwnRounds
  BY InRoundsStays DEF OwnRounds, Script

(* Only a call adds to the messages that main has handed over.             *)
LEMMA HandedGrows ==
  ASSUME NEW n \in Nat \ {0}
  PROVE  /\ Script[n].op = "call" =>
              CalledBefore(n + 1) = CalledBefore(n) \union {Script[n].msg}
         /\ Script[n].op # "call" => CalledBefore(n + 1) = CalledBefore(n)
  BY DEF CalledBefore

(* Each message is handed over by one call.                                *)
LEMMA HandedOnce ==
  ASSUME OwnRounds, NEW n \in 1 .. Len(Script), Script[n].op = "call", TypeOK
  PROVE  Script[n].msg \notin CalledBefore(n) /\ Script[n].msg \in Msgs
  <1>1. Len(Script) \in Nat /\ Script[n].msg \in Msgs
    BY ProgramTypes DEF TypeOK, Script
  <1>2. \A i \in 1 .. n - 1 : i \in 1 .. Len(Script) /\ i # n
    BY <1>1
  <1> QED
    BY <1>1, <1>2 DEF OwnRounds, CalledBefore

(* The call in progress is given its message.                              *)
LEMMA ArgumentStep ==
  ASSUME OneCallInv, ArgumentInv, [Next]_vars
  PROVE  ArgumentInv'
  <1>1. TypeOK /\ msg \in [Producers -> Msgs \union {Zero}]
    BY DEF OneCallInv, TypeOK, RingTypeOK
  <1>2. CASE Call
    <2> DEFINE c == Script[next].by
    <2>1. /\ c \in Producers /\ \A q \in Producers : Active(q)' <=> q = c
          /\ msg' = [msg EXCEPT ![c] = Script[next].msg]
          /\ next \in Nat /\ next' = next + 1 /\ Script' = Script
      BY <1>2, CallStarts DEF Call, Reserve, Script
    <2> HIDE DEF c
    <2>2. msg'[c] = Script[next].msg /\ next' - 1 = next
      BY <1>1, <2>1
    <2> QED
      BY <2>1, <2>2 DEF ArgumentInv
  <1>3. ASSUME NEW p \in Producers, Writes(p), UNCHANGED <<cq, main>>
        PROVE  ArgumentInv'
    <2>1. UNCHANGED <<msg, next, program>> /\ \A q \in Producers : Active(q)' => Active(q)
      BY <1>3, CallGoesOn DEF Active, main
    <2> QED
      BY <2>1 DEF ArgumentInv, Script
  <1>4. ASSUME NEW p \in Producers, Publish(p)
        PROVE  ArgumentInv'
    BY <1>4, CallEnds DEF ArgumentInv
  <1>5. CASE Between \/ KernelSteps \/ UNCHANGED vars
    <2>1. CASE Quiescent
      BY <1>5, <2>1, OtherSteps DEF ArgumentInv, Quiescent
    <2>2. CASE ~Quiescent
      <3>1. phase = "running" /\ ~Quiescent
        BY <2>2 DEF OneCallInv, CallInv, Quiescent
      <3>2. UNCHANGED next
        BY <1>5, <3>1 DEF Between, FlushEnter, FlushFails, FlushReturn,
           FlushInterrupted, ReapLoad, ReapStore,
           Teardown, Exit, Ready, KernelSteps, Submit, SubmitNop, MayTake,
              Complete, Idle, main, vars
      <3> QED
        BY <1>5, <3>2, OtherSteps DEF ArgumentInv, Script
    <2> QED
      BY <2>1, <2>2
  <1> QED
    BY <1>2, <1>3, <1>4, <1>5
       DEF Next, Main, Terminated, InPerror, Perror, Writes, Between, KernelSteps

(* Between its calls main changes neither what is handed over nor what is  *)
(* printed; when it frees the pool, everything is.                         *)
LEMMA PrintMainStep ==
  ASSUME RoundInv, SureRounds, Between \/ Idle \/ UNCHANGED vars
  PROVE  /\ Handed' = Handed /\ Waiting' = Waiting /\ lines' = lines
         /\ Teardown => Waiting = {}
  <1>1. TypeOK /\ OneCallInv /\ Round
    BY DEF RoundInv, OneCallInv
  <1>2. /\ UNCHANGED <<sring_tail, sring_array, sqes, program>> /\ Script' = Script
        /\ Quiescent' <=> Quiescent
    BY OtherSteps DEF KernelSteps, Script
  <1>3. UNCHANGED <<lines, sring_head>>
    BY DEF Between, FlushEnter, FlushFails, FlushReturn, FlushInterrupted,
       ReapLoad, ReapStore, Teardown, Exit, Idle,
       PollerIdles, vars, ringVars, ring, kernel
  <1>4. Handed' = Handed
    <2>1. CASE FlushEnter \/ FlushFails \/ ReapLoad
      <3>1. /\ Quiescent /\ next \in Nat \ {0} /\ next' = next + 1
            /\ Script[next].op # "call"
        BY <1>1, <2>1, ReadyFacts DEF FlushEnter, FlushFails, ReapLoad
      <3>2. CalledBefore(next + 1) = CalledBefore(next)
        BY <3>1, HandedGrows
      <3> QED
        BY <1>2, <3>1, <3>2 DEF Handed, CalledBefore
    <2>2. CASE ~(FlushEnter \/ FlushFails \/ ReapLoad)
      <3>1. next' = next
        BY <2>2 DEF Between, FlushReturn, FlushInterrupted, ReapStore,
           Teardown, Exit, Idle, vars, main
      <3> QED
        BY <1>2, <3>1 DEF Handed, CalledBefore
    <2> QED
      BY <2>1, <2>2
  <1>5. Teardown => AtRest
    <2> SUFFICES ASSUME Teardown PROVE AtRest
      OBVIOUS
    <2>1. phase = "running" /\ (next = 1 \/ Last("reap"))
      BY <1>1, RoundEnd DEF Teardown, SureRounds
    <2> QED
      BY <1>1, <2>1, Different DEF Round
  <1>6. inflight' = inflight
    <2>1. CASE Exit
      BY <1>1, <2>1 DEF Exit, Round, AtRest
    <2>2. CASE ~Exit
      BY <2>2 DEF Between, FlushEnter, FlushFails, FlushReturn,
         FlushInterrupted, ReapLoad, ReapStore, Teardown, Idle,
         PollerIdles, vars, ringVars, kernel
    <2> QED
      BY <2>1, <2>2
  <1>7. Waiting' = Waiting
    BY <1>2, <1>3, <1>6 DEF Waiting, RingEmpty, NextSqe
  <1>8. AtRest => Waiting = {}
    BY DEF AtRest, Waiting
  <1> QED
    BY <1>3, <1>4, <1>5, <1>7, <1>8

(* A call on its way to publish hands nothing over.                        *)
LEMMA PrintCallStep ==
  ASSUME RoundInv, SureRounds,
         \/ Call
         \/ \E p \in Producers : Writes(p) /\ UNCHANGED <<cq, main>>
  PROVE  Handed' = Handed /\ Waiting' = Waiting /\ lines' = lines /\ phase' = phase
  <1>1. TypeOK /\ OneCallInv /\ Round
    BY DEF RoundInv, OneCallInv
  <1>2. CASE Call
    <2>1. /\ Quiescent /\ ~Quiescent' /\ next \in Nat /\ next' = next + 1 /\ Script' = Script
          /\ UNCHANGED <<ring, kernel, phase>>
      BY <1>1, <1>2, CallStarts DEF Quiescent, Script
    <2>2. next' - 1 = next
      BY <2>1
    <2>3. Handed' = Handed
      BY <2>1, <2>2 DEF Handed, CalledBefore
    <2> QED
      BY <2>1, <2>3 DEF Waiting, RingEmpty, NextSqe, ring, kernel
  <1>3. ASSUME NEW p \in Producers, Writes(p), UNCHANGED <<cq, main>>
        PROVE  Handed' = Handed /\ Waiting' = Waiting /\ lines' = lines /\ phase' = phase
    <2>1. /\ ~Quiescent /\ ~Quiescent' /\ Script' = Script
          /\ UNCHANGED <<sring_head, sring_tail, inflight, lines, next, phase>>
      BY <1>1, <1>3, CallGoesOn DEF Quiescent, kernel, main, Script
    <2>2. phase = "running" /\ Last("call")
      BY <1>1, <2>1 DEF OneCallInv, CallInv, Quiescent, Last
    <2>3. AtRest
      BY <1>1, <2>1, <2>2, Different DEF Round
    <2>4. Waiting = {} /\ Waiting' = {}
      BY <2>1, <2>3 DEF Waiting, AtRest, RingEmpty
    <2>5. Handed' = Handed
      BY <2>1 DEF Handed, CalledBefore
    <2> QED
      BY <2>1, <2>4, <2>5
  <1> QED
    BY <1>2, <1>3

(* Publishing hands the message over.                                      *)
LEMMA PrintPublishStep ==
  ASSUME RoundInv, ArgumentInv, OwnRounds, NEW p \in Producers, Publish(p),
         UNCHANGED <<cq, main>>
  PROVE  /\ msg[p] \in Msgs \ Handed /\ phase = "running" /\ phase' = phase
         /\ Handed' = Handed \union {msg[p]}
         /\ Waiting = {} /\ Waiting' = {msg[p]} /\ lines' = lines
  <1>1. /\ TypeOK /\ OneCallInv /\ Round /\ StageInv /\ SureRounds
        /\ sring_head \in Counter
    BY DEF RoundInv, OneCallInv, OwnRounds, TypeOK, RingTypeOK
  <1>2. /\ Active(p) /\ pc[p] = "publish" /\ \A q \in Producers : ~Active(q)'
        /\ tail[p] = sring_tail /\ sring_tail' = Inc(sring_tail)
        /\ UNCHANGED <<sring_head, sring_array, sqes, msg_pool, kernel, tail, msg>>
    BY <1>1, CallEnds
  <1>3. /\ phase = "running" /\ Last("call") /\ ~Quiescent /\ Quiescent'
        /\ msg[p] = Script[next - 1].msg
    BY <1>1, <1>2 DEF OneCallInv, CallInv, Last, Quiescent, ArgumentInv
  <1>4. AtRest
    BY <1>1, <1>3, Different DEF Round
  <1>5. next - 1 \in 1 .. Len(Script) /\ next - 1 \in Nat \ {0} /\ (next - 1) + 1 = next
        /\ Script[next - 1].op = "call"
    BY <1>1, <1>3, ProgramTypes DEF Last, TypeOK, Script
  <1>6. msg[p] \in Msgs /\ msg[p] \notin CalledBefore(next - 1)
    BY <1>1, <1>3, <1>5, HandedOnce
  <1>7. Handed = CalledBefore(next - 1)
    BY <1>3 DEF Handed
  <1>8. CalledBefore(next) = CalledBefore(next - 1) \union {msg[p]}
    BY <1>3, <1>5, HandedGrows
  <1>9. Handed' = CalledBefore(next)
    BY <1>3 DEF Handed, CalledBefore, Script, main
  <1>10. Waiting = {}
    BY <1>4 DEF AtRest, Waiting
  <1>11. Waiting' = {msg[p]}
    <2>1. ~RingEmpty'
      BY <1>1, <1>2, <1>4, Different DEF AtRest, RingEmpty
    <2>2. Slot(sring_head) = Idx(p)
      BY <1>2, <1>4 DEF Idx, AtRest, RingEmpty
    <2>3. sring_array[Idx(p)] = Idx(p) /\ sqes[Idx(p)] = msg[p]
      BY <1>1, <1>2 DEF StageInv
    <2>4. NextSqe' = Idx(p)
      BY <1>2, <2>2, <2>3 DEF NextSqe
    <2>5. inflight' = {}
      BY <1>2, <1>4 DEF AtRest, kernel
    <2> QED
      BY <1>2, <2>1, <2>3, <2>4, <2>5 DEF Waiting
  <1> QED
    BY <1>2, <1>3, <1>6, <1>7, <1>8, <1>9, <1>10, <1>11 DEF main, kernel

(* The kernel takes the entry: it waits on.                                *)
LEMMA PrintSubmitStep ==
  ASSUME RoundInv, SureRounds, Submit \/ SubmitNop
  PROVE  Handed' = Handed /\ Waiting' = Waiting /\ lines' = lines /\ phase' = phase
  <1>1. TypeOK /\ OneCallInv /\ Round
    BY DEF RoundInv, OneCallInv
  <1>2. ~RingEmpty
    BY DEF Submit, FetchWrite, TakeWrite, SubmitNop, FetchNop, TakeNop
  <1>3. /\ UNCHANGED <<sring_tail, sring_array, sqes, program>> /\ Script' = Script
        /\ Quiescent' <=> Quiescent
    BY OtherSteps DEF KernelSteps, Script
  <1>4. Queued
    <2>1. ~AtRest /\ ~Posted /\ ~UnderWay
      BY <1>2 DEF AtRest, Posted, UnderWay
    <2> QED
      BY <1>1, <2>1 DEF Round, Out
  <1>5. sqes[NextSqe] \in Msgs
    BY <1>4 DEF Queued, NextSqe
  <1>6. ~SubmitNop
    BY <1>5, RingAssumption DEF SubmitNop, FetchNop, TakeNop
  <1>7. /\ sring_head' = Inc(sring_head) /\ UNCHANGED <<lines, phase, next>>
         /\ inflight' = inflight \union
              {[seq |-> sring_head, slot |-> NextSqe, msg |-> sqes[NextSqe]]}
    <2> DEFINE e == sqes[NextSqe]
    <2>1. /\ sring_head' = Inc(sring_head) /\ UNCHANGED <<lines, phase, next>>
          /\ \E m \in Asked(NextSqe, e) :
               inflight' = inflight \union {[seq |-> sring_head, slot |-> NextSqe, msg |-> m]}
      BY <1>6 DEF Submit, FetchWrite, TakeWrite
    <2>2. Asked(NextSqe, e) = {e}
      BY <1>5, AskedMsg
    <2> QED
      BY <2>1, <2>2
  <1>8. RingEmpty' /\ inflight = {}
    BY <1>3, <1>4, <1>7 DEF Queued, RingEmpty
  <1>9. Waiting = {sqes[NextSqe]} /\ Waiting' = {sqes[NextSqe]}
    BY <1>2, <1>8, <1>7 DEF Waiting
  <1>10. Handed' = Handed
    BY <1>3, <1>7 DEF Handed, CalledBefore
  <1> QED
    BY <1>9, <1>10, <1>7

(* The write that waits is performed.                                      *)
LEMMA PrintCompleteStep ==
  ASSUME RoundInv, SureRounds, Complete
  PROVE  \E m \in Msgs :
           /\ Waiting = {m} /\ Waiting' = {} /\ Handed' = Handed
           /\ phase \in {"running", "entering"} /\ phase' = phase
           /\ lines' = [lines EXCEPT ![m] = IF @ < 2 THEN @ + 1 ELSE 2]
  <1>1. TypeOK /\ OneCallInv /\ Round
    BY DEF RoundInv, OneCallInv
  <1>2. PICK r \in inflight :
          /\ inflight' = inflight \ {r}
          /\ lines' = [lines EXCEPT ![Text(r)] = IF @ < 2 THEN @ + 1 ELSE 2]
    BY DEF Complete, PerformWrite, PutOut
  <1>3. /\ UNCHANGED <<sring_head, phase, next>>
        /\ UNCHANGED <<sring_tail, sring_array, sqes, program>> /\ Script' = Script
        /\ Quiescent' <=> Quiescent
    BY OtherSteps DEF KernelSteps, Script, Complete, PerformWrite, PutOut, ring, main
  <1>4. UnderWay /\ phase \in {"running", "entering"}
    <2>1. ~AtRest /\ ~Posted /\ ~Queued
      BY <1>2 DEF AtRest, Posted, Queued
    <2> QED
      BY <1>1, <2>1 DEF Round, Out
  <1>5. inflight = {r} /\ msg_pool[r.slot] = r.msg /\ r.msg \in Msgs /\ RingEmpty
    BY <1>2, <1>4 DEF UnderWay
  <1>6. Text(r) = r.msg
    BY <1>5 DEF Text
  <1>7. Waiting = {r.msg} /\ Waiting' = {}
    BY <1>2, <1>3, <1>5 DEF Waiting, RingEmpty
  <1>8. Handed' = Handed
    BY <1>3 DEF Handed, CalledBefore
  <1> QED
    BY <1>2, <1>3, <1>4, <1>5, <1>6, <1>7, <1>8

Freed == phase \in {"freed", "exited"}

\* What a step does for the printer.
Stutters == Handed' = Handed /\ Waiting' = Waiting /\ lines' = lines /\ (Freed' <=> Freed)

Posts(m) ==
  /\ m \notin Handed /\ Handed' = Handed \union {m}
  /\ Waiting = {} /\ Waiting' = {m} /\ lines' = lines /\ ~Freed /\ ~Freed'

Shows(m) ==
  /\ Waiting = {m} /\ Waiting' = {} /\ Handed' = Handed /\ ~Freed /\ ~Freed'
  /\ lines' = [lines EXCEPT ![m] = IF @ < 2 THEN @ + 1 ELSE 2]

Closes ==
  Waiting = {} /\ Handed' = Handed /\ Waiting' = Waiting /\ lines' = lines /\ ~Freed /\ Freed'

(* Every step of a program in rounds does one of these.                    *)
LEMMA PrintCases ==
  ASSUME PrintInv, OwnRounds, [Next]_vars
  PROVE  Stutters \/ Closes \/ \E m \in Msgs : Posts(m) \/ Shows(m)
  <1>1. RoundInv /\ ArgumentInv /\ SureRounds
    BY DEF PrintInv, OwnRounds
  <1>2. CASE Call
    BY <1>1, <1>2, PrintCallStep DEF Stutters, Freed
  <1>3. ASSUME NEW p \in Producers, Writes(p), UNCHANGED <<cq, main>>
        PROVE  Stutters
    BY <1>1, <1>3, PrintCallStep DEF Stutters, Freed
  <1>4. ASSUME NEW p \in Producers, Publish(p), UNCHANGED <<cq, main>>
        PROVE  \E m \in Msgs : Posts(m)
    BY <1>1, <1>4, PrintPublishStep DEF Posts, Freed
  <1>5. CASE Teardown
    <2>1. phase = "running" /\ phase' = "freed"
      BY <1>5 DEF Teardown
    <2> QED
      BY <1>1, <1>5, <2>1, PrintMainStep DEF Closes, Freed, Between
  <1>6. CASE (Between \/ Idle \/ UNCHANGED vars) /\ ~Teardown
    <2>1. Freed' <=> Freed
      BY <1>6 DEF Between, FlushEnter, FlushFails, FlushReturn,
         FlushInterrupted, ReapLoad, ReapStore, Exit, Ready, Idle,
         vars, main, Freed
    <2> QED
      BY <1>1, <1>6, <2>1, PrintMainStep DEF Stutters
  <1>7. CASE Submit \/ SubmitNop
    BY <1>1, <1>7, PrintSubmitStep DEF Stutters, Freed
  <1>8. CASE Complete
    <2>1. PICK m \in Msgs :
            /\ Waiting = {m} /\ Waiting' = {} /\ Handed' = Handed
            /\ phase \in {"running", "entering"} /\ phase' = phase
            /\ lines' = [lines EXCEPT ![m] = IF @ < 2 THEN @ + 1 ELSE 2]
      BY <1>1, <1>8, PrintCompleteStep
    <2>2. Shows(m)
      BY <2>1 DEF Shows, Freed
    <2> QED
      BY <2>2
  <1> QED
    BY <1>2, <1>3, <1>4, <1>5, <1>6, <1>7, <1>8
       DEF Next, Main, Terminated, InPerror, Perror, Writes, Between

\* What waits has been handed over, and nothing waits once the pool is freed.
WaitingInv == OwnRounds => Waiting \subseteq Handed

(* The counts of the lines stay right.                                     *)
LEMMA PrintStep ==
  ASSUME PrintInv, WaitingInv, [Next]_vars
  PROVE  PrintInv' /\ WaitingInv'
  <1>1. RoundInv' /\ ArgumentInv'
    BY RoundStep, ArgumentStep DEF PrintInv, RoundInv
  <1>2. OwnRounds' <=> OwnRounds
    <2>1. program' = program
      BY DEF Next, Main, Call, FlushEnter, FlushFails, FlushReturn,
         FlushInterrupted, ReapLoad, ReapStore, Teardown, Exit,
         InPerror, Submit, SubmitNop, MayTake, Complete, Idle, Terminated, main, vars
    <2> QED
      BY <2>1, OwnRoundsStays
  <1>3. SUFFICES ASSUME OwnRounds
                 PROVE  /\ \A x \in Msgs :
                             lines'[x] = IF x \in Handed' \ Waiting' THEN 1 ELSE 0
                        /\ Waiting' \subseteq Handed'
    BY <1>1, <1>2 DEF PrintInv, WaitingInv
  <1>4. /\ \A x \in Msgs : lines[x] = IF x \in Handed \ Waiting THEN 1 ELSE 0
        /\ Waiting \subseteq Handed
        /\ lines \in [Texts -> 0 .. 2] /\ Msgs \subseteq Texts
    BY <1>3 DEF PrintInv, WaitingInv, RoundInv, OneCallInv, TypeOK, RingTypeOK, Texts
  <1>5. CASE Stutters
    BY <1>4, <1>5 DEF Stutters
  <1>6. CASE Closes
    BY <1>4, <1>6 DEF Closes
  <1>7. ASSUME NEW m \in Msgs, Posts(m)
        PROVE  /\ \A x \in Msgs : lines'[x] = IF x \in Handed' \ Waiting' THEN 1 ELSE 0
               /\ Waiting' \subseteq Handed'
    BY <1>4, <1>7 DEF Posts
  <1>8. ASSUME NEW m \in Msgs, Shows(m)
        PROVE  /\ \A x \in Msgs : lines'[x] = IF x \in Handed' \ Waiting' THEN 1 ELSE 0
               /\ Waiting' \subseteq Handed'
    <2>1. lines[m] = 0 /\ m \in Handed
      BY <1>4, <1>8 DEF Shows
    <2>2. lines'[m] = 1 /\ \A x \in Msgs : x # m => lines'[x] = lines[x]
      BY <1>4, <1>8, <2>1 DEF Shows
    <2> QED
      BY <1>4, <1>8, <2>1, <2>2 DEF Shows
  <1> QED
    BY <1>3, <1>5, <1>6, <1>7, <1>8, PrintCases

(* Initially nothing is handed over and nothing printed.                   *)
LEMMA InitPrints == Init => PrintInv /\ WaitingInv /\ Contract!Init
  <1> SUFFICES ASSUME Init PROVE PrintInv /\ WaitingInv /\ Contract!Init
    OBVIOUS
  <1>1. RoundInv /\ ArgumentInv
    BY InitOneCall, InitStage
       DEF Init, RingInit, RoundInv, Round, AtRest, RingEmpty, Texts, ArgumentInv, Active
  <1>2. /\ next = 1 /\ phase = "running" /\ Quiescent /\ lines = [x \in Texts |-> 0]
        /\ Waiting = {}
    BY DEF Init, RingInit, Quiescent, Active, Waiting, RingEmpty
  <1>3. Handed = {}
    BY <1>2 DEF Handed, CalledBefore
  <1>4. Contract!Init
    BY <1>2, <1>3 DEF Contract!Init
  <1>5. PrintInv /\ WaitingInv
    BY <1>1, <1>2, <1>3 DEF PrintInv, WaitingInv, Texts
  <1> QED
    BY <1>4, <1>5

(* Each of the four is a step of the printer or a stutter.                 *)
LEMMA PrinterStep ==
  ASSUME PrintInv, WaitingInv, [Next]_vars
  PROVE  [Contract!Next]_(Contract!vars)
  <1>1. OwnRounds' <=> OwnRounds
    <2>1. program' = program
      BY DEF Next, Main, Call, FlushEnter, FlushFails, FlushReturn,
         FlushInterrupted, ReapLoad, ReapStore, Teardown, Exit,
         InPerror, Submit, SubmitNop, MayTake, Complete, Idle, Terminated, main, vars
    <2> QED
      BY <2>1, OwnRoundsStays
  <1>2. CASE ~OwnRounds
    BY <1>1, <1>2 DEF Contract!vars
  <1>3. CASE OwnRounds
    <2>1. \A x \in Msgs : lines[x] = IF x \in Handed \ Waiting THEN 1 ELSE 0
      BY <1>3 DEF PrintInv
    <2>2. Waiting \subseteq Handed /\ OwnRounds /\ OwnRounds'
      BY <1>1, <1>3 DEF WaitingInv
    <2>3. CASE Stutters
      BY <2>2, <2>3 DEF Contract!vars, Stutters, Freed
    <2>4. CASE Closes
      <3>1. \A x \in Handed : lines[x] = 1
        <4>1. Handed \subseteq Msgs
          <5>1. program \in Program /\ next \in 1 .. Len(Script) + 1
            BY DEF PrintInv, RoundInv, OneCallInv, TypeOK
          <5>2. \A n \in {next, next - 1} : 1 .. n - 1 \subseteq 1 .. Len(Script)
            BY <5>1, ProgramTypes DEF Script
          <5> QED
            BY <5>1, <5>2, ProgramTypes DEF Handed, CalledBefore, Script
        <4> QED
          BY <2>1, <2>4, <4>1 DEF Closes
      <3> QED
        BY <2>2, <2>4, <3>1 DEF Contract!Next, Contract!Close, Closes, Freed
    <2>5. ASSUME NEW m \in Msgs, Posts(m)
          PROVE  Contract!Post(m)
      BY <2>2, <2>5 DEF Contract!Post, Posts, Freed
    <2>6. ASSUME NEW m \in Msgs, Shows(m)
          PROVE  Contract!Show(m)
      <3>1. m \in Handed /\ lines[m] = 0
        BY <2>1, <2>2, <2>6 DEF Shows
      <3>2. lines' = [lines EXCEPT ![m] = 1]
        BY <2>6, <3>1 DEF Shows
      <3> QED
        BY <2>2, <2>6, <3>1, <3>2 DEF Contract!Show, Shows, Freed
    <2> QED
      BY <1>3, <2>3, <2>4, <2>5, <2>6, PrintCases DEF Contract!Next
  <1> QED
    BY <1>2, <1>3

(* Any number of rounds, each with a message of its own, implements the    *)
(* asynchronous printer: every message is printed whole, once and before   *)
(* the pool is freed.                                                      *)
THEOREM PrintsCorrect == Spec => Prints
  <1>1. PrintInv /\ WaitingInv /\ [Next]_vars =>
          PrintInv' /\ WaitingInv' /\ [Contract!Next]_(Contract!vars)
    BY PrintStep, PrinterStep
  <1> QED
    BY <1>1, InitPrints, PTL DEF Spec, Prints, Contract!SafeSpec

=============================================================================
