------------------------------ MODULE CpuMtDemo ------------------------------
(***************************************************************************)
(* application/experiments/io_uring_cpu_mt: threads that each print one    *)
(* message, concurrently, a detached waker thread, and a main that joins   *)
(* the threads, tears down and returns.                                    *)
(*                                                                         *)
(* Its uring_perror is that of UringRing without the wait for room         *)
(* (WaitForRoom = FALSE).  Producers are the threads, and a thread's       *)
(* message is named after the thread.                                      *)
(*                                                                         *)
(* Any thread's store of the tail may publish the entries of threads that  *)
(* are not ready.  It releases the storing thread's own stores only: of    *)
(* the plain stores of a thread that has not stored the tail yet, the      *)
(* kernel may see any and miss any.  Once it has, they are all seen, for   *)
(* its own store of the tail comes after them.                             *)
(***************************************************************************)
EXTENDS UringRing, FiniteSets

ASSUME ThreadsAssumption ==
  /\ Producers = Msgs
  /\ IsFiniteSet(Producers)
  /\ ~WaitForRoom

VARIABLES
  called,     \* the threads that have entered uring_perror
  phase,      \* main's progress: running, freed, exited
  overtaken   \* history: a tail store came before that of a lower ticket

main == <<called, phase, overtaken>>
vars == <<ringVars, main>>

Init ==
  /\ RingInit
  /\ poller = "polling"
  /\ called = {}
  /\ phase = "running"
  /\ overtaken = FALSE

\* Faulty: a reservation that reads the ring's tail instead of its own counter.
Call_SharedTail(t) ==
  /\ t \notin called
  /\ Step(t, "idle", "room")
  /\ tail' = [tail EXCEPT ![t] = sring_tail]
  /\ msg' = [msg EXCEPT ![t] = t]
  /\ called' = called \union {t}
  /\ UNCHANGED <<ring, msg_pool, kernel, sq_tail_cache, phase, overtaken>>

\* thread_func, after its random sleep.
Call(t) ==
  /\ t \notin called
  /\ Reserve(t, t)
  /\ called' = called \union {t}
  /\ UNCHANGED <<phase, overtaken>>

\* Thread t stores the tail although a lower ticket's entry is not ready.
Overtakes(t) ==
  pc[t] = "publish" /\ \E u \in Producers : Active(u) /\ tail[u] < tail[t]

\* A step of thread t inside uring_perror.
InPerror(t) ==
  /\ Perror(t)
  /\ overtaken' = (overtaken \/ Overtakes(t))
  /\ UNCHANGED <<called, phase>>

\* Faulty: io_uring_enter without IORING_ENTER_SQ_WAKEUP.
Waker_NoFlag ==
  /\ poller = "asleep"
  /\ UNCHANGED vars

\* waker_thread_func calls io_uring_enter every millisecond until the
\* process exits.
Waker ==
  /\ poller = "asleep"
  /\ Wakeup
  /\ UNCHANGED <<ring, msg_pool, pc, callers, inflight, lines, main>>

Joined == called = Producers /\ \A t \in Producers : ~Active(t)

\* teardown_uring frees the pool as soon as the threads are joined.
Teardown ==
  /\ phase = "running"
  /\ Joined
  /\ msg_pool' \in PoolAfterFree
  /\ phase' = "freed"
  /\ UNCHANGED <<ring, pc, callers, kernel, called, overtaken>>

Exit ==
  /\ phase = "freed"
  /\ phase' = "exited"
  /\ poller' = "stopped"
  /\ inflight' = {}
  /\ UNCHANGED <<ring, msg_pool, pc, callers, lines, called, overtaken>>

-----------------------------------------------------------------------------
(* The kernel (external), which sees a ready thread's stores and any part  *)
(* of the others'.                                                         *)

\* A thread that is to store the tail uses this index.
Unready(s) == \E t \in called : Active(t) /\ Idx(t) = s

\* The index array is zero where the store to it is not seen.
SeenIndex ==
  {NextSqe} \union (IF Unready(Slot(sring_head)) THEN {0} ELSE {})

SeenSqe(i) ==
  {sqes[i]} \union (IF Unready(i) /\ sqes[i] # Zero THEN {Zero, Half} ELSE {})

SeenText(r) ==
  {Text(r)} \union (IF Unready(r.slot) THEN {Garbled} ELSE {})

Fetch ==
  /\ \E i \in SeenIndex : \E e \in SeenSqe(i) : TakeWrite(i, e) \/ TakeNop(e)
  /\ UNCHANGED main

Write ==
  /\ \E r \in inflight : \E x \in SeenText(r) : PutOut(r, x)
  /\ UNCHANGED main

Idle == PollerIdles /\ UNCHANGED main

Terminated == phase = "exited" /\ UNCHANGED vars

Next ==
  \/ \E t \in Producers : Call(t)
  \/ \E t \in Producers : InPerror(t)
  \/ Fetch
  \/ Write
  \/ Idle
  \/ Waker
  \/ Teardown
  \/ Exit
  \/ Terminated

Spec == Init /\ [][Next]_vars

\* Calls in progress, the kernel and the waker keep running.
Fairness ==
  /\ \A t \in Producers : WF_vars(InPerror(t))
  /\ WF_vars(Fetch)
  /\ WF_vars(Write)
  /\ WF_vars(Waker)
  /\ WF_vars(Teardown \/ Exit)

\* A thread may sleep for ever before its call.
FairSpec == Spec /\ Fairness

\* Every thread's sleep ends.
FairCallsSpec == FairSpec /\ \A t \in Producers : WF_vars(Call(t))

-----------------------------------------------------------------------------

(* Every variable stays in its range. *)
TypeOK ==
  /\ RingTypeOK
  /\ called \subseteq Producers
  /\ phase \in {"running", "freed", "exited"}
  /\ overtaken \in BOOLEAN

(* Two threads never write the same buffer and SQE: fetch_add gives each   *)
(* its own ticket, and there are no more threads than ring positions.      *)
SlotExclusive ==
  \A t, u \in called : t # u => Idx(t) # Idx(u)

(* Every thread writes inside msg_pool's QUEUE_DEPTH buffers.              *)
WithinPool == \A t \in called : Idx(t) < QUEUE_DEPTH

(* As long as the threads store the tail in the order of their tickets,    *)
(* the kernel prints whole messages and each once while main runs, however *)
(* the threads interleave otherwise and whatever it may see of the calls   *)
(* in progress: what goes wrong goes wrong by overtaking.                  *)
InOrderPrintsWhole ==
  ~overtaken /\ phase = "running" =>
    lines[Garbled] = 0 /\ \A t \in Producers : lines[t] <= 1

(* "must happen before the store_release" (uring_ctx.c:164): what a store  *)
(* of the tail lets the kernel fetch is indexed and filled, for as long as *)
(* no store has overtaken another.  Each thread's own store comes last;    *)
(* what it publishes of the others it does not know.                       *)
PublishedIsFilled ==
  ~overtaken /\ phase = "running" =>
    \A i \in 0 .. Pending - 1 :
      LET s == Slot(sring_head + i) IN sring_array[s] = s /\ sqes[s] \in Msgs

(* "publish and advance the submission ring" (uring_ctx.c:163): a store to *)
(* the tail never moves it backwards.                                      *)
TailNeverRetreats == [][Sub(sring_tail', sring_tail) <= Entries]_vars

(* The waker makes up for uring_perror never looking at IORING_SQ_NEED_    *)
(* WAKEUP: what is in the ring is fetched while main waits for threads     *)
(* that may still be asleep.                                               *)
KernelCatchesUp == ~RingEmpty ~> (RingEmpty \/ phase # "running")

(* Every thread's line appears once (exp_LOGS.md:5-14).                    *)
EveryThreadHeard == <>(\A t \in Producers : lines[t] = 1)

=============================================================================
