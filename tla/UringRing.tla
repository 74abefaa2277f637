------------------------------ MODULE UringRing ------------------------------
(***************************************************************************)
(* The io_uring submission ring shared by the CPU, the GPU and the kernel, *)
(* and uring_perror, the call by which the CPU and the GPU print.          *)
(*                                                                         *)
(* The steps of a call are the reservation of a ticket (fetch_add on       *)
(* sq_tail_cache), the wait for room, the two writes to the message        *)
(* buffer, the zeroing of the SQE, the first and the last of the seven     *)
(* stores that fill it, the write to the index array, and the              *)
(* release-store of the tail.  They take effect in program order here; a   *)
(* caller's own release-store lets nobody see them otherwise, and          *)
(* CpuMtDemo, where another caller's store of the tail may publish them    *)
(* first, takes the order away again.                                      *)
(*                                                                         *)
(* The kernel side (external code, modelled from how the rings are used)   *)
(* fetches one SQE per step and performs the write at any later time, in   *)
(* any order, reading the message buffer when it does.                     *)
(*                                                                         *)
(* The module has no next-state relation of its own: GpuSvmDemo, CpuMtDemo *)
(* and FlushDemo say who calls uring_perror and when.                      *)
(***************************************************************************)
EXTENDS Integers

CONSTANTS
  Producers,    \* the actors that may call uring_perror
  Msgs,         \* the messages they print, each shorter than MSG_BUF_SIZE
  QUEUE_DEPTH,  \* entries asked of io_uring_setup, and buffers in msg_pool
  Entries,      \* p.sq_entries: QUEUE_DEPTH rounded up to a power of two
  Wrap,         \* number of values of an unsigned counter (2^32 in the code)
  WaitForRoom,  \* TRUE in gpu_svm_demo; the experiments have no such wait
  MayIdle,      \* whether the run can outlast sq_thread_idle
  Zero,         \* zeroed memory: an empty buffer, a NOP submission entry
  Half,         \* an entry that has some of its seven stores but not all
  Garbled       \* what a write puts out when it is not its message

ASSUME RingAssumption ==
  /\ QUEUE_DEPTH \in Nat \ {0}
  /\ Entries \in Nat \ {0}
  /\ QUEUE_DEPTH <= Entries
  /\ Wrap \in Nat
  /\ Entries < Wrap
  /\ Wrap % Entries = 0
  /\ WaitForRoom \in BOOLEAN
  /\ MayIdle \in BOOLEAN
  /\ Zero \notin Msgs
  /\ Garbled \notin Msgs
  /\ Half \notin Msgs \union {Zero}

VARIABLES
  sq_tail_cache,  \* next ticket to hand out
  sring_head,     \* next ticket the kernel will fetch
  sring_tail,     \* end of what the kernel may fetch
  sring_array,    \* ring position -> index of its SQE
  sqes,           \* index -> message its SQE asks to write, Half or Zero
  msg_pool,       \* index -> text in the buffer, or Zero
  pc,             \* producer -> its next step in uring_perror
  tail,           \* producer -> its ticket (local variable tail)
  msg,            \* producer -> its argument msg
  poller,         \* the kernel's polling thread
  inflight,       \* writes fetched by the kernel and not performed yet
  lines           \* text -> times it was printed: 0, 1, or 2 for "again"

ring    == <<sring_head, sring_tail, sring_array, sqes>>
callers == <<sq_tail_cache, tail, msg>>
kernel  == <<poller, inflight, lines>>
ringVars == <<ring, msg_pool, pc, callers, kernel>>

Slots   == 0 .. Entries - 1
Counter == 0 .. Wrap - 1
Texts   == Msgs \union {Garbled}
Stages  == {"idle", "room", "zero_buff", "copy", "zero_sqe", "begin_sqe",
            "fill_sqe", "index", "publish"}
Request == [seq : Counter, slot : Slots, msg : Texts]

-----------------------------------------------------------------------------
(* Unsigned arithmetic and the ring mask.                                  *)

Inc(x) == (x + 1) % Wrap

Sub(x, y) == (x - y) % Wrap

Slot(ticket) == ticket % Entries

Idx(p) == Slot(tail[p])

-----------------------------------------------------------------------------
(* The state when setup_uring has returned 0.  Each demo says what the     *)
(* polling thread does then.                                               *)

RingInit ==
  /\ sq_tail_cache = 0
  /\ sring_head = 0
  /\ sring_tail = 0
  /\ sring_array = [s \in Slots |-> 0]
  /\ sqes = [s \in Slots |-> Zero]
  /\ msg_pool = [s \in Slots |-> Zero]
  /\ pc = [p \in Producers |-> "idle"]
  /\ tail = [p \in Producers |-> 0]
  /\ msg = [p \in Producers |-> Zero]
  /\ poller \in {"polling", "asleep"}
  /\ inflight = {}
  /\ lines = [x \in Texts |-> 0]

-----------------------------------------------------------------------------
(* uring_perror, step by step.                                             *)

Step(p, from, to) ==
  /\ pc[p] = from
  /\ pc' = [pc EXCEPT ![p] = to]

\* Faulty: the ticket is the one before the next, as if the fetch_add were
\* a load of the last ticket published.
Reserve_LastTicket(p, m) ==
  /\ Step(p, "idle", "room")
  /\ tail' = [tail EXCEPT ![p] = sq_tail_cache - 1]
  /\ msg' = [msg EXCEPT ![p] = m]
  /\ sq_tail_cache' = Inc(sq_tail_cache)
  /\ UNCHANGED <<ring, msg_pool, kernel>>

\* Faulty: add_fetch instead of fetch_add.
Reserve_AddFetch(p, m) ==
  /\ Step(p, "idle", "room")
  /\ tail' = [tail EXCEPT ![p] = Inc(sq_tail_cache)]
  /\ msg' = [msg EXCEPT ![p] = m]
  /\ sq_tail_cache' = Inc(sq_tail_cache)
  /\ UNCHANGED <<ring, msg_pool, kernel>>

\* Faulty: the counter is read and not advanced.
Reserve_NoIncrement(p, m) ==
  /\ Step(p, "idle", "room")
  /\ tail' = [tail EXCEPT ![p] = sq_tail_cache]
  /\ msg' = [msg EXCEPT ![p] = m]
  /\ UNCHANGED <<ring, msg_pool, kernel, sq_tail_cache>>

Reserve(p, m) ==
  /\ Step(p, "idle", "room")
  /\ tail' = [tail EXCEPT ![p] = sq_tail_cache]
  /\ msg' = [msg EXCEPT ![p] = m]
  /\ sq_tail_cache' = Inc(sq_tail_cache)
  /\ UNCHANGED <<ring, msg_pool, kernel>>

\* Faulty: tail - head > entries.
AwaitRoom_OffByOne(p) ==
  /\ WaitForRoom => Sub(tail[p], sring_head) <= Entries
  /\ Step(p, "room", "zero_buff")
  /\ UNCHANGED <<ring, msg_pool, callers, kernel>>

\* Faulty: masked positions are compared, an empty ring looks full.
AwaitRoom_Masked(p) ==
  /\ WaitForRoom => Slot(tail[p]) # Slot(sring_head)
  /\ Step(p, "room", "zero_buff")
  /\ UNCHANGED <<ring, msg_pool, callers, kernel>>

AwaitRoom(p) ==
  /\ WaitForRoom => Sub(tail[p], sring_head) < Entries
  /\ Step(p, "room", "zero_buff")
  /\ UNCHANGED <<ring, msg_pool, callers, kernel>>

ZeroBuff(p) ==
  /\ Step(p, "zero_buff", "copy")
  /\ msg_pool' = [msg_pool EXCEPT ![Idx(p)] = Zero]
  /\ UNCHANGED <<ring, callers, kernel>>

CopyMsg(p) ==
  /\ Step(p, "copy", "zero_sqe")
  /\ msg_pool' = [msg_pool EXCEPT ![Idx(p)] = msg[p]]
  /\ UNCHANGED <<ring, callers, kernel>>

ZeroSqe(p) ==
  /\ Step(p, "zero_sqe", "begin_sqe")
  /\ sqes' = [sqes EXCEPT ![Idx(p)] = Zero]
  /\ UNCHANGED <<sring_head, sring_tail, sring_array, msg_pool, callers, kernel>>

\* The first of the stores to opcode, fd, flags, addr, len, off, user_data ...
BeginSqe(p) ==
  /\ Step(p, "begin_sqe", "fill_sqe")
  /\ sqes' = [sqes EXCEPT ![Idx(p)] = Half]
  /\ UNCHANGED <<sring_head, sring_tail, sring_array, msg_pool, callers, kernel>>

\* ... and the last.
FillSqe(p) ==
  /\ Step(p, "fill_sqe", "index")
  /\ sqes' = [sqes EXCEPT ![Idx(p)] = msg[p]]
  /\ UNCHANGED <<sring_head, sring_tail, sring_array, msg_pool, callers, kernel>>

\* Faulty: the index array is taken to be the identity already.
SetArray_Skipped(p) ==
  /\ Step(p, "index", "publish")
  /\ UNCHANGED <<ring, msg_pool, callers, kernel>>

SetArray(p) ==
  /\ Step(p, "index", "publish")
  /\ sring_array' = [sring_array EXCEPT ![Idx(p)] = Idx(p)]
  /\ UNCHANGED <<sring_head, sring_tail, sqes, msg_pool, callers, kernel>>

\* Faulty: the tail stored is one too far.
Publish_TooFar(p) ==
  /\ Step(p, "publish", "idle")
  /\ sring_tail' = Inc(Inc(tail[p]))
  /\ UNCHANGED <<sring_head, sring_array, sqes, msg_pool, callers, kernel>>

\* Faulty: the store of the tail is missing.
Publish_NoStore(p) ==
  /\ Step(p, "publish", "idle")
  /\ UNCHANGED <<ring, msg_pool, callers, kernel>>

Publish(p) ==
  /\ Step(p, "publish", "idle")
  /\ sring_tail' = Inc(tail[p])
  /\ UNCHANGED <<sring_head, sring_array, sqes, msg_pool, callers, kernel>>

\* The steps of a call in progress.
Perror(p) ==
  \/ AwaitRoom(p)
  \/ ZeroBuff(p)
  \/ CopyMsg(p)
  \/ ZeroSqe(p)
  \/ BeginSqe(p)
  \/ FillSqe(p)
  \/ SetArray(p)
  \/ Publish(p)

-----------------------------------------------------------------------------
(* The kernel (external).                                                  *)

RingEmpty == sring_tail = sring_head

\* The entry the polling thread reads next.
NextSqe == sring_array[Slot(sring_head)]

\* What an entry e with index i asks to write.  A half filled one may ask
\* for the buffer (only user_data is missing) or write at a wrong place in
\* the output (off is); the former is the message if that is in the buffer.
Asked(i, e) ==
  IF e = Half THEN {msg_pool[i], Garbled} \intersect Texts ELSE {e} \intersect Msgs

\* The polling thread takes entry e with index i as a write ...
TakeWrite(i, e) ==
  /\ poller = "polling"
  /\ ~RingEmpty
  /\ sring_head' = Inc(sring_head)
  /\ \E m \in Asked(i, e) :
       inflight' = inflight \union {[seq |-> sring_head, slot |-> i, msg |-> m]}
  /\ UNCHANGED <<sring_tail, sring_array, sqes, msg_pool, pc, callers,
                 poller, lines>>

\* ... or as nothing to be printed: a zeroed entry has opcode 0,
\* IORING_OP_NOP, and a half filled one may have no length or address.
TakeNop(e) ==
  /\ poller = "polling"
  /\ ~RingEmpty
  /\ e \in {Zero, Half}
  /\ sring_head' = Inc(sring_head)
  /\ UNCHANGED <<sring_tail, sring_array, sqes, msg_pool, pc, callers, kernel>>

FetchWrite == TakeWrite(NextSqe, sqes[NextSqe])

FetchNop == TakeNop(sqes[NextSqe])

\* len bytes of the buffer: the message if the buffer still holds it.
Text(r) == IF msg_pool[r.slot] = r.msg THEN r.msg ELSE Garbled

PutOut(r, x) ==
  /\ r \in inflight
  /\ inflight' = inflight \ {r}
  /\ lines' = [lines EXCEPT ![x] = IF @ < 2 THEN @ + 1 ELSE 2]
  /\ UNCHANGED <<ring, msg_pool, pc, callers, poller>>

PerformWrite(r) == PutOut(r, Text(r))

\* After sq_thread_idle ms without work the polling thread goes to sleep;
\* it never does so with entries left in the ring.
PollerIdles ==
  /\ MayIdle
  /\ poller = "polling"
  /\ RingEmpty
  /\ poller' = "asleep"
  /\ UNCHANGED <<ring, msg_pool, pc, callers, inflight, lines>>

KernelStep ==
  \/ FetchWrite
  \/ FetchNop
  \/ \E r \in inflight : PerformWrite(r)
  \/ PollerIdles

\* io_uring_enter with IORING_ENTER_SQ_WAKEUP.
Wakeup == poller' = "polling"

\* The memory of msg_pool after it is freed: reading it is undefined, the
\* text may still be there or may be gone.
PoolAfterFree == {msg_pool, [s \in Slots |-> Zero]}

-----------------------------------------------------------------------------
(* State predicates the demos state their properties with.                 *)

RingTypeOK ==
  /\ sq_tail_cache \in Counter
  /\ sring_head \in Counter
  /\ sring_tail \in Counter
  /\ sring_array \in [Slots -> Slots]
  /\ sqes \in [Slots -> Msgs \union {Zero, Half}]
  /\ msg_pool \in [Slots -> Msgs \union {Zero}]
  /\ pc \in [Producers -> Stages]
  /\ tail \in [Producers -> Counter]
  /\ msg \in [Producers -> Msgs \union {Zero}]
  /\ poller \in {"polling", "asleep", "stopped"}
  /\ inflight \subseteq Request
  /\ lines \in [Texts -> 0 .. 2]

Active(p) == pc[p] # "idle"

\* The producer has passed the wait and is writing at its index.
Writing(p) == pc[p] \notin {"idle", "room"}

Pending == Sub(sring_tail, sring_head)

=============================================================================
