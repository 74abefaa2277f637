----------------------------- MODULE GpuSvmDemo -----------------------------
(***************************************************************************)
(* application/gpu_svm_demo: main prints from the CPU, launches a kernel   *)
(* that prints from the GPU, prints again, and tears the ring down.        *)
(*                                                                         *)
(* Script is main's sequence of calls.  A target region without nowait     *)
(* blocks the host until uring_fn returns, and uring_fn is run by one      *)
(* device thread, so a call starts only when the previous one has          *)
(* returned.  What remains concurrent is the caller and the kernel.        *)
(***************************************************************************)
EXTENDS UringRing, Sequences

CONSTANTS
  Script,        \* the calls: <<[by |-> producer, msg |-> message], ...>>
  DrainsInTime   \* whether teardown's wake-up succeeds and its sleep(3) is
                 \* long enough for what the kernel will do

ASSUME ScriptAssumption ==
  /\ Script \in Seq([by : Producers, msg : Msgs])
  /\ \A i, j \in 1 .. Len(Script) : i # j => Script[i].msg # Script[j].msg
  /\ DrainsInTime \in BOOLEAN
  /\ WaitForRoom

VARIABLES
  next,   \* position in Script of the next call
  phase   \* main's progress: running, sleeping, freed, exited

vars == <<ringVars, next, phase>>

Phases == {"running", "sleeping", "freed", "exited"}

Init ==
  /\ RingInit
  /\ poller = "polling"
  /\ next = 1
  /\ phase = "running"

Quiescent == \A p \in Producers : ~Active(p)

\* Faulty: the target region has nowait, two calls overlap.
Call_Nowait ==
  /\ phase = "running"
  /\ next <= Len(Script)
  /\ Reserve(Script[next].by, Script[next].msg)
  /\ next' = next + 1
  /\ UNCHANGED phase

\* main, or uring_fn on the device, enters uring_perror.
Call ==
  /\ phase = "running"
  /\ next <= Len(Script)
  /\ Quiescent
  /\ Reserve(Script[next].by, Script[next].msg)
  /\ next' = next + 1
  /\ UNCHANGED phase

\* Nothing left that the kernel would do by itself.
KernelDone == (RingEmpty \/ poller = "asleep") /\ inflight = {}

\* Faulty: no IORING_ENTER_SQ_WAKEUP before the sleep.
BeginTeardown_NoWakeup ==
  /\ phase = "running"
  /\ next > Len(Script)
  /\ Quiescent
  /\ UNCHANGED poller
  /\ phase' = "sleeping"
  /\ UNCHANGED <<ring, msg_pool, pc, callers, inflight, lines, next>>

\* teardown_uring wakes the polling thread, does not check whether it did,
\* and starts its sleep(3).
BeginTeardown ==
  /\ phase = "running"
  /\ next > Len(Script)
  /\ Quiescent
  /\ Wakeup \/ (~DrainsInTime /\ UNCHANGED poller)
  /\ phase' = "sleeping"
  /\ UNCHANGED <<ring, msg_pool, pc, callers, inflight, lines, next>>

\* Faulty: no sleep(3).
FreePool_NoSleep ==
  /\ phase = "sleeping"
  /\ msg_pool' \in PoolAfterFree
  /\ phase' = "freed"
  /\ UNCHANGED <<ring, pc, callers, kernel, next>>

\* The sleep ends and the pools are freed.  The pages of the rings and SQEs
\* stay pinned by the kernel until the process exits.
FreePool ==
  /\ phase = "sleeping"
  /\ DrainsInTime => KernelDone
  /\ msg_pool' \in PoolAfterFree
  /\ phase' = "freed"
  /\ UNCHANGED <<ring, pc, callers, kernel, next>>

\* main returns; the process takes the polling thread and what is in
\* flight with it.
Exit ==
  /\ phase = "freed"
  /\ phase' = "exited"
  /\ poller' = "stopped"
  /\ inflight' = {}
  /\ UNCHANGED <<ring, msg_pool, pc, callers, lines, next>>

\* A step of the call in progress, by the host or by the device.
InPerror(p) == Perror(p) /\ UNCHANGED <<next, phase>>

Main == Call \/ BeginTeardown \/ FreePool \/ Exit

Terminated == phase = "exited" /\ UNCHANGED vars

Next ==
  \/ Main
  \/ \E p \in Producers : InPerror(p)
  \/ KernelStep /\ UNCHANGED <<next, phase>>
  \/ Terminated

Spec == Init /\ [][Next]_vars

\* Threads, the device and the kernel keep running; nothing is assumed of
\* PollerIdles, a timeout.
Fairness ==
  /\ WF_vars(Main)
  /\ \A p \in Producers : WF_vars(InPerror(p))
  /\ WF_vars((FetchWrite \/ FetchNop) /\ UNCHANGED <<next, phase>>)
  /\ WF_vars((\E r \in inflight : PerformWrite(r)) /\ UNCHANGED <<next, phase>>)

FairSpec == Spec /\ Fairness

-----------------------------------------------------------------------------
(* Progress of the script, read off the state.                             *)

\* Calls that have stored the tail.
Published == next - 1 - (IF Quiescent THEN 0 ELSE 1)

\* Calls whose entry the kernel has fetched.
Fetched == Published - Pending

(* Every variable stays in its range. *)
TypeOK ==
  /\ RingTypeOK
  /\ next \in 1 .. Len(Script) + 1
  /\ phase \in Phases

-----------------------------------------------------------------------------
(* Safety.                                                                 *)

(* Whatever the kernel may fetch is complete and in call order: the i-th   *)
(* entry between head and tail asks for the i-th unfetched call's message, *)
(* and its buffer holds it until teardown.  A producer that reuses an      *)
(* index the kernel has not read, or a tail stored before the entry is     *)
(* complete, breaks it.                                                    *)
SubmitsInOrder ==
  /\ Pending <= Published
  /\ \A i \in 0 .. Pending - 1 :
       LET s == Slot((sring_head + i) % Wrap) IN
       /\ sring_array[s] = s
       /\ sqes[s] = Script[Fetched + i + 1].msg
       /\ phase \in {"running", "sleeping"} => msg_pool[s] = sqes[s]

(* The ring never holds more than its entries, counters wrapping included: *)
(* the test  tail - head >= entries  reserves no ticket beyond the ring.   *)
NeverOverfull == Pending <= Entries

(* The kernel prints a whole message or nothing: it never reads a buffer   *)
(* that a later call has reused or that teardown has freed.                *)
NoGarbledLine == lines[Garbled] = 0

(* No message is printed twice.                                            *)
PrintedOnce == \A m \in Msgs : lines[m] <= 1

(* uring_perror writes inside msg_pool, which has QUEUE_DEPTH buffers      *)
(* although the ring, and so the index, has Entries positions: as many     *)
(* calls as there are buffers fit, from the first buffer to the last.      *)
WithinPool ==
  Len(Script) <= QUEUE_DEPTH =>
    \A p \in Producers : Writing(p) => Idx(p) < QUEUE_DEPTH

(* "publish and advance": a store to the tail moves it by one entry.       *)
TailAdvances == [][sring_tail' # sring_tail => sring_tail' = Inc(sring_tail)]_vars

-----------------------------------------------------------------------------
(* Liveness.                                                               *)

(* A call that waits for room gets it: the wait loop terminates, unless    *)
(* the ring is full and the polling thread has gone to sleep, for          *)
(* uring_perror never looks at IORING_SQ_NEED_WAKEUP.                      *)
CallsReturn ==
  \A p \in Producers :
    pc[p] = "room" ~>
      \/ pc[p] = "idle"
      \/ poller = "asleep" /\ Sub(tail[p], sring_head) >= Entries

(* The program ends.                                                       *)
EndsUp == <>(phase = "exited")

(* The demo implements the asynchronous printer.                           *)
Contract == INSTANCE AsyncPrint WITH
  Msgs   <- Msgs,
  Texts  <- Texts,
  posted <- {Script[i].msg : i \in 1 .. Published},
  lines  <- lines,
  open   <- phase \in {"running", "sleeping"}

(* Every message posted is printed once, whole, before the pool is freed.  *)
Prints == Contract!SafeSpec

(* And it is eventually printed, even when the polling thread has gone to  *)
(* sleep and only teardown wakes it.                                       *)
PrintsAll == Contract!Spec

=============================================================================
