------------------------------ MODULE FlushDemo ------------------------------
(***************************************************************************)
(* application/experiments/io_uring_gpu_no_poll, io_uring_svm_cpu_only and *)
(* the GPU build of io_uring_cpu_mt: a main that prints, flushes the ring, *)
(* processes completions and tears down without a sleep.                   *)
(*                                                                         *)
(* A program says whether its ring has a polling thread, in what order     *)
(* main makes its calls, and at which of its flushes io_uring_enter fails: *)
(* uring_flush then prints the error and main goes on.  A "call" by the    *)
(* GPU stands for the target region, which blocks the host until its       *)
(* kernel has returned.  With a polling thread uring_flush wakes it and    *)
(* waits for a completion.  Without one the kernel takes entries only      *)
(* while main is inside uring_flush's io_uring_enter, and poller is        *)
(* "polling" exactly then.                                                 *)
(***************************************************************************)
EXTENDS UringRing, Sequences, FiniteSets

CONSTANTS
  Programs,   \* [sqpoll, script, fails]: the programs considered
  ShortWait   \* whether an io_uring_enter that has taken entries returns only
              \* with a completion (Linux returns at once if it took fewer
              \* than asked for, and when a signal ends the wait)

Say(p, m) == [op |-> "call", by |-> p, msg |-> m]
Flush == [op |-> "flush"]
Reap  == [op |-> "reap"]

Ops == {Say(p, m) : p \in Producers, m \in Msgs} \union {Flush, Reap}

Program == [sqpoll : BOOLEAN, script : Seq(Ops), fails : SUBSET Nat]

ASSUME ProgramAssumption ==
  /\ Programs \subseteq Program
  /\ ShortWait \in BOOLEAN
  /\ ~WaitForRoom

VARIABLES
  program,     \* the program that runs
  next,        \* position in its script of the next call
  phase,       \* main's progress
  submitted,   \* entries taken since uring_flush entered the kernel
  cring_head,  \* completions main has seen
  cring_tail,  \* completions the kernel has posted
  seen         \* uring_process_completions: its local variable tail

cq   == <<cring_head, cring_tail>>
main == <<program, next, phase, submitted, seen>>
vars == <<ringVars, cq, main>>

SqPoll == program.sqpoll
Script == program.script

\* The positions of the flushes whose io_uring_enter returns an error.
Fails == program.fails

Phases == {"running", "entering", "reaping", "freed", "exited"}

Init ==
  /\ RingInit
  /\ program \in Programs
  /\ poller = IF SqPoll THEN "polling" ELSE "asleep"
  /\ next = 1
  /\ phase = "running"
  /\ submitted = 0
  /\ cring_head = 0
  /\ cring_tail = 0
  /\ seen = 0

-----------------------------------------------------------------------------
(* main.                                                                   *)

Quiescent == \A p \in Producers : ~Active(p)

\* main has returned from its last call and makes this one next.
Ready(op) ==
  /\ phase = "running"
  /\ Quiescent
  /\ next <= Len(Script)
  /\ Script[next].op = op
  /\ next' = next + 1

Call ==
  /\ Ready("call")
  /\ Reserve(Script[next].by, Script[next].msg)
  /\ UNCHANGED <<cq, phase, submitted, seen, program>>

\* A step of the call in progress, by the host or by the device.
InPerror(p) == Perror(p) /\ UNCHANGED <<cq, main>>

\* uring_flush enters the kernel.
FlushEnter ==
  /\ Ready("flush")
  /\ next \notin Fails
  /\ Wakeup
  /\ phase' = "entering"
  /\ submitted' = 0
  /\ UNCHANGED <<ring, msg_pool, pc, callers, inflight, lines, cq, seen, program>>

\* io_uring_enter fails and nothing is submitted; a polling thread may have
\* been woken before the error.
FlushFails ==
  /\ Ready("flush")
  /\ next \in Fails
  /\ UNCHANGED poller \/ (SqPoll /\ Wakeup)
  /\ UNCHANGED <<ring, msg_pool, pc, callers, inflight, lines, cq, phase,
                 submitted, seen, program>>

\* The kernel has taken all this io_uring_enter lets it take.
Submitted == SqPoll \/ RingEmpty \/ submitted = QUEUE_DEPTH

\* Faulty: the wait is for a completion of its own, whatever was submitted.
MustWait_Always == TRUE

\* min_complete = 1 counts, unless too few entries were submitted.
MustWait == SqPoll \/ submitted = QUEUE_DEPTH \/ ShortWait

\* Faulty: the kernel goes on taking entries after the flush, as it would
\* with IORING_SETUP_SQPOLL.
FlushReturn_KeepsPolling ==
  /\ phase = "entering"
  /\ Submitted
  /\ phase' = "running"
  /\ UNCHANGED <<ring, msg_pool, pc, callers, kernel, cq, next, submitted, seen, program>>

\* Faulty: min_complete is 0.
FlushReturn_NoMinComplete ==
  /\ phase = "entering"
  /\ Submitted
  /\ phase' = "running"
  /\ poller' = IF SqPoll THEN poller ELSE "asleep"
  /\ UNCHANGED <<ring, msg_pool, pc, callers, inflight, lines, cq, next,
                 submitted, seen, program>>

FlushReturn ==
  /\ phase = "entering"
  /\ Submitted
  /\ MustWait => cring_tail # cring_head
  /\ phase' = "running"
  /\ poller' = IF SqPoll THEN poller ELSE "asleep"
  /\ UNCHANGED <<ring, msg_pool, pc, callers, inflight, lines, cq, next,
                 submitted, seen, program>>

\* A signal ends the wait: with entries taken that is no error.
FlushInterrupted ==
  /\ phase = "entering"
  /\ ~SqPoll /\ ~ShortWait
  /\ Submitted /\ submitted > 0
  /\ phase' = "running"
  /\ poller' = "asleep"
  /\ UNCHANGED <<ring, msg_pool, pc, callers, inflight, lines, cq, next,
                 submitted, seen, program>>

\* uring_process_completions reads the completion tail once ...
ReapLoad ==
  /\ Ready("reap")
  /\ seen' = cring_tail
  /\ phase' = "reaping"
  /\ UNCHANGED <<ringVars, cq, submitted, program>>

\* Faulty: the head is not stored.
ReapStore_NoStore ==
  /\ phase = "reaping"
  /\ phase' = "running"
  /\ UNCHANGED <<ringVars, cq, next, submitted, seen, program>>

\* Faulty: the head advances at least once.
ReapStore_DoWhile ==
  /\ phase = "reaping"
  /\ cring_head' = IF cring_head = seen THEN Inc(seen) ELSE seen
  /\ phase' = "running"
  /\ UNCHANGED <<ringVars, cring_tail, next, submitted, seen, program>>

\* ... and stores its head when it has caught up with what it read.
ReapStore ==
  /\ phase = "reaping"
  /\ cring_head' = seen
  /\ phase' = "running"
  /\ UNCHANGED <<ringVars, cring_tail, next, submitted, seen, program>>

\* teardown_uring frees the pool at once.
Teardown ==
  /\ phase = "running"
  /\ Quiescent
  /\ next > Len(Script)
  /\ msg_pool' \in PoolAfterFree
  /\ phase' = "freed"
  /\ UNCHANGED <<ring, pc, callers, kernel, cq, next, submitted, seen, program>>

\* The process exits and takes the writes in flight with it.
Exit ==
  /\ phase = "freed"
  /\ phase' = "exited"
  /\ poller' = "stopped"
  /\ inflight' = {}
  /\ UNCHANGED <<ring, msg_pool, pc, callers, lines, cq, next, submitted, seen, program>>

Main ==
  \/ Call
  \/ FlushEnter
  \/ FlushFails
  \/ FlushReturn
  \/ ReapLoad
  \/ ReapStore
  \/ Teardown
  \/ Exit

-----------------------------------------------------------------------------
(* The kernel (external).                                                  *)

\* A single io_uring_enter takes at most QUEUE_DEPTH entries.
MayTake ==
  /\ ~SqPoll => submitted < QUEUE_DEPTH
  /\ submitted' = IF SqPoll THEN submitted ELSE submitted + 1

\* The kernel takes an entry as a write ...
Submit ==
  /\ MayTake
  /\ FetchWrite
  /\ UNCHANGED <<cq, next, phase, seen, program>>

\* ... or as nothing to be printed, and posts its completion at once.  Only a
\* call that reuses an entry before it is taken lets the kernel meet that.
SubmitNop ==
  /\ MayTake
  /\ FetchNop
  /\ cring_tail' = Inc(cring_tail)
  /\ UNCHANGED <<cring_head, next, phase, seen, program>>

\* A write is performed and its completion posted.
Complete ==
  /\ \E r \in inflight : PerformWrite(r)
  /\ cring_tail' = Inc(cring_tail)
  /\ UNCHANGED <<cring_head, main>>

\* Without a polling thread there is none that could go to sleep.
Idle == SqPoll /\ PollerIdles /\ UNCHANGED <<cq, main>>

Terminated == phase = "exited" /\ UNCHANGED vars

Next ==
  \/ Main
  \/ \E p \in Producers : InPerror(p)
  \/ FlushInterrupted
  \/ Submit
  \/ SubmitNop
  \/ Complete
  \/ Idle
  \/ Terminated

Spec == Init /\ [][Next]_vars

\* main, the device and the kernel keep running.
Fairness ==
  /\ WF_vars(Main)
  /\ \A p \in Producers : WF_vars(InPerror(p))
  /\ WF_vars(Submit)
  /\ WF_vars(SubmitNop)
  /\ WF_vars(Complete)

FairSpec == Spec /\ Fairness

-----------------------------------------------------------------------------

CallsBefore(n) == Cardinality({i \in 1 .. n - 1 : Script[i].op = "call"})

\* Calls that have stored the tail, and calls the kernel has taken.
Published == CallsBefore(next) - (IF Quiescent THEN 0 ELSE 1)
Taken == Published - Pending

\* The flush at position i reaches the kernel.
Flushed(i) == Script[i].op = "flush" /\ i \notin Fails

Flushes == {i \in 1 .. next - 1 : Flushed(i)}

\* The failed flushes before position n.
FailedBefore(n) == {i \in 1 .. n - 1 : Script[i].op = "flush" /\ i \in Fails}

\* No call writes past msg_pool: its index ranges over Entries positions, the
\* pool has QUEUE_DEPTH buffers.
StaysInPool ==
  QUEUE_DEPTH = Entries \/ CallsBefore(Len(Script) + 1) <= QUEUE_DEPTH

\* Every call is followed by a flush and by the processing of completions,
\* as in io_uring_svm_cpu_only.
InRounds ==
  /\ SqPoll
  /\ StaysInPool
  /\ Script # <<>> => Script[Len(Script)].op = "reap"
  /\ \A i \in 1 .. Len(Script) :
       /\ Script[i].op = "call" <=> i = 1 \/ Script[i - 1].op = "reap"
       /\ Script[i].op = "flush" <=> i > 1 /\ Script[i - 1].op = "call"

\* In rounds, and no flush fails.
SureRounds == InRounds /\ Fails = {}

(* Every variable stays in its range. *)
TypeOK ==
  /\ RingTypeOK
  /\ program \in Program
  /\ next \in 1 .. Len(Script) + 1
  /\ phase \in Phases
  /\ submitted \in 0 .. QUEUE_DEPTH
  /\ {cring_head, cring_tail, seen} \subseteq Counter

\* No flush has more entries to submit than io_uring_enter is asked to take,
\* those that failed flushes have left behind included.
BatchesFit ==
  \A i, j \in 1 .. Len(Script) + 1 :
    i <= j /\ (\A k \in i .. j - 1 : ~Flushed(k)) =>
      CallsBefore(j) - CallsBefore(i) <= QUEUE_DEPTH

(* Without a polling thread a message stays with the caller until a flush  *)
(* whose io_uring_enter succeeds, and that flush submits every message     *)
(* called before it, those a failed flush has left behind included, if     *)
(* they are no more than QUEUE_DEPTH: outside io_uring_enter the kernel    *)
(* has taken the calls before the last such flush and no others.           *)
HeldUntilFlush ==
  ~SqPoll /\ BatchesFit /\ phase # "entering" =>
    \/ Flushes = {} /\ Taken = 0
    \/ \E f \in Flushes :
         (\A g \in Flushes : g <= f) /\ Taken = CallsBefore(f)

(* In a program of no more calls than there are buffers no later call      *)
(* reaches a buffer while a write still reads it, up to the free of the    *)
(* pool.                                                                   *)
WholeLines ==
  CallsBefore(Len(Script) + 1) <= QUEUE_DEPTH /\ phase \notin {"freed", "exited"} =>
    lines[Garbled] = 0

(* uring_process_completions never takes a completion the kernel has not   *)
(* posted: those unseen are no more than the writes performed.             *)
NeverReapsAhead ==
  Sub(cring_tail, cring_head) <= Taken - Cardinality(inflight)

(* One call for each flush: "wait for at least one completion" waits for   *)
(* that call, provided the completions of earlier rounds were all seen.  A *)
(* flush that fails does not wait, and the completion it leaves unseen may *)
(* end a later wait too early: after a flush the writes outstanding are no *)
(* more than the flushes that have failed, and none if none has.           *)
FlushSettles ==
  /\ InRounds
  /\ phase \in {"running", "reaping"}
  /\ next > 1 /\ Script[next - 1].op # "call"
  => Pending + Cardinality(inflight) <= Cardinality(FailedBefore(next))

(* A program in rounds of which no flush fails prints whole lines only,    *)
(* although it frees the pool without waiting.                             *)
RoundsPrintWhole == SureRounds => lines[Garbled] = 0

(* "if we do not wait the text turns into garbage"                         *)
(* (io_uring_cpu_mt/src/uring_device.c:16-17): with the wait it does not.  *)
NoGarbledLine == lines[Garbled] = 0

(* "ensure all outstanding io_uring operations have completed"             *)
(* (io_uring_gpu_no_poll/src/main_demo_target.cpp:129).                    *)
AllCompleted ==
  phase = "running" /\ next > Len(Script) => RingEmpty /\ inflight = {}

(* The program ends: no flush waits for a completion that does not come.   *)
EndsUp == <>(phase = "exited")

(* A program in rounds of which no flush fails prints the message of each  *)
(* of its calls.                                                           *)
AllPrinted ==
  SureRounds => <>(\A i \in 1 .. Len(Script) :
                   Script[i].op = "call" => lines[Script[i].msg] = 1)

-----------------------------------------------------------------------------
(* What a program in rounds may rely on when no flush fails.               *)

\* The messages of the calls at the positions before n.
CalledBefore(n) ==
  {Script[i].msg : i \in {j \in 1 .. n - 1 : Script[j].op = "call"}}

\* A call in progress is the last one main has made.
Handed == CalledBefore(IF Quiescent THEN next ELSE next - 1)

\* No flush fails, and each round has a message of its own.
OwnRounds ==
  /\ SureRounds
  /\ \A i, j \in 1 .. Len(Script) :
       /\ Script[i].op = "call" /\ Script[j].op = "call"
       /\ Script[i].msg = Script[j].msg
       => i = j

(* Such a program implements the asynchronous printer: a flush and the     *)
(* processing of completions do for it what gpu_svm_demo sleeps for.       *)
Contract == INSTANCE AsyncPrint WITH
  Msgs   <- Msgs,
  Texts  <- Texts,
  posted <- IF OwnRounds THEN Handed ELSE {},
  lines  <- IF OwnRounds THEN lines ELSE [x \in Texts |-> 0],
  open   <- OwnRounds => phase \notin {"freed", "exited"}

(* A message handed over is printed whole and once, and before the pool    *)
(* that holds it is freed.                                                 *)
Prints == Contract!SafeSpec

=============================================================================
