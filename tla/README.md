# A TLA+ model of gpu-libc-artifacts

The repository prints from a GPU through Linux's io_uring: the submission ring,
its entries and a pool of message buffers live in memory that the CPU, the GPU
and the kernel share, and `uring_perror` posts a write to stderr from either
side. This directory models that protocol and the programs that use it, checks
the models with TLC and proves the main safety properties with TLAPS.

- [The system](#the-system)
- [Modules](#modules)
- [How the models correspond to the code](#how-the-models-correspond-to-the-code)
- [What each run checks](#what-each-run-checks)
- [Fairness and assumptions](#fairness-and-assumptions)
- [What is proved](#what-is-proved)
- [Where code and documentation disagree](#where-code-and-documentation-disagree)
- [What is not modelled](#what-is-not-modelled)
- [What remains](#what-remains)
- [Running it](#running-it)

## The system

Paths are relative to the repository root; `exp/` stands for
`application/experiments/`.

| Part | State | Operations | Talks to |
|---|---|---|---|
| Submission ring and `uring_perror` (`application/gpu_svm_demo/src/uring_ctx.cpp`, with a copy in each io_uring experiment) | head, tail, index array, SQEs, message pool, `sq_tail_cache` | take a ticket, wait for room (gpu_svm_demo only), fill the buffer and the SQE, write the index, release-store the tail | the kernel, through shared memory only |
| Kernel (not in the repository) | polling thread, writes in flight, completion ring | fetch an SQE, perform the write, post a completion, go to sleep | ring and pool, read later and in any order |
| gpu_svm_demo | the script of `main`: two calls, a target region with two calls, one call; teardown with `sleep(3)` | call, launch, wake, sleep, free, exit | ring, kernel |
| exp/io_uring_cpu_mt | ten threads, a detached waker, `main` | one call per thread, `io_uring_enter` every millisecond, join, teardown | ring, kernel |
| its GPU build (`main_demo_target.c`, `uring_device.c`) | `main`, one kernel | one call from the kernel, which then counts to 1e7; teardown | ring, kernel |
| exp/io_uring_gpu_no_poll | `main`'s calls, completion ring | call, `uring_flush` (submits; no polling thread), `uring_process_completions`, teardown | ring, kernel by system call |
| exp/io_uring_svm_cpu_only | the same with a polling thread and one call | call, flush (wake and wait), process completions, teardown | ring, kernel |
| `setup_uring` / `teardown_uring`, four versions | agents, pool, regions, descriptor, registrations | about twenty acquiring calls, each able to fail | HSA runtime, kernel |
| HSA discovery (`get_agent`, `get_agent_memory_pool`, `iterate`, `handle_error`) | what was found so far | callbacks on agents and pools | HSA runtime |
| exp/svm_target_edit_buffer, exp/svm_migration_cg, exp/svm_migration_fg | one or a few buffers | discover, allocate, run a kernel, read, free | HSA runtime |
| `helper.py`, `sh-scripts/build_llvm.sh`, `sh-scripts/set_env.sh`, `run.sh` | remaining arguments; on disk the build directory and the installation | build, run, ninja, file-build | each other by positional arguments, exit codes and the disk |
| exp/omp_deviceptr_demo, `get-pip.py` | | a single target region; a third-party installer | |

What is hard about it, and what has to be right:

- **Publication.** Taking a ticket, filling the entry field by field and storing
  the tail are separate steps of an actor that holds no lock, and the tail store
  covers every lower index. The kernel must find complete entries, in call
  order; with several threads it need not.
- **Reuse.** A caller waits (if at all) for the *fetch* of the entry before it
  at its index; the write that reads the buffer may still be in flight.
- **Teardown.** Nothing but a three-second sleep, a completion count or luck
  lies between the last message and the free of its buffer.
- **Sleep.** `uring_perror` never looks at `IORING_SQ_NEED_WAKEUP`; a polling
  thread that has gone to sleep is woken only by a waker, a flush or teardown.
- **Limits.** The pool has 12 buffers and the ring 16 entries; the counters are
  unsigned and wrap.
- **Completion.** `uring_flush` waits for *one* completion, whichever, and
  takes at most 12 entries; whether it waits at all depends on how many it took.
  If its system call fails it prints an error, and nothing was submitted or
  waited for.
- **Set-up.** Searches report success when they find nothing, some failures are
  ignored; a program that gets 0 back must still have a whole ring, and none may
  go on to memory it does not have.
- **Building.** Options are positional in the script, every step may fail or be
  interrupted, and what it leaves on disk is there at the next invocation.

`PROJECT.json` lists each hazard with its line and its properties.

## Modules

| Module | What it is |
|---|---|
| `AsyncPrint` | abstract specification: what a program that prints may rely on |
| `UringRing` | the ring, `uring_perror` step by step, the kernel's side; no next-state relation |
| `GpuSvmDemo` | `UringRing` composed with gpu_svm_demo's `main`; implements `AsyncPrint` |
| `CpuMtDemo` | `UringRing` composed with exp/io_uring_cpu_mt's threads, waker and `main` |
| `FlushDemo` | `UringRing` composed with a completion ring, `uring_flush` and `uring_process_completions`: exp/io_uring_gpu_no_poll, exp/io_uring_svm_cpu_only and the GPU build of exp/io_uring_cpu_mt; programs in rounds implement `AsyncPrint` |
| `HsaDiscovery` | the discovery callbacks and their iteration, as operators |
| `HsaPrograms` | the eight programs that use HSA, as lists of calls that may fail, from `main`'s first to its last, over `HsaDiscovery` |
| `HelperCli` | `helper.py`, `build_llvm.sh`, `set_env.sh` and `run.sh`, over any number of invocations |
| `MCGpuSvmDemo`, `MCCpuMtDemo`, `MCFlushDemo`, `MCHsaPrograms`, `MCHelperCli` | instances for TLC |
| `RingArithmetic`, `UringRing_proofs`, `GpuSvmDemo_proofs`, `CpuMtDemo_proofs`, `FlushDemo_proofs`, `HsaDiscovery_proofs`, `HsaPrograms_proofs`, `HelperCli_proofs` | theorems and proofs |

`GpuSvmDemo`, `CpuMtDemo` and `FlushDemo` extend `UringRing`; each adds who
calls and when. `Contract` in `GpuSvmDemo` and in `FlushDemo` is the refinement
mapping into `AsyncPrint`. Definitions commented *Faulty* are plausible mistakes in the
definition that follows them; no specification uses them. They serve to test
that each property notices a mistake in the code it is about.

## How the models correspond to the code

**Ring.** The steps of `uring_perror`:

| Action | gpu_svm_demo/src/uring_ctx.cpp |
|---|---|
| `Reserve` | 257, `sq_tail_cache.fetch_add` |
| `AwaitRoom` | 267-270, the wait loop (`WaitForRoom`; the experiments have only a TODO there) |
| `ZeroBuff`, `CopyMsg` | 275-278 |
| `ZeroSqe` | 281 |
| `BeginSqe`, `FillSqe` | 282-289, the first and the last of seven stores |
| `SetArray` | 292 |
| `Publish` | 295, release-store of the tail |

`pc`, `tail` and `msg` are the caller's program counter, local ticket and
argument. A message is a model value shorter than `MSG_BUF_SIZE`; a buffer or
an SQE holds a message or `Zero`, and an SQE may have only some of its fields
(`Half`). `Inc`, `Sub` and `Slot` are the unsigned increment, the unsigned
difference and the ring mask; `Wrap` stands for 2^32 and any multiple of the
number of entries larger than it will do.

A caller's release-store and the kernel's acquire-load order everything the
caller did before its `Publish`. Where one call is in progress at a time this is
all the ordering there has to be, and steps interleave in program order.
io_uring_cpu_mt, where it is not, is below. `lines` counts prints up to two:
zero, once, more than once.

**Kernel.** It is external, and modelled from how the code uses it: it fetches
one entry at a time in ring order (`FetchWrite`, or `FetchNop` for a zeroed
entry, whose opcode is a no-op; a half filled one may be either, and `Asked`
says what it may write), performs the write later, in any order, and reads the
buffer at that time (`PerformWrite`). If the buffer then no longer
holds the message, the text is `Garbled`. The polling thread may sleep when the
ring is empty (`PollerIdles`, if `MayIdle`). After a free the pool holds either
its old contents or nothing (`PoolAfterFree`).

**gpu_svm_demo.** `Script` is `main`'s sequence of calls, CPU or GPU. A target
region without `nowait` blocks the host, so `Call` waits until the previous
call has returned; the kernel stays concurrent. `BeginTeardown`, `FreePool` and
`Exit` are the wake-up, the end of `sleep(3)` with the frees, and the return.

**io_uring_cpu_mt.** A thread is named like its message. All threads may be
anywhere in `uring_perror` at once. A thread that stores the tail may thereby
hand the kernel entries of others, with lower tickets, and its release-store
orders its own stores only. So of the index, the entry and the buffer of a
thread that has not stored the tail yet (`Unready`) the kernel may see what is
there or what was there before, each by itself (`SeenIndex`, `SeenSqe`,
`SeenText`). Once the thread has stored the tail all its stores are taken to be
seen, whoever's tail store the kernel has read: stores become visible to all
observers at once, as on x86-64, where this program's threads run. The history
variable `overtaken` records whether a tail store has ever come before that of a
lower ticket; the code does not know it and nothing in it depends on it.
`Waker` is the detached thread; `Teardown` follows the joins at once, as the
completion loop is commented out.

**Flushing experiments.** A program is a record: whether its ring has a polling
thread (`sqpoll`), `main`'s calls in order (`script`), and at which of its flushes
`io_uring_enter` returns an error (`fails`); `Init` picks one of `Programs`.
Without a polling thread `poller` is `"polling"` exactly while `main` is inside
`io_uring_enter`, and at most `QUEUE_DEPTH` entries are taken per call. `FlushReturn` waits for a completion (`min_complete` is 1): always
with a polling thread; without one only if as many entries were taken as asked
for, as Linux does. `ShortWait` makes it wait after a short submission too.
`FlushFails` is the error: `main` goes on, nothing was taken or waited for, and a
polling thread may have been woken all the same. An `io_uring_enter` that has
taken entries does not return an error, so that a signal which ends the wait of
one without a polling thread is `FlushInterrupted`, a success that has waited for
nothing; with a polling thread, which takes the entries itself, it is an error.
`ReapLoad` and `ReapStore` are the read of the completion tail and the store of
the head in `uring_process_completions`. `SubmitNop` is the kernel taking an
entry that a later call, coming round the ring without a wait for room, is about
to overwrite. The GPU build of io_uring_cpu_mt is the
program with one call and nothing else: the loop in its kernel is no action, as
nothing waits for it and it waits for nothing.

**HSA programs.** An entry of a program says what a call gives, takes back and
needs, and what follows its failure: the process ends (`Checked`), `setup_uring`
returns -1 (`Returned`), nothing (`Ignored`); a call can fail of its own at any
time. `Touch` and `Kernel` stand for the program's accesses to memory from the
host and from the GPU; an access to what is not there may end in a crash. The
searches evaluate the translated callbacks on a machine, a sequence of agents
and two sequences of pools, and give nothing when they find nothing.
What an iteration finds is defined over the whole list of elements: those it
visits are the ones before which every callback succeeded, and `*out` is left by
the last of them that set it. That this is the runtime's loop is a theorem
(`IterateIsALoop`), and an assumption that `programs` evaluates on every list of
at most four callbacks.
svm_migration_cg has its own search and its handles are not initialised: a call
on a handle that was not found may crash. In io_uring_cpu_mt the rings are
mapped and locked one after the other, the completion ring included (it may be
the same mapping, which makes no difference to what fails). Capabilities are
pairs such as `Memory("msgs")` or `Registered("files")`; `Handle("up")` stands
for the return of 0 by `setup_uring`. The first agent HSA reports and the device that OpenMP
offloads to are taken to be the same, as the programs do.

**Helper.** `Invoke` starts `helper.py` on some command line and `Return` ends
it; `tree` and `clang` survive. So does the application's binary, but `run.sh`
makes it anew before each start, and it is no variable. There is one action per
command of the argument loop; `build` and `run` hand over to the steps of the scripts, in the order in
which `doing` goes through them. `StepFails` ends any step, as an error or an
interruption, and leaves what `HalfDone` says: a directory that was being
removed is there or unusable, an installation that was being written is partial.
`run` is gpu_svm_demo's: compile anew, then start.

## What each run checks

`demo`, `laps`, `threads`, `flush`, `programs` and `helper` pass; the other six
show a disagreement (below).

| Run | Instance | Properties |
|---|---|---|
| `demo` | `main`'s five calls, 5 buffers, 8 entries, counters modulo 32, polling thread may sleep, sleep long enough | `SubmitsInOrder`, `NoGarbledLine`, `PrintedOnce`, `WithinPool`, `TailAdvances`, refinement of `AsyncPrint` (`Prints`: safety, `PrintsAll`: with liveness), `EndsUp` |
| `laps` | six calls, 2 entries, counters modulo 4, polling thread may sleep, sleep too short | `SubmitsInOrder`, `NeverOverfull`, `PrintedOnce`, `TailAdvances`, `CallsReturn` |
| `threads` | two threads, 4 entries, 3 buffers, counters modulo 8 | `SlotExclusive`, `InOrderPrintsWhole`, `PublishedIsFilled`, `KernelCatchesUp` |
| `flush` | without a polling thread io_uring_gpu_no_poll and every program of at most five calls; with one three rounds, the GPU build of io_uring_cpu_mt and five calls without a flush, all with up to two failing flushes; nine rounds in a row; 4 entries, counters modulo 8 | `HeldUntilFlush`, `WholeLines`, `NeverReapsAhead`, `FlushSettles`, `RoundsPrintWhole`, `Prints`, `EndsUp`, `AllPrinted` |
| `programs` | the eight programs, all machines of at most 3 agents or 2 pools of a kind, any call failing | `ReadyMeansUsable`, `SharedWithTheGpu`, `BuffersAsNamed`, `SearchesComplete`, `NoCrash` |
| `helper` | any number of invocations, each with any command line of at most 4 arguments, any step failing or interrupted | `OptionsStayWithTheirBuild`, `BuiltBeforeNext` |

One passing run of each module also checks its `TypeOK`; a violation run checks
the one property it is about.

Why the bounds are enough:

- *Ring.* `demo` has as many buffers as calls, and the next power of two of
  entries, as the code has 12 and 16: the last call gets the last buffer, and one
  index too far leaves the pool. The reuse of an index and wrapping counters, which
  `main` does not reach, happen three times in `laps`. The safety properties of
  both are also proved for every size.
- *Threads.* The disorder of the ring is pairwise: a later ticket stored first,
  a store that overtakes another. Two threads show all of it. What holds is
  proved for any number of threads up to `QUEUE_DEPTH`; that they stay inside the
  pool (`WithinPool`), which two threads could not violate, is proved only.
- *Flush.* Nine rounds on four entries reuse every index and take counters
  modulo 8 all the way round. Five calls are enough for two batches with a
  flush that fails between them and for a flush with nothing to submit, three
  rounds for a completion that a failed flush has left unseen to end a later
  wait too early. Counters modulo 8 are enough as no program has eight calls
  outstanding. Its safety properties are proved for every set of programs.
- *Programs.* The first of two GPUs may be unusable, the last of two pools may
  replace the first; a third agent separates "first" from "last". The invariants
  are proved for machines of any size.
- *Helper.* Two builds with an option each take four arguments. The disk is in a
  few states only, all reached; its properties are proved for lines of any
  length.

`laps` stops being able to proceed when the ring is full and the polling
thread sleeps: `CHECK_DEADLOCK FALSE` there, and `CallsReturn` says that this is
the only such case. In `demo` a sleeping thread is harmless since five calls
never fill eight entries. In `no_poll_done` every flush waits, and one with
nothing outstanding waits for ever, hence no deadlock check.

## Fairness and assumptions

Weak fairness of each thread's and the GPU's steps (the operating system and
the device run what is runnable), of the kernel's fetch and of the performing
of writes, of the waker and of `main`. None is assumed of `PollerIdles`, a
timeout that may never expire, nor of a thread's call in `CpuMtDemo`, whose
random sleep need not end for `KernelCatchesUp`. `HsaPrograms` and `HelperCli`
have no fairness and no liveness property: a user may interrupt them anywhere.

- `DrainsInTime`: `sleep(3)` outlasts what the kernel still has to do, and the
  wake-up before it, which teardown_uring does not check, succeeds. The code
  guarantees neither; with `FALSE` (as in `laps`) lines may be garbled or
  lost at teardown and nothing about them is claimed.
- `MayIdle`: the run may outlast `sq_thread_idle`. `TRUE` in every run; the code
  sets it to `UINT_MAX / 1000`, in milliseconds. Whether there is a polling
  thread at all is a fact of the program, not a constant.
- `InRounds`: the program has a polling thread and follows each call by a flush
  and by the processing of completions, as io_uring_svm_cpu_only does, and does
  not write past the pool. `SureRounds`: and no flush fails, for a program whose
  `io_uring_enter` fails has not waited and gets no second chance: it frees the
  pool and exits, and may lose or garble its message. `OwnRounds`: and its
  messages differ.
- `BatchesFit`: between two flushes that succeed there are at most `QUEUE_DEPTH`
  calls, as many as one `io_uring_enter` is asked to take.
- A successful `io_uring_enter` takes all the entries there are, up to the number
  it was asked for.
- `InOrderPrintsWhole` and `PublishedIsFilled` are about executions in which the
  threads have stored the tail in the order of their tickets so far. Nothing makes
  them; `threads_tail` shows what happens otherwise, and on the way to its end the
  kernel may fetch an entry that is empty or half filled.
- `ShortScript` (`Len(Script) <= QUEUE_DEPTH`) and `FewThreads`: the programs
  print no more messages than there are buffers. Longer scripts can write past
  the pool (the index ranges over 16 positions) and can reuse a buffer whose
  write is in flight; the code has no protection and the properties that need
  the assumption say so.
- Asserts are compiled in.

## What is proved

All proofs are checked by tlapm; nothing is assumed but the `ASSUME`s of the
modules (entries divide the counter range, no more buffers than entries,
messages of a script distinct).

| Theorem | Statement | For |
|---|---|---|
| `GpuSvmDemo_proofs!TypeCorrect` | `[]TypeOK` | every script, size and width |
| `OrderCorrect` | `[]SubmitsInOrder` | every script |
| `RoomCorrect` | `[]NeverOverfull` | every script |
| `TailCorrect` | `TailAdvances` | every script |
| `PoolCorrect` | `[]WithinPool` | short scripts |
| `LinesCorrect` | `[]NoGarbledLine` | short scripts, sleep long enough |
| `OnceCorrect` | `[]PrintedOnce` | the same |
| `PrintsCorrect` | `Prints`: refinement of `AsyncPrint`'s safety | the same |
| `CpuMtDemo_proofs!TypeCorrect` | `[]TypeOK` | any number of threads |
| `SlotsCorrect`, `PoolCorrect` | `[]SlotExclusive`, `[]WithinPool` | at most `QUEUE_DEPTH` threads |
| `LinesCorrect`, `FilledCorrect` | `[]InOrderPrintsWhole`, `[]PublishedIsFilled` | at most `QUEUE_DEPTH` threads |
| `FlushDemo_proofs!TypeCorrect` | `[]TypeOK` | every set of programs |
| `HeldCorrect` | `[]HeldUntilFlush` | programs whose batches fit, any flush failing |
| `ReapCorrect` | `[]NeverReapsAhead` | every program, any flush failing |
| `SettlesCorrect` | `[]FlushSettles` | programs in rounds, any flush failing |
| `RoundsCorrect` | `[]RoundsPrintWhole` | programs in rounds whose flushes succeed |
| `PrintsCorrect` | `Prints`: refinement of `AsyncPrint`'s safety | the same, messages distinct |
| `LinesCorrect` | `[]WholeLines` | programs of at most `QUEUE_DEPTH` calls, any flush failing |
| `HsaDiscovery_proofs!IterateIsALoop` | the searches compute what the loop of callbacks does | lists of any length |
| `HsaPrograms_proofs!TypeCorrect` | `[]TypeOK` | every set of machines, of any size |
| `ReadyCorrect`, `CrashCorrect` | `[]ReadyMeansUsable`, `[]NoCrash` | the same |
| `SharedCorrect`, `BuffersCorrect`, `SearchesCorrect` | `[]SharedWithTheGpu`, `[]BuffersAsNamed`, `[]SearchesComplete` | the same |
| `HelperCli_proofs!TypeCorrect` | `[]TypeOK` | every set of command lines |
| `OptionsCorrect`, `BuiltCorrect` | `[]OptionsStayWithTheirBuild`, `[]BuiltBeforeNext` | the same |

The argument:

- `RingArithmetic` has the facts about remainders on which everything rests:
  the increment and the difference of counters cancel, a difference below
  `Entries` identifies a slot, two tickets less than `Entries` apart have
  different slots even across a wrap.
- `UringRing_proofs` shows types to be preserved by each action and has lemmas
  on tickets, pending entries and the pool.
- *Order.* `SubmitsInOrder` is not inductive: it says nothing of the entry
  being written. `IInv` adds that `sq_tail_cache` is the tail, or the tail plus
  one while a call is in progress, that the ticket of that call is the tail,
  that the number of pending entries is at most `Entries` and strictly less
  once the call has passed its wait, and what each stage of the call has
  already written. A write then goes to a slot outside the pending ones, and
  `Publish` extends them by a complete entry.
- *Lines.* `TicketInv` ties tickets to positions in the script: with a short
  script the first `Len(Script)` tickets never wrap and indices are never
  reused. `PrintInv` says that each in-flight write's buffer holds its message
  while the pool is there, that a message is in flight or printed exactly if
  its entry was fetched, never both, and that nothing is left once the sleep
  ended. The refinement follows: a publishing step is `Post`, a performed
  write `Show`, the free of the pool `Close`, everything else stutters.
- *Threads.* Tickets are handed out as 0, 1, 2, ... while there are at most
  `QUEUE_DEPTH` threads, whatever happens to the tail. Hence indices differ and
  stay in the pool. For `InOrderPrintsWhole` and `PublishedIsFilled` three invariants hold as long as no
  thread has overtaken another and `main` runs: the tail separates the tickets of
  the threads that are ready from those of the others (`TailInv`), every thread
  finds what it has stored at its own index (`EntryInv`), and each write in
  flight and each line printed belongs to a thread whose entry was fetched,
  never both (`OutputInv`). What the kernel may not see of unready threads lies
  above the tail then, where it does not look.
- *Flushing.* In all of these programs one call is in progress at a time
  (`OneCallInv`): its ticket is the tail, and between calls `sq_tail_cache` is
  the tail. `StageInv` is what that call has written so far. On top of them
  - `ReapInv` counts: completions unseen plus writes in flight never exceed the
    calls the kernel has taken, also for the tail that a reap in progress has
    read; each kernel step moves both sides together, and a counter that wraps
    only makes the left side smaller.
  - `RoundInv` follows a program in rounds through its seven stages. The last
    call's entry is queued, its write under way or its completion posted, and
    no other: since the head was stored in the round before, a completion that
    `uring_flush` finds can only be that one. Hence nothing is left at teardown.
    It is about rounds whose flushes succeed.
  - `SettleInv` is about all rounds and only counts: entries queued, writes under
    way and completions unseen are together at most one more than the flushes
    that have failed, and not more than those once a round is over. A call adds
    one, a flush that has waited knows one of them to be a completion, the reap
    takes the completions away, and a failed flush is what allows for one more.
  - `PrintInv` adds what each message's line count is: one if it was handed over
    and does not wait in the ring or in flight, else zero. A publishing step is
    then `Post`, a performed write `Show`, the teardown `Close`, everything else
    a stutter.
  - `LinesInv` is about programs of at most `QUEUE_DEPTH` calls: tickets never
    wrap, every position below the tail stays filled with its own message.
  - `HeldInv` names the position after the last flush that has succeeded: the
    kernel has taken the calls before it, plus those that the flush in progress
    has submitted. A batch that fits `QUEUE_DEPTH` is taken whole, as the flush
    returns only when the ring is empty or that many were taken.
- *Searches.* A nonempty set of positions has a first and a last, which follows
  from the well-foundedness of the natural numbers and takes the place of an
  induction over the list. What a search leaves is then a position whose
  callback set it and before which every callback succeeded; for get_agent these
  are agents of another kind, for the pools merely readable ones.
- *HSA programs.* `HsaPrograms_proofs` has a small logic of calls.
  `Establishes(P, s, Q)` says that the list `s` can be annotated from `P` to `Q`
  with what is known before each call: a checked call adds what it gives and
  what it needed, an ignored one and a search add nothing, a free takes away.
  What a call demands, the memory it uses, everything `Usable` when set-up
  returns, the handle given back before a free, must be in the annotation before
  it. It composes over concatenation, so that the lists are annotated part by
  part, as the code is written: `SetupUring`, `TeardownUring` and `GpuMain` once
  for all the programs that share them. The invariant adds to types that
  - the annotation at the call that the program has come to holds (`Known`), of
    every program but svm_migration_cg, which has none: its kernel may use memory
    that the unchecked call did not make accessible;
  - a handle is held only if its search found something, and memory only if its
    pool is (`Origins`);
  - a search that was passed has given its handle if it found something, and no
    call takes it away again (`Searched`), svm_migration_cg's included.
  An access finds its memory in the annotation and cannot crash; the other
  properties follow from `Origins`, `Searched` and the lemmas on searches: a search
  finds something exactly if something is there to be found, or, for
  svm_migration_cg's, is there before the first GPU that runs no kernels.
- *Helper.* The script's own progress (`doing`) says what the disk must be like
  at each step: configured between `cmake` and `build`, installed when it has
  ended; a failure leaves the loop, so that only a build that went through all
  its steps lets the next command start. What is asked of a build stands in
  `argv`, which the loop fills from the options behind that `build` and no
  others; the proof needs that the positions of those options are an interval.

Only model-checked: liveness (`PrintsAll`, `EndsUp`, `CallsReturn`,
`KernelCatchesUp`, `AllPrinted`), which is beyond the prover. Every invariant and
every action property of the passing runs is proved.

## Where code and documentation disagree

| Run | Property | What happens |
|---|---|---|
| `threads_tail` | `TailNeverRetreats` | "publish and advance" (line 163), but the earlier ticket's store may come last and move the tail back; the later one's has then published an entry that nobody had finished filling |
| `threads_heard` | `EveryThreadHeard` | `src/exp_LOGS.md` shows every line; `main` joins threads, not messages, and exits |
| `no_poll_done` | `AllCompleted` | "ensure all outstanding io_uring operations have completed" (exp/io_uring_gpu_no_poll/src/main_demo_target.cpp:129); a completion already posted, or no wait at all, lets the flush return with writes outstanding. The instance is the favourable one, in which every flush waits |
| `device_build` | `NoGarbledLine` | "if we do not wait the text turns into garbage" (exp/io_uring_cpu_mt/src/uring_device.c:16); the loop there orders nothing, `main` frees the message buffer as soon as the kernel has returned |
| `svm_coarse` | `CoarseTimingIsCoarse` | "coarse-grained GPU allocation" (`src/README.md`:32); the pool is searched with the fine-grained flag, on the host (exp/svm_migration_cg/svm_api_test.cpp:160) |
| `helper_cmake` | `RunCmakeHonoured` | "Only run CMake if RUNCMAKE flag is set" (sh-scripts/build_llvm.sh:97); the flag is read from the second argument, where helper.py puts it only together with `--clean`. After an interruption that left no configuration, only `--clean` helps |

## What is not modelled

- *Contents*: lengths, formatting, measured times, and the over-long length at
  exp/io_uring_gpu_no_poll/src/main_demo_target.cpp:109, where the copy reads
  past a literal.
- *Weak memory* inside one `uring_perror`: the release-store is taken to order
  what precedes it, on the GPU as on the CPU. What another thread's tail store
  publishes too early is modelled (`CpuMtDemo`); that stores become visible to
  different observers in different orders is not.
- *Fields of an SQE*: one state, `Half`, stands for all that has some of the
  seven stores. A kernel that meets it prints nothing, the message, or garbage.
- *Errors of `io_uring_enter`* in the waker of io_uring_cpu_mt, which calls it
  again a millisecond later.
- *Completion queue* in gpu_svm_demo and io_uring_cpu_mt: nothing reads it, and
  it has room for twice the entries. io_uring_cpu_mt's
  `uring_process_completions` is never called.
- *Who sees which store when* in svm_target_edit_buffer and the benchmarks: host
  and kernels use a buffer in turn, and a target region ends before the host
  goes on. Which memory they get, and whether they may access it, is modelled.
- *Environment*: the variables that set_env.sh and the `run.sh` scripts export.
  io_uring_cpu_mt's `run.sh` keeps a CMake build directory, and the benchmarks'
  start a debugger or `a.out`; the model has gpu_svm_demo's.
- *ninja and file-build* run in the installation directory
  (`src/helper.py`:53), where no build file is made by anything here; the model
  lets them succeed or fail.
- *omp_deviceptr_demo*: one target region, one state.
- *get-pip.py*: pip's own generated installer. Of its 28,840 lines about 28,700
  are one encoded archive, and nothing in the repository runs it: its only call
  (`src/sh-scripts/build_llvm.sh`:93) is commented out. It is most of the Python
  lines here, so that the share of them that has a model is small and will stay
  so; the programs that carry the repository's purpose are C and C++.

## What remains

The plan's order was the importance to the system: the demo with its contract
and proofs (`UringRing`, `GpuSvmDemo`, `AsyncPrint`), concurrent callers
(`CpuMtDemo`), completions and flushes (`FlushDemo`), the set-up and the other
programs (`HsaDiscovery`, `HsaPrograms`), the build (`HelperCli`), then the
proofs in the same order. All of it exists. What could still be done:

1. A weaker memory for the accesses of the GPU, to say which of the fences in
   `uring_perror` are needed; the sources do not say what the device promises.
2. io_uring_cpu_mt's `run.sh` with its CMake directory in `HelperCli`.

## Running it

    tlc -config GpuSvmDemo.cfg MCGpuSvmDemo.tla
    tlapm GpuSvmDemo_proofs.tla

The longest run takes about half a minute, the proofs together a few minutes.
