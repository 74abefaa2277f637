----------------------------- MODULE HsaPrograms -----------------------------
(***************************************************************************)
(* The programs of application/ as lists of calls, from the first call of  *)
(* main to the last: what each call acquires or gives back, what it cannot *)
(* do without, and what the code does when it fails.                       *)
(*                                                                         *)
(* A discovery that finds nothing is no error to get_agent and             *)
(* get_agent_memory_pool: the program goes on with a null handle, which    *)
(* the HSA runtime refuses in a later call.  svm_migration_cg does not     *)
(* initialise its handles: there the later call may be refused or crash.   *)
(***************************************************************************)
EXTENDS HsaDiscovery

\* A capability is a pair: a kind and what it is of.
Handle(x)     == <<"handle", x>>
Memory(x)     == <<"memory", x>>
Accessible(x) == <<"accessible", x>>  \* from the GPU
Registered(x) == <<"registered", x>>

Buffers ==
  {"ctx", "ring", "cq", "sqes", "msgs", "buf", "svm", "cg", "fg", "dev_ret", "rpc"}
Pools   == {"pool", "vram"}

Entry(call, gives, drops, needs, failure) ==
  [call |-> call, gives |-> gives, drops |-> drops, needs |-> needs,
   failure |-> failure]

\* handle_error and assert end the process.
Checked(call, gives, needs) == Entry(call, {gives}, {}, needs, "aborted")

\* setup_uring returns -1 and main returns 1.
Returned(call, gives, needs) == Entry(call, {gives}, {}, needs, "returned")

\* The failure is at most reported and the program goes on.
Ignored(call, gives, needs) == Entry(call, gives, {}, needs, "running")

\* The host reads or writes memory: that works or it crashes.
Touch(xs) == Entry("access", {}, {}, {Memory(x) : x \in xs}, "crashes")

\* A target region accesses memory from the GPU.
Kernel(xs) == Entry("kernel", {}, {}, {Accessible(x) : x \in xs}, "aborted")

Free(x, failure) ==
  Entry("free", {}, {Memory(x), Accessible(x)}, {Memory(x)}, failure)

-----------------------------------------------------------------------------
(* What the programs have in common.                                       *)

FindGpu  == <<Checked("get_agent_gpu", Handle("gpu"), {Handle("hsa")})>>
FindCpu  == <<Checked("get_agent_cpu", Handle("cpu"), {Handle("hsa")})>>
FindPool == <<Checked("get_pool", Handle("pool"), {Handle("cpu")})>>

Discover == <<Checked("hsa_init", Handle("hsa"), {})>> \o FindGpu \o FindCpu \o FindPool

\* Faulty: hsa_amd_agents_allow_access is not checked.
Allocated_Unchecked(x, pool) ==
  <<Checked("allocate", Memory(x), {Handle(pool)}),
    Ignored("allow_access", {Accessible(x)}, {Handle("gpu"), Memory(x)})>>

Allocated(x, pool) ==
  <<Checked("allocate", Memory(x), {Handle(pool)}),
    Checked("allow_access", Accessible(x), {Handle("gpu"), Memory(x)})>>

\* Nothing that follows depends on the memory being locked.
Region(x) ==
  Allocated(x, "pool") \o <<Touch({x}), Ignored("mlock", {}, {Memory(x)})>>

\* The kernel refuses ring memory that is not there (IORING_SETUP_NO_MMAP).
OpenRing ==
  <<Returned("io_uring_setup", Handle("ring_fd"), {Memory("ring"), Memory("sqes")}),
    Returned("register", Registered("files"), {Handle("ring_fd")})>>

RegisterPool ==
  <<Returned("register", Registered("buffers"), {Handle("ring_fd"), Memory("msgs")})>>

WakePoller == <<Ignored("io_uring_enter", {}, {Handle("ring_fd")})>>

\* setup_uring: the caller's handle "up" stands for its return value 0.
SetupUring(wake) ==
  Discover \o Region("ring") \o Region("sqes") \o OpenRing
    \o Region("msgs") \o RegisterPool \o wake
    \o <<Checked("return 0", Handle("up"), {})>>

TeardownUring(wake) ==
  <<Entry("teardown_uring", {}, {Handle("up")}, {}, "aborted")>> \o wake
    \o <<Free("msgs", "running"), Free("ring", "running"), Free("sqes", "running")>>

Shared == {"ctx", "ring", "sqes", "msgs"}

\* main allocates the context itself.  It runs a kernel between its calls.
GpuMain(setup, teardown) ==
  Discover \o Allocated("ctx", "pool") \o <<Touch({"ctx"})>>
    \o setup \o <<Touch(Shared), Kernel(Shared), Touch(Shared)>> \o teardown
    \o <<Free("ctx", "running"), Ignored("hsa_shut_down", {}, {})>>

\* io_uring_cpu_mt: the kernel's rings are mapped, and locked for the GPU.
\* The completion ring may share the mapping of the submission ring.
Mapped(x) ==
  <<Checked("mmap", Memory(x), {Handle("ring_fd")}),
    Checked("memory_lock", Accessible(x), {Handle("hsa"), Memory(x)})>>

\* The descriptor is checked after it was used to register the files.
CpuMtSetup ==
  <<Checked("hsa_init", Handle("hsa"), {}),
    Ignored("io_uring_setup", {Handle("ring_fd")}, {}),
    Checked("register", Registered("files"), {Handle("ring_fd")}),
    Checked("assert_fd", Handle("asserted"), {Handle("ring_fd")})>>
    \o Mapped("ring") \o Mapped("cq") \o Mapped("sqes") \o WakePoller
    \o <<Checked("aligned_alloc", Memory("msgs"), {}),
         Touch({"msgs"}),
         Checked("memory_lock", Accessible("msgs"), {Handle("hsa"), Memory("msgs")}),
         Checked("register", Registered("buffers"), {Handle("ring_fd"), Memory("msgs")}),
         Checked("return 0", Handle("up"), {})>>

\* The mapped rings, the descriptor and the registrations stay until exit.
CpuMtTeardown ==
  <<Entry("teardown_uring", {}, {Handle("up")}, {}, "aborted"),
    Free("msgs", "running")>>

\* The benchmarks rely on the OpenMP runtime to have initialised HSA.
OmpStart == <<Ignored("omp_start", {Handle("hsa")}, {})>>

SvmQueries ==
  <<Checked("get_svm_supported", Handle("svm_supported"), {Handle("hsa")}),
    Checked("get_svm_default", Handle("svm_default"), {Handle("hsa")})>>

MapSvm ==
  <<Checked("mmap", Memory("svm"), {}),
    Checked("svm_attributes_set", Accessible("svm"), {Handle("gpu"), Memory("svm")})>>

\* The int that stands for a return value is set to zero, unchecked.
DevReturn(pool) ==
  <<Checked("allocate", Memory("dev_ret"), {Handle(pool)}),
    Ignored("memory_fill", {}, {Memory("dev_ret")}),
    Checked("allow_access", Accessible("dev_ret"), {Handle("gpu"), Memory("dev_ret")})>>

\* Faulty: every buffer comes from the fine-grained pool.
BenchmarkBuffers_OnePool ==
  Allocated("cg", "pool") \o DevReturn("pool")
    \o Allocated("fg", "pool") \o Allocated("rpc", "pool")

\* svm_migration_fg.
BenchmarkBuffers ==
  Allocated("cg", "vram") \o DevReturn("vram")
    \o Allocated("fg", "pool") \o Allocated("rpc", "pool")

\* gpu_svm_demo.
GpuSvmDemo == GpuMain(SetupUring(WakePoller), TeardownUring(WakePoller))

\* io_uring_gpu_no_poll has no polling thread to wake.
GpuNoPoll == GpuMain(SetupUring(<<>>), TeardownUring(<<>>))

\* io_uring_svm_cpu_only: the context is static and no kernel runs.
SvmCpuOnly ==
  SetupUring(WakePoller) \o <<Touch(Shared \ {"ctx"})>> \o TeardownUring(<<>>)

\* io_uring_cpu_mt, and its GPU build.
CpuMt    == CpuMtSetup \o <<Touch(Shared \ {"ctx"})>> \o CpuMtTeardown
CpuMtGpu == CpuMtSetup \o <<Kernel(Shared \ {"ctx"})>> \o CpuMtTeardown

SvmTargetEditBuffer ==
  Discover \o Allocated("buf", "pool")
    \o <<Touch({"buf"}), Kernel({"buf"}), Touch({"buf"}),
         Free("buf", "running"), Ignored("hsa_shut_down", {}, {})>>

\* Access to the allocated buffer is asked for and not checked.
SvmMigrationCg ==
  OmpStart
    \o <<Checked("get_first_agent_gpu", Handle("gpu"), {Handle("hsa")})>>
    \o FindCpu \o FindPool
    \o <<Checked("get_granule", Handle("granule"), {Handle("pool")})>>
    \o SvmQueries \o MapSvm
    \o <<Checked("svm_prefetch", Handle("prefetched"), {Handle("gpu"), Memory("svm")}),
         Checked("allocate", Memory("cg"), {Handle("pool")}),
         Ignored("allow_access", {Accessible("cg")}, {Handle("gpu"), Memory("cg")}),
         Kernel({"svm"}), Kernel({"cg"}), Free("cg", "aborted"), Touch({"svm"})>>

SvmMigrationFg ==
  OmpStart \o FindGpu \o FindCpu
    \o <<Checked("get_kernargs", Handle("kernargs"), {Handle("cpu")})>>
    \o FindPool
    \o <<Checked("get_vram", Handle("vram"), {Handle("gpu")}),
         Checked("get_alloc_allowed", Handle("alloc_ok"), {Handle("pool")})>>
    \o SvmQueries \o MapSvm \o BenchmarkBuffers
    \o <<Kernel({"svm"}), Kernel({"cg"}), Kernel({"fg"})>>
    \o <<Free("cg", "aborted"), Free("fg", "aborted"),
         Free("dev_ret", "aborted"), Free("rpc", "aborted"), Touch({"svm"})>>

Calls ==
  [gpu_svm_demo           |-> GpuSvmDemo,
   io_uring_gpu_no_poll   |-> GpuNoPoll,
   io_uring_svm_cpu_only  |-> SvmCpuOnly,
   io_uring_cpu_mt        |-> CpuMt,
   io_uring_cpu_mt_gpu    |-> CpuMtGpu,
   svm_target_edit_buffer |-> SvmTargetEditBuffer,
   svm_migration_cg       |-> SvmMigrationCg,
   svm_migration_fg       |-> SvmMigrationFg]

-----------------------------------------------------------------------------

VARIABLES
  program,  \* the program that runs
  machine,  \* what the HSA runtime can find
  at,       \* the next of the program's calls
  held,     \* what it has acquired
  outcome   \* running, finished, returned, aborted or crashed

vars == <<program, machine, at, held, outcome>>

Init ==
  /\ program \in DOMAIN Calls
  /\ machine \in Machines
  /\ at = 1
  /\ held = {}
  /\ outcome = "running"

\* The program makes its next call.
Calling(e) ==
  /\ outcome = "running"
  /\ at <= Len(Calls[program])
  /\ e = Calls[program][at]

\* The calls that look for something, and what they find.
Search ==
  [get_agent_gpu       |-> get_agent("gpu", machine.agents),
   get_first_agent_gpu |-> get_first_agent("gpu", machine.agents),
   get_agent_cpu       |-> get_agent("cpu", machine.agents),
   get_pool            |-> get_agent_memory_pool("fine", machine.pools),
   get_kernargs        |-> get_agent_memory_pool("kernarg", machine.pools),
   get_vram            |-> get_agent_memory_pool("coarse", machine.vram)]

Searches == DOMAIN Search

\* Faulty: the call after it is left out.
Acquire_SkipsNext(e) ==
  /\ Calling(e)
  /\ e.call \notin Searches
  /\ e.needs \subseteq held
  /\ held' = (held \ e.drops) \union e.gives
  /\ at' = at + 2
  /\ UNCHANGED <<program, machine, outcome>>

Acquire(e) ==
  /\ Calling(e)
  /\ e.call \notin Searches
  /\ e.needs \subseteq held
  /\ held' = (held \ e.drops) \union e.gives
  /\ at' = at + 1
  /\ UNCHANGED <<program, machine, outcome>>

\* Finding nothing is no error and leaves a null handle.
Find(e) ==
  /\ Calling(e)
  /\ e.call \in Searches
  /\ e.needs \subseteq held
  /\ NoError(Search[e.call])
  /\ held' = IF Search[e.call].out = Null THEN held ELSE held \union e.gives
  /\ at' = at + 1
  /\ UNCHANGED <<program, machine, outcome>>

\* Faulty: a failing registration is only reported.
CallFails_Reported(e) ==
  /\ Calling(e)
  /\ e.failure # "crashes"
  /\ outcome' = IF e.call = "register" THEN "running" ELSE e.failure
  /\ at' = at + 1
  /\ UNCHANGED <<program, machine, held>>

\* A call fails, of its own or for want of what it needs.
CallFails(e) ==
  /\ Calling(e)
  /\ e.failure # "crashes"
  /\ outcome' = e.failure
  /\ at' = at + 1
  /\ UNCHANGED <<program, machine, held>>

\* svm_migration_cg's handles, which nothing has set yet.
Uninitialised == {Handle(x) : x \in {"gpu", "cpu", "pool"}} \ held

\* Memory that is not there, or not accessible, or a handle that is garbage.
Crash(e) ==
  /\ Calling(e)
  /\ \/ e.call \in {"access", "kernel"} /\ ~(e.needs \subseteq held)
     \/ program = "svm_migration_cg" /\ e.needs \intersect Uninitialised # {}
  /\ outcome' = "crashed"
  /\ UNCHANGED <<program, machine, at, held>>

Finish ==
  /\ outcome = "running"
  /\ at > Len(Calls[program])
  /\ outcome' = "finished"
  /\ UNCHANGED <<program, machine, at, held>>

Ended == outcome # "running" /\ UNCHANGED vars

Next ==
  \/ \E e \in Range(Calls[program]) : Acquire(e) \/ Find(e) \/ CallFails(e) \/ Crash(e)
  \/ Finish
  \/ Ended

Spec == Init /\ [][Next]_vars

-----------------------------------------------------------------------------

Capabilities ==
  {Handle(x) : x \in {"hsa", "gpu", "cpu", "ring_fd", "asserted", "up", "granule",
                      "svm_supported", "svm_default", "prefetched", "kernargs",
                      "alloc_ok"} \union Pools}
    \union {Memory(x) : x \in Buffers}
    \union {Accessible(x) : x \in Buffers}
    \union {Registered(x) : x \in {"files", "buffers"}}

(* Every variable stays in its range. *)
TypeOK ==
  /\ program \in DOMAIN Calls
  /\ machine \in Machines
  /\ at \in 1 .. Len(Calls[program]) + 1
  /\ held \subseteq Capabilities
  /\ outcome \in {"running", "finished", "returned", "aborted", "crashed"}

\* What uring_perror and the kernel use.
Usable ==
  {Handle("ring_fd"), Registered("files"), Registered("buffers")}
    \union {Memory(x) : x \in {"ring", "sqes", "msgs"}}
    \union {Accessible(x) : x \in {"ring", "sqes", "msgs"}}

(* From the return of setup_uring to the call of teardown_uring a caller   *)
(* may print: everything that takes is there, although mlock, the wake-up  *)
(* and, in io_uring_cpu_mt, io_uring_setup go unchecked, and a search that *)
(* finds no GPU, CPU or pool reports success.                              *)
ReadyMeansUsable ==
  Handle("up") \in held => Usable \subseteq held

Finds(search) == Search[search].out # Null

(* Memory a GPU gets access to is shared with the first agent that can run *)
(* a kernel and with no other.                                             *)
SharedWithTheGpu ==
  Handle("gpu") \in held /\ (\E x \in Buffers : Accessible(x) \in held) =>
    LET gpu == Search["get_agent_gpu"].out
    IN
    /\ gpu # Null /\ machine.agents[gpu] = "gpu"
    /\ \A i \in 1 .. gpu - 1 : machine.agents[i] # "gpu"
    /\ program = "svm_migration_cg" => Search["get_first_agent_gpu"].out = gpu

(* The grain of the pool that buffer x is allocated from.                  *)
Grain(x) ==
  LET allocation == CHOOSE e \in Range(Calls[program]) :
                      e.call = "allocate" /\ Memory(x) \in e.gives
  IN IF Handle("vram") \in allocation.needs
     THEN Flags(machine.vram[Search["get_vram"].out])
     ELSE Flags(machine.pools[Search["get_pool"].out])

\* allocate was called for x and succeeded.
IsAllocated(x) ==
  /\ Memory(x) \in held
  /\ \E e \in Range(Calls[program]) : e.call = "allocate" /\ Memory(x) \in e.gives

(* What the host and the GPU share is in fine-grained memory, where each   *)
(* sees the other's stores, and svm_migration_fg times each kind of memory *)
(* under its name: "Coarse-grained VRAM", "Fine-grained host".             *)
BuffersAsNamed ==
  /\ \A x \in {"ctx", "ring", "sqes", "msgs", "buf", "fg", "rpc"} :
       IsAllocated(x) => "fine" \in Grain(x)
  /\ program = "svm_migration_fg" =>
       \A x \in {"cg", "dev_ret"} : IsAllocated(x) => "coarse" \in Grain(x)

(* svm_migration_cg compares a migrated page with a "coarse-grained GPU    *)
(* allocation" (README.md:32), printed as "Coarsegrained timing".          *)
CoarseTimingIsCoarse ==
  program = "svm_migration_cg" /\ IsAllocated("cg") => "coarse" \in Grain("cg")

\* The program runs on after a search.
GoneOn(search) ==
  /\ outcome \in {"running", "finished"}
  /\ \E i \in 1 .. at - 1 : Calls[program][i].call = search

(* A null handle is no error to the programs, and so a program runs on     *)
(* after a search whatever it found: it then has a handle exactly if the   *)
(* machine has what it looked for, wherever among the others.  Only        *)
(* svm_migration_cg, whose search any GPU ends, misses the GPU behind one  *)
(* that runs no kernels.                                                   *)
SearchesComplete ==
  /\ GoneOn("get_agent_gpu") =>
       (Handle("gpu") \in held <=> "gpu" \in Range(machine.agents))
  /\ GoneOn("get_first_agent_gpu") =>
       (Handle("gpu") \in held <=>
          \E n \in DOMAIN machine.agents :
            /\ machine.agents[n] = "gpu"
            /\ \A i \in 1 .. n - 1 : machine.agents[i] # "gpu_no_dispatch")
  /\ GoneOn("get_agent_cpu") =>
       (Handle("cpu") \in held <=> "cpu" \in Range(machine.agents))
  /\ GoneOn("get_pool") =>
       (Handle("pool") \in held <=>
          Range(machine.pools) \intersect {"fine", "kernarg_fine"} # {})
  /\ GoneOn("get_vram") =>
       (Handle("vram") \in held <=> "coarse" \in Range(machine.vram))

(* Whatever fails, no program but svm_migration_cg goes on to use memory   *)
(* it was not given, the GPU may not access, or it has freed: the checks   *)
(* that are there suffice for the searches and calls that are unchecked.   *)
NoCrash ==
  outcome = "crashed" => program = "svm_migration_cg"

=============================================================================
