------------------------- MODULE HsaPrograms_proofs -------------------------
(***************************************************************************)
(* Proofs about HsaPrograms, for every set of machines.                    *)
(***************************************************************************)
EXTENDS HsaPrograms, HsaDiscovery_proofs, SequenceTheorems

-----------------------------------------------------------------------------
(* Every call of a program is of this form.                                *)

Programs == DOMAIN Calls

\* The calls that find a GPU, in each program.
GpuSearch(p) == IF p = "svm_migration_cg" THEN "get_first_agent_gpu" ELSE "get_agent_gpu"

\* The buffers a program would allocate from a pool, and from which.
AllocatedIn(p) ==
  IF p \in {"io_uring_cpu_mt", "io_uring_cpu_mt_gpu"} THEN {} ELSE Buffers \ {"svm", "cq"}

PoolOf(p, x) ==
  IF p = "svm_migration_fg" /\ x \in {"cg", "dev_ret"} THEN "vram" ELSE "pool"

\* The searches whose handle is used, the handle each is for, and the
\* other calls.
SearchNames ==
  {"get_agent_gpu", "get_first_agent_gpu", "get_agent_cpu", "get_pool", "get_vram"}

SoughtBy(call) ==
  CASE call \in {"get_agent_gpu", "get_first_agent_gpu"} -> "gpu"
    [] call = "get_agent_cpu" -> "cpu"
    [] call = "get_pool" -> "pool"
    [] call = "get_vram" -> "vram"

Sought == {"gpu", "cpu", "pool", "vram"}

CallNames ==
  {"hsa_init", "hsa_shut_down", "omp_start", "get_kernargs", "get_alloc_allowed",
   "get_granule", "get_svm_supported", "get_svm_default", "allocate", "allow_access",
   "memory_fill", "free", "access", "kernel", "mmap", "aligned_alloc", "mlock",
   "memory_lock", "svm_attributes_set", "svm_prefetch", "io_uring_setup", "register",
   "io_uring_enter", "assert_fd", "return 0", "teardown_uring"}

EntryType ==
  [call : CallNames \union SearchNames, gives : SUBSET Capabilities, drops : SUBSET Capabilities,
   needs : SUBSET Capabilities, failure : {"running", "aborted", "returned", "crashes"}]

\* Handles come from a search of their own, memory that is allocated from
\* the pool it should come from.
WellFormed(p, e) ==
  /\ e.gives = {} \/ e.drops = {}
  /\ \A x \in Sought : Handle(x) \in e.gives => e.call \in SearchNames
  /\ \A x \in Sought : Handle(x) \notin e.drops
  /\ e.call \in SearchNames =>
       /\ e.gives = {Handle(SoughtBy(e.call))}
       /\ e.failure = "aborted"
       /\ SoughtBy(e.call) = "gpu" => e.call = GpuSearch(p)
  /\ \A x \in Buffers : Memory(x) \in e.gives =>
       IF x \in AllocatedIn(p)
       THEN e.call = "allocate" /\ e.needs = {Handle(PoolOf(p, x))}
       ELSE e.call # "allocate"
  /\ p = "svm_migration_cg" => Handle("up") \notin e.gives

EntriesOf(p) == {e \in EntryType : WellFormed(p, e)}

LEMMA Differ ==
  /\ \A x, y : Handle(x) = Handle(y) <=> x = y
  /\ \A x, y : Memory(x) = Memory(y) <=> x = y
  /\ \A x, y : Accessible(x) = Accessible(y) <=> x = y
  /\ \A x, y : Registered(x) = Registered(y) <=> x = y
  /\ \A x, y : Handle(x) # Memory(y) /\ Handle(x) # Accessible(y) /\ Handle(x) # Registered(y)
  /\ \A x, y : Memory(x) # Accessible(y) /\ Memory(x) # Registered(y)
  /\ \A x, y : Accessible(x) # Registered(y)
  BY DEF Handle, Memory, Accessible, Registered

LEMMA InCapabilities ==
  /\ \A x \in {"hsa", "gpu", "cpu", "ring_fd", "asserted", "up", "granule", "svm_supported",
               "svm_default", "prefetched", "kernargs", "alloc_ok", "pool", "vram"} :
       Handle(x) \in Capabilities
  /\ \A x \in Buffers : Memory(x) \in Capabilities /\ Accessible(x) \in Capabilities
  /\ \A x \in {"files", "buffers"} : Registered(x) \in Capabilities
  BY DEF Capabilities, Pools

\* Capabilities whose origin WellFormed says nothing about.
Plain ==
  Capabilities \ ({Handle(x) : x \in Sought \union {"up"}}
                    \union {Memory(x) : x \in Buffers})

LEMMA PlainCapabilities ==
  /\ \A x \in {"hsa", "ring_fd", "asserted", "granule", "svm_supported",
               "svm_default", "prefetched", "kernargs", "alloc_ok"} : Handle(x) \in Plain
  /\ \A x \in Buffers : Accessible(x) \in Plain
  /\ \A x \in {"files", "buffers"} : Registered(x) \in Plain
  BY InCapabilities, Differ DEF Plain, Sought

LEMMA EntryFields ==
  ASSUME NEW call, NEW gives, NEW drops, NEW needs, NEW failure,
         NEW e, e = Entry(call, gives, drops, needs, failure)
  PROVE  /\ e.call = call /\ e.gives = gives /\ e.drops = drops
         /\ e.needs = needs /\ e.failure = failure
  BY DEF Entry

LEMMA EntryTyped ==
  ASSUME NEW call \in CallNames \union SearchNames, NEW gives \in SUBSET Capabilities,
         NEW drops \in SUBSET Capabilities, NEW needs \in SUBSET Capabilities,
         NEW failure \in {"running", "aborted", "returned", "crashes"}
  PROVE  Entry(call, gives, drops, needs, failure) \in EntryType
  BY DEF Entry, EntryType

LEMMA SearchesApart ==
  /\ \A call \in CallNames : call \notin SearchNames
  /\ \A call \in SearchNames : SoughtBy(call) \in Sought
  BY DEF CallNames, SearchNames, SoughtBy, Sought

\* Calls that give nothing whose origin matters.
LEMMA PlainEntry ==
  ASSUME NEW p, NEW call \in CallNames, NEW gives \in SUBSET Plain,
         NEW needs \in SUBSET Capabilities,
         NEW failure \in {"running", "aborted", "returned", "crashes"}
  PROVE  Entry(call, gives, {}, needs, failure) \in EntriesOf(p)
  <1> SUFFICES ASSUME NEW e, e = Entry(call, gives, {}, needs, failure)
               PROVE  e \in EntriesOf(p)
    OBVIOUS
  <1>1. e \in EntryType
    BY EntryTyped DEF Plain
  <1>2. /\ \A x \in Sought \union {"up"} : Handle(x) \notin gives
        /\ \A x \in Buffers : Memory(x) \notin gives
    BY DEF Plain
  <1>3. e.call = call /\ e.gives = gives /\ e.drops = {}
    BY EntryFields
  <1> QED
    BY <1>1, <1>2, <1>3, SearchesApart DEF EntriesOf, WellFormed

LEMMA PlainCall ==
  ASSUME NEW p, NEW call \in CallNames, NEW c \in Plain, NEW needs \in SUBSET Capabilities
  PROVE  /\ Checked(call, c, needs) \in EntriesOf(p)
         /\ Returned(call, c, needs) \in EntriesOf(p)
  BY PlainEntry DEF Checked, Returned

LEMMA PlainIgnored ==
  ASSUME NEW p, NEW call \in CallNames, NEW gives \in SUBSET Plain,
         NEW needs \in SUBSET Capabilities
  PROVE  Ignored(call, gives, needs) \in EntriesOf(p)
  BY PlainEntry DEF Ignored

LEMMA AccessEntry ==
  ASSUME NEW p, NEW xs \in SUBSET Buffers
  PROVE  Touch(xs) \in EntriesOf(p) /\ Kernel(xs) \in EntriesOf(p)
  <1>1. "access" \in CallNames /\ "kernel" \in CallNames
    BY DEF CallNames
  <1>2. /\ {Memory(x) : x \in xs} \in SUBSET Capabilities
        /\ {Accessible(x) : x \in xs} \in SUBSET Capabilities
    BY InCapabilities
  <1> QED
    BY <1>1, <1>2, PlainEntry DEF Touch, Kernel

LEMMA FreeEntry ==
  ASSUME NEW p, NEW x \in Buffers, NEW failure \in {"running", "aborted"}
  PROVE  Free(x, failure) \in EntriesOf(p)
  <1> SUFFICES ASSUME NEW e, e = Free(x, failure)
               PROVE  e \in EntriesOf(p)
    OBVIOUS
  <1>1. e \in EntryType
    BY EntryTyped, InCapabilities DEF Free, CallNames
  <1>2. e.call = "free" /\ e.gives = {} /\ e.drops = {Memory(x), Accessible(x)}
    BY EntryFields DEF Free
  <1>3. "free" \notin SearchNames
    BY DEF SearchNames
  <1> QED
    BY <1>1, <1>2, <1>3, Differ DEF EntriesOf, WellFormed

\* Memory from a pool, and memory from elsewhere.
LEMMA MemoryEntry ==
  ASSUME NEW p, NEW x \in Buffers, NEW call \in CallNames, NEW needs \in SUBSET Capabilities,
         IF x \in AllocatedIn(p) THEN call = "allocate" /\ needs = {Handle(PoolOf(p, x))}
                                ELSE call # "allocate"
  PROVE  Checked(call, Memory(x), needs) \in EntriesOf(p)
  <1> SUFFICES ASSUME NEW e, e = Checked(call, Memory(x), needs)
               PROVE  e \in EntriesOf(p)
    OBVIOUS
  <1>1. e \in EntryType
    BY EntryTyped, InCapabilities DEF Checked
  <1>2. e.call = call /\ e.gives = {Memory(x)} /\ e.drops = {} /\ e.needs = needs
    BY EntryFields DEF Checked
  <1> QED
    BY <1>1, <1>2, Differ, SearchesApart DEF EntriesOf, WellFormed

\* The handles whose origin matters.
LEMMA HandleEntry ==
  ASSUME NEW p, NEW call \in SearchNames, NEW needs \in SUBSET Capabilities,
         SoughtBy(call) = "gpu" => call = GpuSearch(p)
  PROVE  Checked(call, Handle(SoughtBy(call)), needs) \in EntriesOf(p)
  <1> SUFFICES ASSUME NEW e, e = Checked(call, Handle(SoughtBy(call)), needs)
               PROVE  e \in EntriesOf(p)
    OBVIOUS
  <1>1. Handle(SoughtBy(call)) \in Capabilities
    BY SearchesApart, InCapabilities DEF Sought
  <1>2. e \in EntryType
    BY <1>1, EntryTyped DEF Checked
  <1>3. /\ e.call = call /\ e.gives = {Handle(SoughtBy(call))} /\ e.drops = {}
        /\ e.needs = needs /\ e.failure = "aborted"
    BY EntryFields DEF Checked
  <1>4. SoughtBy(call) # "up"
    BY SearchesApart DEF Sought
  <1> QED
    BY <1>2, <1>3, <1>4, Differ DEF EntriesOf, WellFormed

LEMMA UpEntry ==
  ASSUME NEW p, NEW call \in CallNames, p # "svm_migration_cg"
  PROVE  Checked(call, Handle("up"), {}) \in EntriesOf(p)
  <1> SUFFICES ASSUME NEW e, e = Checked(call, Handle("up"), {})
               PROVE  e \in EntriesOf(p)
    OBVIOUS
  <1>1. e \in EntryType
    BY EntryTyped, InCapabilities DEF Checked
  <1>2. e.call = call /\ e.gives = {Handle("up")} /\ e.drops = {} /\ e.needs = {}
    BY EntryFields DEF Checked
  <1>3. "up" \notin Sought
    BY DEF Sought
  <1> QED
    BY <1>1, <1>2, <1>3, Differ, SearchesApart DEF EntriesOf, WellFormed

LEMMA HandleEntries ==
  ASSUME NEW p
  PROVE  /\ Checked(GpuSearch(p), Handle("gpu"), {Handle("hsa")}) \in EntriesOf(p)
         /\ Checked("get_agent_cpu", Handle("cpu"), {Handle("hsa")}) \in EntriesOf(p)
         /\ Checked("get_pool", Handle("pool"), {Handle("cpu")}) \in EntriesOf(p)
         /\ Checked("get_vram", Handle("vram"), {Handle("gpu")}) \in EntriesOf(p)
         /\ p # "svm_migration_cg" => Checked("return 0", Handle("up"), {}) \in EntriesOf(p)
  <1>1. /\ {Handle("hsa")} \in SUBSET Capabilities
        /\ {Handle("cpu")} \in SUBSET Capabilities
        /\ {Handle("gpu")} \in SUBSET Capabilities
    BY InCapabilities
  <1>2. {GpuSearch(p), "get_agent_cpu", "get_pool", "get_vram"} \in SUBSET SearchNames
    BY DEF GpuSearch, SearchNames
  <1>3. /\ SoughtBy(GpuSearch(p)) = "gpu" /\ SoughtBy("get_agent_cpu") = "cpu"
        /\ SoughtBy("get_pool") = "pool" /\ SoughtBy("get_vram") = "vram"
    BY DEF SoughtBy, GpuSearch
  <1>4. Checked(GpuSearch(p), Handle("gpu"), {Handle("hsa")}) \in EntriesOf(p)
    BY <1>1, <1>2, <1>3, HandleEntry
  <1>5. Checked("get_agent_cpu", Handle("cpu"), {Handle("hsa")}) \in EntriesOf(p)
    BY <1>1, <1>2, <1>3, HandleEntry
  <1>6. Checked("get_pool", Handle("pool"), {Handle("cpu")}) \in EntriesOf(p)
    BY <1>1, <1>2, <1>3, HandleEntry
  <1>7. Checked("get_vram", Handle("vram"), {Handle("gpu")}) \in EntriesOf(p)
    BY <1>1, <1>2, <1>3, HandleEntry
  <1>8. "return 0" \in CallNames
    BY DEF CallNames
  <1> QED
    BY <1>4, <1>5, <1>6, <1>7, <1>8, UpEntry

-----------------------------------------------------------------------------
(* The lists, one after the other.                                         *)

LEMMA ListTyped ==
  ASSUME NEW S, NEW a \in S, NEW b \in S, NEW c \in S, NEW d \in S, NEW e \in S
  PROVE  /\ <<a>> \in Seq(S) /\ <<a, b>> \in Seq(S) /\ <<a, b, c>> \in Seq(S)
         /\ <<a, b, c, d>> \in Seq(S) /\ <<a, b, c, d, e>> \in Seq(S)
  OBVIOUS

LEMMA LongListTyped ==
  ASSUME NEW S, NEW a \in S, NEW b \in S, NEW c \in S, NEW d \in S, NEW e \in S,
         NEW f \in S, NEW g \in S
  PROVE  <<a, b, c, d, e, f, g>> \in Seq(S)
  OBVIOUS

LEMMA ConcatTyped ==
  ASSUME NEW S, NEW s \in Seq(S), NEW t \in Seq(S)
  PROVE  s \o t \in Seq(S)
  OBVIOUS

LEMMA FindEntries ==
  ASSUME NEW p
  PROVE  /\ p # "svm_migration_cg" => FindGpu \in Seq(EntriesOf(p))
         /\ FindCpu \in Seq(EntriesOf(p))
         /\ FindPool \in Seq(EntriesOf(p))
         /\ p # "svm_migration_cg" => Discover \in Seq(EntriesOf(p))
  <1>1. p # "svm_migration_cg" => GpuSearch(p) = "get_agent_gpu"
    BY DEF GpuSearch
  <1>2. Checked("get_agent_cpu", Handle("cpu"), {Handle("hsa")}) \in EntriesOf(p)
    BY HandleEntries
  <1>3. Checked("hsa_init", Handle("hsa"), {}) \in EntriesOf(p)
    BY PlainCall, PlainCapabilities DEF CallNames
  <1>4. p # "svm_migration_cg" => FindGpu \in Seq(EntriesOf(p))
    <2>1. p # "svm_migration_cg" =>
            Checked("get_agent_gpu", Handle("gpu"), {Handle("hsa")}) \in EntriesOf(p)
      BY <1>1, HandleEntries
    <2> QED
      BY <2>1, ListTyped DEF FindGpu
  <1>5. FindCpu \in Seq(EntriesOf(p)) /\ FindPool \in Seq(EntriesOf(p))
    BY <1>2, HandleEntries, ListTyped DEF FindCpu, FindPool
  <1>6. <<Checked("hsa_init", Handle("hsa"), {})>> \in Seq(EntriesOf(p))
    BY <1>3
  <1>7. p # "svm_migration_cg" => Discover \in Seq(EntriesOf(p))
    BY <1>4, <1>5, <1>6 DEF Discover
  <1> QED
    BY <1>4, <1>5, <1>7

LEMMA AllocatedEntries ==
  ASSUME NEW p, NEW x \in AllocatedIn(p), NEW pool \in Pools, pool = PoolOf(p, x)
  PROVE  Allocated(x, pool) \in Seq(EntriesOf(p))
  <1>1. x \in Buffers
    BY DEF AllocatedIn
  <1>2. {Handle(pool)} \in SUBSET Capabilities /\ {Handle("gpu"), Memory(x)} \in SUBSET Capabilities
    BY <1>1, InCapabilities DEF Pools
  <1>3. Checked("allocate", Memory(x), {Handle(pool)}) \in EntriesOf(p)
    BY <1>1, <1>2, MemoryEntry DEF CallNames
  <1>4. Checked("allow_access", Accessible(x), {Handle("gpu"), Memory(x)}) \in EntriesOf(p)
    BY <1>1, <1>2, PlainCall, PlainCapabilities DEF CallNames
  <1> QED
    BY <1>3, <1>4 DEF Allocated

LEMMA RegionEntries ==
  ASSUME NEW p, NEW x \in {"ring", "sqes", "msgs"}, x \in AllocatedIn(p)
  PROVE  Region(x) \in Seq(EntriesOf(p))
  <1>1. x \in Buffers /\ PoolOf(p, x) = "pool" /\ "pool" \in Pools
    BY DEF Buffers, PoolOf, Pools
  <1>2. Allocated(x, "pool") \in Seq(EntriesOf(p))
    BY <1>1, AllocatedEntries
  <1>3. Touch({x}) \in EntriesOf(p)
    BY <1>1, AccessEntry
  <1>4. {} \in SUBSET Plain /\ {Memory(x)} \in SUBSET Capabilities /\ "mlock" \in CallNames
    BY <1>1, InCapabilities DEF CallNames
  <1>5. Ignored("mlock", {}, {Memory(x)}) \in EntriesOf(p)
    BY <1>4, PlainIgnored
  <1> QED
    BY <1>2, <1>3, <1>5 DEF Region

LEMMA OpenRingEntries ==
  ASSUME NEW p
  PROVE  OpenRing \in Seq(EntriesOf(p))
  <1>1. /\ {Memory("ring"), Memory("sqes")} \in SUBSET Capabilities
        /\ {Handle("ring_fd")} \in SUBSET Capabilities
    BY InCapabilities DEF Buffers
  <1>2. Returned("io_uring_setup", Handle("ring_fd"), {Memory("ring"), Memory("sqes")})
          \in EntriesOf(p)
    BY <1>1, PlainCall, PlainCapabilities DEF CallNames
  <1>3. Returned("register", Registered("files"), {Handle("ring_fd")}) \in EntriesOf(p)
    BY <1>1, PlainCall, PlainCapabilities DEF CallNames
  <1> QED
    BY <1>2, <1>3 DEF OpenRing

LEMMA RegisterPoolEntries ==
  ASSUME NEW p
  PROVE  RegisterPool \in Seq(EntriesOf(p))
  <1>1. {Handle("ring_fd"), Memory("msgs")} \in SUBSET Capabilities
    BY InCapabilities DEF Buffers
  <1>2. Returned("register", Registered("buffers"), {Handle("ring_fd"), Memory("msgs")})
          \in EntriesOf(p)
    BY <1>1, PlainCall, PlainCapabilities DEF CallNames
  <1> QED
    BY <1>2 DEF RegisterPool

LEMMA WakePollerEntries ==
  ASSUME NEW p
  PROVE  WakePoller \in Seq(EntriesOf(p))
  <1>1. /\ {} \in SUBSET Plain
        /\ {Handle("ring_fd")} \in SUBSET Capabilities
        /\ "io_uring_enter" \in CallNames
    BY InCapabilities DEF CallNames
  <1>2. Ignored("io_uring_enter", {}, {Handle("ring_fd")}) \in EntriesOf(p)
    BY <1>1, PlainIgnored
  <1> QED
    BY <1>2 DEF WakePoller

LEMMA SetupUringEntries ==
  ASSUME NEW p, p # "svm_migration_cg", {"ring", "sqes", "msgs"} \subseteq AllocatedIn(p),
         NEW wake \in Seq(EntriesOf(p))
  PROVE  SetupUring(wake) \in Seq(EntriesOf(p))
  <1>1. Region("ring") \in Seq(EntriesOf(p))
    BY RegionEntries
  <1>2. Region("sqes") \in Seq(EntriesOf(p))
    BY RegionEntries
  <1>3. Region("msgs") \in Seq(EntriesOf(p))
    BY RegionEntries
  <1>4. Discover \in Seq(EntriesOf(p))
    BY FindEntries
  <1>5. <<Checked("return 0", Handle("up"), {})>> \in Seq(EntriesOf(p))
    BY HandleEntries, ListTyped
  <1>6. OpenRing \in Seq(EntriesOf(p)) /\ RegisterPool \in Seq(EntriesOf(p))
    BY OpenRingEntries, RegisterPoolEntries
  <1> QED
    BY <1>1, <1>2, <1>3, <1>4, <1>5, <1>6, ConcatTyped DEF SetupUring

LEMMA TeardownEntry ==
  ASSUME NEW p
  PROVE  Entry("teardown_uring", {}, {Handle("up")}, {}, "aborted") \in EntriesOf(p)
  <1> SUFFICES ASSUME NEW e, e = Entry("teardown_uring", {}, {Handle("up")}, {}, "aborted")
               PROVE  e \in EntriesOf(p)
    OBVIOUS
  <1>1. e \in EntryType
    BY EntryTyped, InCapabilities DEF CallNames
  <1>2. e.call = "teardown_uring" /\ e.gives = {} /\ e.drops = {Handle("up")}
    BY EntryFields
  <1>3. "teardown_uring" \notin SearchNames /\ "up" \notin Sought
    BY DEF SearchNames, Sought
  <1> QED
    BY <1>1, <1>2, <1>3, Differ DEF EntriesOf, WellFormed

LEMMA TeardownUringEntries ==
  ASSUME NEW p, NEW wake \in Seq(EntriesOf(p))
  PROVE  TeardownUring(wake) \in Seq(EntriesOf(p))
  <1>1. /\ Free("msgs", "running") \in EntriesOf(p)
        /\ Free("ring", "running") \in EntriesOf(p)
        /\ Free("sqes", "running") \in EntriesOf(p)
    BY FreeEntry DEF Buffers
  <1>2. <<Free("msgs", "running"), Free("ring", "running"), Free("sqes", "running")>>
          \in Seq(EntriesOf(p))
    BY <1>1
  <1>3. <<Entry("teardown_uring", {}, {Handle("up")}, {}, "aborted")>> \in Seq(EntriesOf(p))
    BY TeardownEntry, ListTyped
  <1> QED
    BY <1>2, <1>3 DEF TeardownUring

LEMMA ShutDownEntry ==
  ASSUME NEW p
  PROVE  Ignored("hsa_shut_down", {}, {}) \in EntriesOf(p)
  <1>1. {} \in SUBSET Plain /\ {} \in SUBSET Capabilities /\ "hsa_shut_down" \in CallNames
    BY DEF CallNames
  <1> QED
    BY <1>1, PlainIgnored

LEMMA GpuMainEntries ==
  ASSUME NEW p, p # "svm_migration_cg", "ctx" \in AllocatedIn(p), PoolOf(p, "ctx") = "pool",
         NEW setup \in Seq(EntriesOf(p)), NEW teardown \in Seq(EntriesOf(p))
  PROVE  GpuMain(setup, teardown) \in Seq(EntriesOf(p))
  <1>1. Discover \in Seq(EntriesOf(p))
    BY FindEntries
  <1>2. Allocated("ctx", "pool") \in Seq(EntriesOf(p))
    BY AllocatedEntries DEF Pools
  <1>3. <<Touch({"ctx"})>> \in Seq(EntriesOf(p))
    BY AccessEntry DEF Buffers
  <1>4. Shared \in SUBSET Buffers
    BY DEF Shared, Buffers
  <1>5. <<Touch(Shared), Kernel(Shared), Touch(Shared)>> \in Seq(EntriesOf(p))
    BY <1>4, AccessEntry
  <1>6. Free("ctx", "running") \in EntriesOf(p)
    BY FreeEntry DEF Buffers
  <1>7. <<Free("ctx", "running"), Ignored("hsa_shut_down", {}, {})>> \in Seq(EntriesOf(p))
    BY <1>6, ShutDownEntry
  <1> QED
    BY <1>1, <1>2, <1>3, <1>5, <1>7 DEF GpuMain

LEMMA MappedEntries ==
  ASSUME NEW p, NEW x \in Buffers, x \notin AllocatedIn(p)
  PROVE  Mapped(x) \in Seq(EntriesOf(p))
  <1>1. {Handle("ring_fd")} \in SUBSET Capabilities /\ {Handle("hsa"), Memory(x)} \in SUBSET Capabilities
    BY InCapabilities
  <1>2. Checked("mmap", Memory(x), {Handle("ring_fd")}) \in EntriesOf(p)
    BY <1>1, MemoryEntry DEF CallNames
  <1>3. Checked("memory_lock", Accessible(x), {Handle("hsa"), Memory(x)}) \in EntriesOf(p)
    BY <1>1, PlainCall, PlainCapabilities DEF CallNames
  <1> QED
    BY <1>2, <1>3 DEF Mapped

LEMMA CpuMtEntries ==
  ASSUME NEW p \in {"io_uring_cpu_mt", "io_uring_cpu_mt_gpu"}
  PROVE  CpuMtSetup \in Seq(EntriesOf(p)) /\ CpuMtTeardown \in Seq(EntriesOf(p))
  <1>1. AllocatedIn(p) = {} /\ {"ring", "cq", "sqes", "msgs"} \in SUBSET Buffers
    BY DEF AllocatedIn, Buffers
  <1>2. /\ {Handle("ring_fd")} \in SUBSET Capabilities /\ {} \in SUBSET Capabilities
        /\ {Handle("hsa"), Memory("msgs")} \in SUBSET Capabilities
        /\ {Handle("ring_fd"), Memory("msgs")} \in SUBSET Capabilities
        /\ {Handle("ring_fd")} \in SUBSET Plain
    BY <1>1, InCapabilities, PlainCapabilities
  <1>3. Checked("hsa_init", Handle("hsa"), {}) \in EntriesOf(p)
    BY <1>2, PlainCall, PlainCapabilities DEF CallNames
  <1>4. Ignored("io_uring_setup", {Handle("ring_fd")}, {}) \in EntriesOf(p)
    BY <1>2, PlainIgnored DEF CallNames
  <1>5. Checked("register", Registered("files"), {Handle("ring_fd")}) \in EntriesOf(p)
    BY <1>2, PlainCall, PlainCapabilities DEF CallNames
  <1>6. Checked("assert_fd", Handle("asserted"), {Handle("ring_fd")}) \in EntriesOf(p)
    BY <1>2, PlainCall, PlainCapabilities DEF CallNames
  <1>7. /\ Mapped("ring") \in Seq(EntriesOf(p)) /\ Mapped("cq") \in Seq(EntriesOf(p))
        /\ Mapped("sqes") \in Seq(EntriesOf(p))
    BY <1>1, MappedEntries
  <1>8. Checked("aligned_alloc", Memory("msgs"), {}) \in EntriesOf(p)
    BY <1>1, <1>2, MemoryEntry DEF CallNames
  <1>9. Touch({"msgs"}) \in EntriesOf(p)
    BY <1>1, AccessEntry
  <1>10. Checked("memory_lock", Accessible("msgs"), {Handle("hsa"), Memory("msgs")})
           \in EntriesOf(p)
    BY <1>1, <1>2, PlainCall, PlainCapabilities DEF CallNames
  <1>11. Checked("register", Registered("buffers"), {Handle("ring_fd"), Memory("msgs")})
           \in EntriesOf(p)
    BY <1>2, PlainCall, PlainCapabilities DEF CallNames
  <1>12. Checked("return 0", Handle("up"), {}) \in EntriesOf(p)
    BY HandleEntries
  <1>13. CpuMtSetup \in Seq(EntriesOf(p))
    <2>1. <<Checked("hsa_init", Handle("hsa"), {}),
            Ignored("io_uring_setup", {Handle("ring_fd")}, {}),
            Checked("register", Registered("files"), {Handle("ring_fd")}),
            Checked("assert_fd", Handle("asserted"), {Handle("ring_fd")})>>
            \in Seq(EntriesOf(p))
      BY <1>3, <1>4, <1>5, <1>6
    <2>2. <<Checked("aligned_alloc", Memory("msgs"), {}),
            Touch({"msgs"}),
            Checked("memory_lock", Accessible("msgs"), {Handle("hsa"), Memory("msgs")}),
            Checked("register", Registered("buffers"), {Handle("ring_fd"), Memory("msgs")}),
            Checked("return 0", Handle("up"), {})>> \in Seq(EntriesOf(p))
      BY <1>8, <1>9, <1>10, <1>11, <1>12, ListTyped
    <2> QED
      BY <2>1, <2>2, <1>7, WakePollerEntries, ConcatTyped DEF CpuMtSetup
  <1>14. Free("msgs", "running") \in EntriesOf(p)
    BY <1>1, FreeEntry
  <1>15. Entry("teardown_uring", {}, {Handle("up")}, {}, "aborted") \in EntriesOf(p)
    BY TeardownEntry
  <1>16. CpuMtTeardown \in Seq(EntriesOf(p))
    BY <1>14, <1>15, ListTyped DEF CpuMtTeardown
  <1> QED
    BY <1>13, <1>16

LEMMA OmpStartEntries ==
  ASSUME NEW p
  PROVE  OmpStart \in Seq(EntriesOf(p))
  <1>1. {Handle("hsa")} \in SUBSET Plain /\ {} \in SUBSET Capabilities
    BY PlainCapabilities
  <1>2. Ignored("omp_start", {Handle("hsa")}, {}) \in EntriesOf(p)
    BY <1>1, PlainIgnored DEF CallNames
  <1> QED
    BY <1>2, ListTyped DEF OmpStart

LEMMA SvmEntries ==
  ASSUME NEW p
  PROVE  SvmQueries \in Seq(EntriesOf(p)) /\ MapSvm \in Seq(EntriesOf(p))
  <1>1. "svm" \in Buffers /\ "svm" \notin AllocatedIn(p)
    BY DEF Buffers, AllocatedIn
  <1>2. /\ {Handle("hsa")} \in SUBSET Capabilities /\ {} \in SUBSET Capabilities
        /\ {Handle("gpu"), Memory("svm")} \in SUBSET Capabilities
    BY <1>1, InCapabilities
  <1>3. Checked("get_svm_supported", Handle("svm_supported"), {Handle("hsa")}) \in EntriesOf(p)
    BY <1>2, PlainCall, PlainCapabilities DEF CallNames
  <1>4. Checked("get_svm_default", Handle("svm_default"), {Handle("hsa")}) \in EntriesOf(p)
    BY <1>2, PlainCall, PlainCapabilities DEF CallNames
  <1>5. Checked("mmap", Memory("svm"), {}) \in EntriesOf(p)
    BY <1>1, <1>2, MemoryEntry DEF CallNames
  <1>6. Checked("svm_attributes_set", Accessible("svm"), {Handle("gpu"), Memory("svm")})
          \in EntriesOf(p)
    BY <1>1, <1>2, PlainCall, PlainCapabilities DEF CallNames
  <1> QED
    BY <1>3, <1>4, <1>5, <1>6, ListTyped DEF SvmQueries, MapSvm

LEMMA SvmTargetEditBufferEntries ==
  ASSUME NEW p, p = "svm_target_edit_buffer"
  PROVE  SvmTargetEditBuffer \in Seq(EntriesOf(p))
  <1>1. /\ "buf" \in Buffers /\ "buf" \in AllocatedIn(p)
        /\ PoolOf(p, "buf") = "pool" /\ "pool" \in Pools
    BY DEF Buffers, AllocatedIn, PoolOf, Pools
  <1>2. Discover \in Seq(EntriesOf(p)) /\ Allocated("buf", "pool") \in Seq(EntriesOf(p))
    BY <1>1, FindEntries, AllocatedEntries
  <1>3. Touch({"buf"}) \in EntriesOf(p) /\ Kernel({"buf"}) \in EntriesOf(p)
    BY <1>1, AccessEntry
  <1>4. Free("buf", "running") \in EntriesOf(p)
    BY <1>1, FreeEntry
  <1>5. <<Touch({"buf"}), Kernel({"buf"}), Touch({"buf"}),
          Free("buf", "running"), Ignored("hsa_shut_down", {}, {})>> \in Seq(EntriesOf(p))
    BY <1>3, <1>4, ShutDownEntry, ListTyped
  <1> QED
    BY <1>2, <1>5, ConcatTyped DEF SvmTargetEditBuffer

LEMMA SvmMigrationCgEntries ==
  ASSUME NEW p, p = "svm_migration_cg"
  PROVE  SvmMigrationCg \in Seq(EntriesOf(p))
  <1>1. /\ "cg" \in Buffers /\ "svm" \in Buffers /\ "cg" \in AllocatedIn(p)
        /\ PoolOf(p, "cg") = "pool" /\ GpuSearch(p) = "get_first_agent_gpu"
    BY DEF Buffers, AllocatedIn, PoolOf, GpuSearch
  <1>2. /\ {Handle("pool")} \in SUBSET Capabilities
        /\ {Handle("gpu"), Memory("svm")} \in SUBSET Capabilities
        /\ {Handle("gpu"), Memory("cg")} \in SUBSET Capabilities
        /\ {Accessible("cg")} \in SUBSET Plain
    BY <1>1, InCapabilities, PlainCapabilities
  <1>3. <<Checked("get_first_agent_gpu", Handle("gpu"), {Handle("hsa")})>>
          \in Seq(EntriesOf(p))
    BY <1>1, HandleEntries, ListTyped
  <1>4. Checked("get_granule", Handle("granule"), {Handle("pool")}) \in EntriesOf(p)
    BY <1>2, PlainCall, PlainCapabilities DEF CallNames
  <1>5. Checked("svm_prefetch", Handle("prefetched"), {Handle("gpu"), Memory("svm")})
          \in EntriesOf(p)
    BY <1>2, PlainCall, PlainCapabilities DEF CallNames
  <1>6. Checked("allocate", Memory("cg"), {Handle("pool")}) \in EntriesOf(p)
    BY <1>1, <1>2, MemoryEntry DEF CallNames
  <1>7. Ignored("allow_access", {Accessible("cg")}, {Handle("gpu"), Memory("cg")})
          \in EntriesOf(p)
    BY <1>2, PlainIgnored DEF CallNames
  <1>8. /\ Kernel({"svm"}) \in EntriesOf(p) /\ Kernel({"cg"}) \in EntriesOf(p)
        /\ Touch({"svm"}) \in EntriesOf(p)
    BY <1>1, AccessEntry
  <1>9. Free("cg", "aborted") \in EntriesOf(p)
    BY <1>1, FreeEntry
  <1>10. <<Checked("svm_prefetch", Handle("prefetched"), {Handle("gpu"), Memory("svm")}),
           Checked("allocate", Memory("cg"), {Handle("pool")}),
           Ignored("allow_access", {Accessible("cg")}, {Handle("gpu"), Memory("cg")}),
           Kernel({"svm"}), Kernel({"cg"}), Free("cg", "aborted"), Touch({"svm"})>>
           \in Seq(EntriesOf(p))
    BY <1>5, <1>6, <1>7, <1>8, <1>9, LongListTyped
  <1>11. /\ FindCpu \in Seq(EntriesOf(p)) /\ FindPool \in Seq(EntriesOf(p))
         /\ OmpStart \in Seq(EntriesOf(p))
         /\ SvmQueries \in Seq(EntriesOf(p)) /\ MapSvm \in Seq(EntriesOf(p))
    BY FindEntries, OmpStartEntries, SvmEntries
  <1>12. <<Checked("get_granule", Handle("granule"), {Handle("pool")})>> \in Seq(EntriesOf(p))
    BY <1>4, ListTyped
  <1> QED
    BY <1>3, <1>10, <1>11, <1>12, ConcatTyped DEF SvmMigrationCg

LEMMA DevReturnEntries ==
  ASSUME NEW p, p = "svm_migration_fg"
  PROVE  DevReturn("vram") \in Seq(EntriesOf(p))
  <1>1. /\ "dev_ret" \in Buffers /\ "dev_ret" \in AllocatedIn(p)
        /\ PoolOf(p, "dev_ret") = "vram"
    BY DEF Buffers, AllocatedIn, PoolOf
  <1>2. /\ {Handle("vram")} \in SUBSET Capabilities
        /\ {Memory("dev_ret")} \in SUBSET Capabilities
        /\ {Handle("gpu"), Memory("dev_ret")} \in SUBSET Capabilities
    BY <1>1, InCapabilities
  <1>3. Checked("allocate", Memory("dev_ret"), {Handle("vram")}) \in EntriesOf(p)
    BY <1>1, <1>2, MemoryEntry DEF CallNames
  <1>4. Ignored("memory_fill", {}, {Memory("dev_ret")}) \in EntriesOf(p)
    BY <1>2, PlainIgnored DEF CallNames
  <1>5. Checked("allow_access", Accessible("dev_ret"), {Handle("gpu"), Memory("dev_ret")})
          \in EntriesOf(p)
    BY <1>1, <1>2, PlainCall, PlainCapabilities DEF CallNames
  <1> QED
    BY <1>3, <1>4, <1>5, ListTyped DEF DevReturn

LEMMA SvmMigrationFgEntries ==
  ASSUME NEW p, p = "svm_migration_fg"
  PROVE  SvmMigrationFg \in Seq(EntriesOf(p))
  <1> DEFINE xs == {"cg", "dev_ret", "fg", "rpc"}
  <1>1. /\ xs \in SUBSET Buffers /\ xs \in SUBSET AllocatedIn(p) /\ "svm" \in Buffers
        /\ PoolOf(p, "cg") = "vram" /\ PoolOf(p, "dev_ret") = "vram"
        /\ PoolOf(p, "fg") = "pool" /\ PoolOf(p, "rpc") = "pool"
        /\ "pool" \in Pools /\ "vram" \in Pools
    BY DEF Buffers, AllocatedIn, PoolOf, Pools
  <1>2. /\ {Handle("cpu")} \in SUBSET Capabilities
        /\ {Handle("pool")} \in SUBSET Capabilities
    BY InCapabilities
  <1>3. Checked("get_kernargs", Handle("kernargs"), {Handle("cpu")}) \in EntriesOf(p)
    BY <1>2, PlainCall, PlainCapabilities DEF CallNames
  <1>4. Checked("get_alloc_allowed", Handle("alloc_ok"), {Handle("pool")}) \in EntriesOf(p)
    BY <1>2, PlainCall, PlainCapabilities DEF CallNames
  <1>5. <<Checked("get_kernargs", Handle("kernargs"), {Handle("cpu")})>> \in Seq(EntriesOf(p))
    BY <1>3, ListTyped
  <1>6. <<Checked("get_vram", Handle("vram"), {Handle("gpu")}),
          Checked("get_alloc_allowed", Handle("alloc_ok"), {Handle("pool")})>>
          \in Seq(EntriesOf(p))
    BY <1>4, HandleEntries, ListTyped
  <1>7. BenchmarkBuffers \in Seq(EntriesOf(p))
    <2>1. /\ Allocated("cg", "vram") \in Seq(EntriesOf(p))
          /\ DevReturn("vram") \in Seq(EntriesOf(p))
          /\ Allocated("fg", "pool") \in Seq(EntriesOf(p))
          /\ Allocated("rpc", "pool") \in Seq(EntriesOf(p))
      BY <1>1, AllocatedEntries, DevReturnEntries
    <2> QED
      BY <2>1, ConcatTyped DEF BenchmarkBuffers
  <1>8. /\ Kernel({"svm"}) \in EntriesOf(p) /\ Kernel({"cg"}) \in EntriesOf(p)
        /\ Kernel({"fg"}) \in EntriesOf(p) /\ Touch({"svm"}) \in EntriesOf(p)
    BY <1>1, AccessEntry
  <1>9. /\ Free("cg", "aborted") \in EntriesOf(p) /\ Free("fg", "aborted") \in EntriesOf(p)
        /\ Free("dev_ret", "aborted") \in EntriesOf(p)
        /\ Free("rpc", "aborted") \in EntriesOf(p)
    BY <1>1, FreeEntry
  <1>10. /\ <<Kernel({"svm"}), Kernel({"cg"}), Kernel({"fg"})>> \in Seq(EntriesOf(p))
         /\ <<Free("cg", "aborted"), Free("fg", "aborted"),
              Free("dev_ret", "aborted"), Free("rpc", "aborted"), Touch({"svm"})>>
              \in Seq(EntriesOf(p))
    BY <1>8, <1>9, ListTyped
  <1>11. /\ FindGpu \in Seq(EntriesOf(p))
         /\ FindCpu \in Seq(EntriesOf(p)) /\ FindPool \in Seq(EntriesOf(p))
         /\ OmpStart \in Seq(EntriesOf(p))
         /\ SvmQueries \in Seq(EntriesOf(p)) /\ MapSvm \in Seq(EntriesOf(p))
    BY FindEntries, OmpStartEntries, SvmEntries
  <1> QED
    BY <1>5, <1>6, <1>7, <1>10, <1>11, ConcatTyped DEF SvmMigrationFg

(* Every call of every program is well-formed.                             *)
LEMMA CallsWellFormed ==
  ASSUME NEW p \in Programs
  PROVE  Calls[p] \in Seq(EntriesOf(p))
  <1>1. p \in {"gpu_svm_demo", "io_uring_gpu_no_poll", "io_uring_svm_cpu_only",
               "io_uring_cpu_mt", "io_uring_cpu_mt_gpu", "svm_target_edit_buffer",
               "svm_migration_cg", "svm_migration_fg"}
    BY DEF Programs, Calls
  <1>2. <<>> \in Seq(EntriesOf(p)) /\ WakePoller \in Seq(EntriesOf(p))
    BY WakePollerEntries
  <1>3. Shared \ {"ctx"} \in SUBSET Buffers
    BY DEF Shared, Buffers
  <1>4. ASSUME p \in {"gpu_svm_demo", "io_uring_gpu_no_poll", "io_uring_svm_cpu_only"}
        PROVE  /\ {"ctx", "ring", "sqes", "msgs"} \subseteq AllocatedIn(p)
               /\ PoolOf(p, "ctx") = "pool"
               /\ p # "svm_migration_cg"
    BY <1>4 DEF AllocatedIn, PoolOf, Buffers
  <1>5. CASE p = "gpu_svm_demo"
    <2>1. /\ SetupUring(WakePoller) \in Seq(EntriesOf(p))
          /\ TeardownUring(WakePoller) \in Seq(EntriesOf(p))
      BY <1>2, <1>4, <1>5, SetupUringEntries, TeardownUringEntries
    <2> QED
      BY <1>4, <1>5, <2>1, GpuMainEntries DEF Calls, GpuSvmDemo
  <1>6. CASE p = "io_uring_gpu_no_poll"
    <2>1. /\ SetupUring(<<>>) \in Seq(EntriesOf(p))
          /\ TeardownUring(<<>>) \in Seq(EntriesOf(p))
      BY <1>2, <1>4, <1>6, SetupUringEntries, TeardownUringEntries
    <2> QED
      BY <1>4, <1>6, <2>1, GpuMainEntries DEF Calls, GpuNoPoll
  <1>7. CASE p = "io_uring_svm_cpu_only"
    <2>1. /\ SetupUring(WakePoller) \in Seq(EntriesOf(p))
          /\ TeardownUring(<<>>) \in Seq(EntriesOf(p))
      BY <1>2, <1>4, <1>7, SetupUringEntries, TeardownUringEntries
    <2>2. <<Touch(Shared \ {"ctx"})>> \in Seq(EntriesOf(p))
      BY <1>3, AccessEntry, ListTyped
    <2> QED
      BY <1>7, <2>1, <2>2, ConcatTyped DEF Calls, SvmCpuOnly
  <1>8. CASE p = "io_uring_cpu_mt"
    <2>1. <<Touch(Shared \ {"ctx"})>> \in Seq(EntriesOf(p))
      BY <1>3, AccessEntry, ListTyped
    <2> QED
      BY <1>8, <2>1, CpuMtEntries, ConcatTyped DEF Calls, CpuMt
  <1>9. CASE p = "io_uring_cpu_mt_gpu"
    <2>1. <<Kernel(Shared \ {"ctx"})>> \in Seq(EntriesOf(p))
      BY <1>3, AccessEntry, ListTyped
    <2> QED
      BY <1>9, <2>1, CpuMtEntries, ConcatTyped DEF Calls, CpuMtGpu
  <1>10. CASE p = "svm_target_edit_buffer"
    BY <1>10, SvmTargetEditBufferEntries DEF Calls
  <1>11. CASE p = "svm_migration_cg"
    BY <1>11, SvmMigrationCgEntries DEF Calls
  <1>12. CASE p = "svm_migration_fg"
    BY <1>12, SvmMigrationFgEntries DEF Calls
  <1> QED
    BY <1>1, <1>5, <1>6, <1>7, <1>8, <1>9, <1>10, <1>11, <1>12

-----------------------------------------------------------------------------
(* What is known between two calls: that capabilities are held, and that   *)
(* setup_uring has not returned 0, or teardown_uring was called since.     *)

Down == <<"not", "up">>

Facts == Capabilities \union {Down}

\* What must be known before a call: that the memory it uses is there, that
\* set-up is complete when it returns, that nothing is freed before teardown.
Demands(e) ==
  (IF e.call \in {"access", "kernel"} THEN e.needs ELSE {})
    \union (IF Handle("up") \in e.gives THEN Usable ELSE {})
    \union (IF e.drops \intersect Usable # {} THEN {Down} ELSE {})

\* What may no longer hold after it.
Refutes(e) == e.drops \union (IF Handle("up") \in e.gives THEN {Down} ELSE {})

SearchCalls ==
  {"get_agent_gpu", "get_first_agent_gpu", "get_agent_cpu", "get_pool", "get_kernargs",
   "get_vram"}

\* What holds after it if the program goes on: nothing new if its failure is
\* ignored, or if it is a search, which may have found nothing.
Proves(e) ==
  IF e.failure = "running" \/ e.call \in SearchCalls
  THEN {}
  ELSE e.gives \union (e.needs \ e.drops)
         \union (IF Handle("up") \in e.drops THEN {Down} ELSE {})

Follows(P, e, Q) ==
  /\ P \in SUBSET Facts /\ Q \in SUBSET Facts
  /\ Demands(e) \subseteq P
  /\ Q \subseteq (P \ Refutes(e)) \union Proves(e)

\* K annotates the list s: K[n] is known before its call n.
Outlined(P, s, Q, K) ==
  /\ K \in [1 .. Len(s) + 1 -> SUBSET Facts]
  /\ K[1] = P /\ K[Len(s) + 1] = Q
  /\ \A n \in 1 .. Len(s) : Follows(K[n], s[n], K[n + 1])

\* Where P is known before the list s, Q is known after it, and what its
\* calls demand is known in between.
Establishes(P, s, Q) == \E K : Outlined(P, s, Q, K)

LEMMA EstablishesNothing ==
  ASSUME NEW P \in SUBSET Facts
  PROVE  Establishes(P, <<>>, P)
  <1> DEFINE K == [n \in 1 .. 1 |-> P]
  <1>1. Outlined(P, <<>>, P, K)
    BY DEF Outlined
  <1> QED
    BY <1>1 DEF Establishes

LEMMA EstablishesOne ==
  ASSUME NEW P, NEW e, NEW Q, Follows(P, e, Q)
  PROVE  Establishes(P, <<e>>, Q)
  <1> DEFINE K == [n \in 1 .. 2 |-> IF n = 1 THEN P ELSE Q]
  <1>1. K \in [1 .. 2 -> SUBSET Facts] /\ K[1] = P /\ K[2] = Q
    BY DEF Follows
  <1>2. Len(<<e>>) = 1 /\ <<e>>[1] = e
    OBVIOUS
  <1> HIDE DEF K
  <1>3. Outlined(P, <<e>>, Q, K)
    BY <1>1, <1>2 DEF Outlined
  <1> QED
    BY <1>3 DEF Establishes

(* One list after the other.                                               *)
LEMMA EstablishesConcat ==
  ASSUME NEW S, NEW s \in Seq(S), NEW t \in Seq(S),
         NEW P, NEW Q, NEW R, Establishes(P, s, Q), Establishes(Q, t, R)
  PROVE  Establishes(P, s \o t, R)
  <1>1. PICK K : Outlined(P, s, Q, K)
    BY DEF Establishes
  <1>2. PICK L : Outlined(Q, t, R, L)
    BY DEF Establishes
  <1> DEFINE m == Len(s)
             k == Len(t)
             J == [n \in 1 .. m + k + 1 |-> IF n <= m THEN K[n] ELSE L[n - m]]
  <1>3. m \in Nat /\ k \in Nat /\ Len(s \o t) = m + k
    OBVIOUS
  <1>4. /\ \A n \in 1 .. m : (s \o t)[n] = s[n]
        /\ \A n \in m + 1 .. m + k : (s \o t)[n] = t[n - m]
    OBVIOUS
  <1> HIDE DEF m, k
  <1>5. /\ K \in [1 .. m + 1 -> SUBSET Facts] /\ K[1] = P /\ K[m + 1] = Q
        /\ \A n \in 1 .. m : Follows(K[n], s[n], K[n + 1])
    BY <1>1 DEF Outlined, m
  <1>6. /\ L \in [1 .. k + 1 -> SUBSET Facts] /\ L[1] = Q /\ L[k + 1] = R
        /\ \A n \in 1 .. k : Follows(L[n], t[n], L[n + 1])
    BY <1>2 DEF Outlined, k
  <1>7. /\ \A n \in 1 .. m + 1 : J[n] = K[n]
        /\ \A n \in m + 1 .. m + k + 1 : J[n] = L[n - m]
    BY <1>3, <1>5, <1>6
  <1>8. J \in [1 .. m + k + 1 -> SUBSET Facts]
    BY <1>3, <1>5, <1>6
  <1> HIDE DEF J
  <1>9. J[1] = P /\ J[m + k + 1] = R
    BY <1>3, <1>5, <1>6, <1>7
  <1>10. ASSUME NEW n \in 1 .. m + k
         PROVE  Follows(J[n], (s \o t)[n], J[n + 1])
    <2>1. CASE n <= m
      BY <1>3, <1>4, <1>5, <1>7, <2>1
    <2>2. CASE n > m
      <3>1. n - m \in 1 .. k /\ (n - m) + 1 = (n + 1) - m
        BY <1>3, <2>2
      <3>2. J[n] = L[n - m] /\ J[n + 1] = L[(n - m) + 1] /\ (s \o t)[n] = t[n - m]
        BY <1>3, <1>4, <1>7, <2>2, <3>1
      <3> QED
        BY <1>6, <3>1, <3>2
    <2> QED
      BY <1>3, <2>1, <2>2
  <1>11. Outlined(P, s \o t, R, J)
    BY <1>3, <1>8, <1>9, <1>10 DEF Outlined
  <1> QED
    BY <1>11 DEF Establishes

LEMMA EstablishesTwo ==
  ASSUME NEW a, NEW b, NEW P, NEW Q, NEW R,
         Follows(P, a, Q), Follows(Q, b, R)
  PROVE  Establishes(P, <<a, b>>, R)
  <1> DEFINE S == {a, b}
  <1>0. a \in S /\ b \in S
    OBVIOUS
  <1> HIDE DEF S
  <1>1. <<a>> \in Seq(S) /\ <<b>> \in Seq(S) /\ <<a, b>> \in Seq(S)
    BY <1>0, ListTyped
  <1>2. Establishes(P, <<a>>, Q) /\ Establishes(Q, <<b>>, R)
    BY EstablishesOne
  <1>3. <<a>> \o <<b>> = <<a, b>>
    <2>1. <<a>> \o <<b>> \in Seq(S)
      BY <1>1, ConcatTyped
    <2>2. Len(<<a>> \o <<b>>) = 2 /\ Len(<<a, b>>) = 2
      OBVIOUS
    <2>3. \A i \in 1 .. 2 : (<<a>> \o <<b>>)[i] = <<a, b>>[i]
      OBVIOUS
    <2> QED
      BY <1>1, <2>1, <2>2, <2>3, SeqEqual
  <1> QED
    BY <1>1, <1>2, <1>3, EstablishesConcat

LEMMA EstablishesThree ==
  ASSUME NEW a, NEW b, NEW c, NEW P, NEW Q, NEW R, NEW T,
         Follows(P, a, Q), Follows(Q, b, R), Follows(R, c, T)
  PROVE  Establishes(P, <<a, b, c>>, T)
  <1> DEFINE S == {a, b, c}
  <1>0. a \in S /\ b \in S /\ c \in S
    OBVIOUS
  <1> HIDE DEF S
  <1>1. <<a, b>> \in Seq(S) /\ <<c>> \in Seq(S) /\ <<a, b, c>> \in Seq(S)
    BY <1>0, ListTyped
  <1>2. Establishes(P, <<a, b>>, R) /\ Establishes(R, <<c>>, T)
    BY EstablishesOne, EstablishesTwo
  <1>3. <<a, b>> \o <<c>> = <<a, b, c>>
    <2>1. <<a, b>> \o <<c>> \in Seq(S)
      BY <1>1, ConcatTyped
    <2>2. Len(<<a, b>> \o <<c>>) = 3 /\ Len(<<a, b, c>>) = 3
      OBVIOUS
    <2>3. \A i \in 1 .. 3 : (<<a, b>> \o <<c>>)[i] = <<a, b, c>>[i]
      OBVIOUS
    <2> QED
      BY <1>1, <2>1, <2>2, <2>3, SeqEqual
  <1> QED
    BY <1>1, <1>2, <1>3, EstablishesConcat

LEMMA EstablishesFour ==
  ASSUME NEW a, NEW b, NEW c, NEW d,
         NEW P, NEW Q, NEW R, NEW T, NEW U,
         Follows(P, a, Q), Follows(Q, b, R), Follows(R, c, T), Follows(T, d, U)
  PROVE  Establishes(P, <<a, b, c, d>>, U)
  <1> DEFINE S == {a, b, c, d}
  <1>0. a \in S /\ b \in S /\ c \in S /\ d \in S
    OBVIOUS
  <1> HIDE DEF S
  <1>1. <<a, b>> \in Seq(S) /\ <<c, d>> \in Seq(S) /\ <<a, b, c, d>> \in Seq(S)
    BY <1>0, ListTyped
  <1>2. Establishes(P, <<a, b>>, R) /\ Establishes(R, <<c, d>>, U)
    BY EstablishesTwo
  <1>3. <<a, b>> \o <<c, d>> = <<a, b, c, d>>
    <2>1. <<a, b>> \o <<c, d>> \in Seq(S)
      BY <1>1, ConcatTyped
    <2>2. Len(<<a, b>> \o <<c, d>>) = 4 /\ Len(<<a, b, c, d>>) = 4
      OBVIOUS
    <2>3. \A i \in 1 .. 4 : (<<a, b>> \o <<c, d>>)[i] = <<a, b, c, d>>[i]
      OBVIOUS
    <2> QED
      BY <1>1, <2>1, <2>2, <2>3, SeqEqual
  <1> QED
    BY <1>1, <1>2, <1>3, EstablishesConcat

LEMMA EstablishesFive ==
  ASSUME NEW a, NEW b, NEW c, NEW d, NEW e,
         NEW P, NEW Q, NEW R, NEW T, NEW U, NEW V,
         Follows(P, a, Q), Follows(Q, b, R), Follows(R, c, T), Follows(T, d, U),
         Follows(U, e, V)
  PROVE  Establishes(P, <<a, b, c, d, e>>, V)
  <1> DEFINE S == {a, b, c, d, e}
  <1>0. a \in S /\ b \in S /\ c \in S /\ d \in S /\ e \in S
    OBVIOUS
  <1> HIDE DEF S
  <1>1. <<a, b>> \in Seq(S) /\ <<c, d, e>> \in Seq(S) /\ <<a, b, c, d, e>> \in Seq(S)
    BY <1>0, ListTyped
  <1>2. Establishes(P, <<a, b>>, R) /\ Establishes(R, <<c, d, e>>, V)
    BY EstablishesTwo, EstablishesThree
  <1>3. <<a, b>> \o <<c, d, e>> = <<a, b, c, d, e>>
    <2>1. <<a, b>> \o <<c, d, e>> \in Seq(S)
      BY <1>1, ConcatTyped
    <2>2. Len(<<a, b>> \o <<c, d, e>>) = 5 /\ Len(<<a, b, c, d, e>>) = 5
      OBVIOUS
    <2>3. \A i \in 1 .. 5 : (<<a, b>> \o <<c, d, e>>)[i] = <<a, b, c, d, e>>[i]
      OBVIOUS
    <2> QED
      BY <1>1, <2>1, <2>2, <2>3, SeqEqual
  <1> QED
    BY <1>1, <1>2, <1>3, EstablishesConcat

-----------------------------------------------------------------------------
(* What one call demands and proves.                                       *)

(* A call that does not use memory by itself and gives or takes nothing    *)
(* but what it gives adds that, unless its failure is ignored.             *)
LEMMA CheckedFollows ==
  ASSUME NEW P \in SUBSET Facts, NEW call, call \notin SearchCalls \union {"access", "kernel"},
         NEW c \in Capabilities, c # Handle("up"), NEW needs \in SUBSET Capabilities,
         NEW e, e = Checked(call, c, needs) \/ e = Returned(call, c, needs)
  PROVE  Follows(P, e, P \union {c}) /\ Follows(P, e, P \union {c} \union needs)
  <1>1. /\ e.call = call /\ e.gives = {c} /\ e.drops = {} /\ e.needs = needs
        /\ e.failure # "running"
    BY DEF Checked, Returned, Entry
  <1>2. Demands(e) = {}
    BY <1>1 DEF Demands
  <1>3. Refutes(e) = {} /\ Proves(e) = {c} \union needs
    BY <1>1 DEF Refutes, Proves
  <1> QED
    BY <1>2, <1>3 DEF Follows, Facts

(* Any other keeps what is known.                                          *)
LEMMA QuietFollows ==
  ASSUME NEW P \in SUBSET Facts, NEW e, e.drops = {}, Handle("up") \notin e.gives,
         e.call \notin {"access", "kernel"}
  PROVE  Follows(P, e, P)
  <1>1. Demands(e) = {} /\ Refutes(e) = {}
    BY DEF Demands, Refutes
  <1> QED
    BY <1>1 DEF Follows

LEMMA AccessFollows ==
  ASSUME NEW P \in SUBSET Facts, NEW xs
  PROVE  /\ (\A x \in xs : Memory(x) \in P) => Follows(P, Touch(xs), P)
         /\ (\A x \in xs : Accessible(x) \in P) => Follows(P, Kernel(xs), P)
  <1>1. ASSUME NEW e, e.drops = {}, e.gives = {}, e.needs \subseteq P
        PROVE  Follows(P, e, P)
    <2>1. Demands(e) \subseteq P /\ Refutes(e) = {}
      BY <1>1 DEF Demands, Refutes
    <2> QED
      BY <2>1 DEF Follows
  <1>2. /\ Touch(xs).drops = {} /\ Touch(xs).gives = {}
        /\ Touch(xs).needs = {Memory(x) : x \in xs}
    BY DEF Touch, Entry
  <1>3. /\ Kernel(xs).drops = {} /\ Kernel(xs).gives = {}
        /\ Kernel(xs).needs = {Accessible(x) : x \in xs}
    BY DEF Kernel, Entry
  <1> QED
    BY <1>1, <1>2, <1>3

LEMMA FreeFollows ==
  ASSUME NEW P \in SUBSET Facts, Down \in P, NEW x, NEW failure,
         NEW Q \in SUBSET P, Memory(x) \notin Q, Accessible(x) \notin Q
  PROVE  Follows(P, Free(x, failure), Q)
  <1> SUFFICES ASSUME NEW e, e = Free(x, failure)
               PROVE  Follows(P, e, Q)
    OBVIOUS
  <1>1. /\ e.call = "free" /\ e.gives = {} /\ e.drops = {Memory(x), Accessible(x)}
    BY DEF Free, Entry
  <1>2. Demands(e) \subseteq {Down} /\ Refutes(e) = {Memory(x), Accessible(x)}
    BY <1>1 DEF Demands, Refutes
  <1> QED
    BY <1>2 DEF Follows

LEMMA UpFollows ==
  ASSUME NEW P \in SUBSET Facts, Usable \subseteq P, NEW Q \in SUBSET (P \ {Down})
  PROVE  Follows(P, Checked("return 0", Handle("up"), {}), Q)
  <1> SUFFICES ASSUME NEW e, e = Checked("return 0", Handle("up"), {})
               PROVE  Follows(P, e, Q)
    OBVIOUS
  <1>1. e.call = "return 0" /\ e.gives = {Handle("up")} /\ e.drops = {}
    BY DEF Checked, Entry
  <1>2. Demands(e) \subseteq P /\ Refutes(e) = {Down}
    BY <1>1 DEF Demands, Refutes
  <1> QED
    BY <1>2 DEF Follows

LEMMA TeardownFollows ==
  ASSUME NEW P \in SUBSET Facts
  PROVE  Follows(P, Entry("teardown_uring", {}, {Handle("up")}, {}, "aborted"), {Down})
  <1> SUFFICES ASSUME NEW e, e = Entry("teardown_uring", {}, {Handle("up")}, {}, "aborted")
               PROVE  Follows(P, e, {Down})
    OBVIOUS
  <1>1. /\ e.call = "teardown_uring" /\ e.gives = {} /\ e.drops = {Handle("up")}
        /\ e.needs = {} /\ e.failure = "aborted"
    BY DEF Entry
  <1>2. Handle("up") \notin Usable
    BY Differ DEF Usable
  <1>3. Demands(e) = {} /\ Proves(e) = {Down}
    BY <1>1, <1>2 DEF Demands, Proves, SearchCalls
  <1> QED
    BY <1>3 DEF Follows, Facts

-----------------------------------------------------------------------------
(* The lists.  Typed sequences are over the entries of a program p.        *)

(* The searches find nothing that is needed below, or nothing at all.      *)
LEMMA DiscoverKeeps ==
  ASSUME NEW p, p # "svm_migration_cg", NEW P \in SUBSET Facts
  PROVE  /\ Establishes(P, FindGpu, P)
         /\ Establishes(P, FindCpu, P)
         /\ Establishes(P, FindPool, P)
         /\ Establishes(P, Discover, P)
  <1>1. ASSUME NEW call, NEW x \in {"hsa", "gpu", "cpu", "pool"}, NEW needs,
               call \notin {"access", "kernel"}
        PROVE  Establishes(P, <<Checked(call, Handle(x), needs)>>, P)
    <2> SUFFICES ASSUME NEW e, e = Checked(call, Handle(x), needs)
                 PROVE  Establishes(P, <<e>>, P)
      OBVIOUS
    <2>1. e.drops = {} /\ e.gives = {Handle(x)} /\ e.call = call
      BY DEF Checked, Entry
    <2>2. Handle(x) # Handle("up")
      BY Differ
    <2>3. Follows(P, e, P)
      BY <1>1, <2>1, <2>2, QuietFollows
    <2> QED
      BY <2>3, EstablishesOne
  <1>2. Establishes(P, <<Checked("hsa_init", Handle("hsa"), {})>>, P)
    BY <1>1
  <1>3. Establishes(P, FindGpu, P)
    BY <1>1 DEF FindGpu
  <1>4. Establishes(P, FindCpu, P)
    BY <1>1 DEF FindCpu
  <1>5. Establishes(P, FindPool, P)
    BY <1>1 DEF FindPool
  <1>6. <<Checked("hsa_init", Handle("hsa"), {})>> \in Seq(EntriesOf(p))
    <2>1. Checked("hsa_init", Handle("hsa"), {}) \in EntriesOf(p)
      BY PlainCall, PlainCapabilities DEF CallNames
    <2> QED
      BY <2>1, ListTyped
  <1>7. /\ FindGpu \in Seq(EntriesOf(p)) /\ FindCpu \in Seq(EntriesOf(p))
        /\ FindPool \in Seq(EntriesOf(p))
    BY FindEntries
  <1>8. Establishes(P, <<Checked("hsa_init", Handle("hsa"), {})>> \o FindGpu, P)
    BY <1>2, <1>3, <1>6, <1>7, EstablishesConcat
  <1>9. Establishes(P, <<Checked("hsa_init", Handle("hsa"), {})>> \o FindGpu \o FindCpu, P)
    BY <1>4, <1>6, <1>7, <1>8, EstablishesConcat, ConcatTyped
  <1>10. Establishes(P, Discover, P)
    BY <1>5, <1>6, <1>7, <1>9, EstablishesConcat, ConcatTyped DEF Discover
  <1> QED
    BY <1>3, <1>4, <1>5, <1>10

(* Memory that was allocated and made accessible without an error is.      *)
LEMMA AllocatedGives ==
  ASSUME NEW x \in Buffers, NEW pool \in Pools, NEW P \in SUBSET Facts
  PROVE  Establishes(P, Allocated(x, pool), P \union {Memory(x), Accessible(x)})
  <1> DEFINE a == Checked("allocate", Memory(x), {Handle(pool)})
             b == Checked("allow_access", Accessible(x), {Handle("gpu"), Memory(x)})
             Q == P \union {Memory(x)}
             R == Q \union {Accessible(x)}
  <1>1. /\ Memory(x) \in Capabilities /\ Accessible(x) \in Capabilities
        /\ {Handle(pool)} \in SUBSET Capabilities
        /\ {Handle("gpu"), Memory(x)} \in SUBSET Capabilities
        /\ Memory(x) # Handle("up") /\ Accessible(x) # Handle("up")
    BY InCapabilities, Differ DEF Pools
  <1>2. Q \in SUBSET Facts
    BY <1>1 DEF Facts
  <1>3. Follows(P, a, Q)
    BY <1>1, CheckedFollows DEF SearchCalls
  <1>4. Follows(Q, b, R)
    <2> HIDE DEF Q
    <2> QED
      BY <1>1, <1>2, CheckedFollows DEF SearchCalls
  <1>5. R = P \union {Memory(x), Accessible(x)}
    OBVIOUS
  <1> HIDE DEF a, b, Q, R
  <1>6. Establishes(P, <<a, b>>, R)
    BY <1>3, <1>4, EstablishesTwo
  <1> QED
    BY <1>5, <1>6 DEF Allocated, a, b

LEMMA RegionGives ==
  ASSUME NEW p, NEW x \in {"ring", "sqes", "msgs"}, x \in AllocatedIn(p), NEW P \in SUBSET Facts
  PROVE  Establishes(P, Region(x), P \union {Memory(x), Accessible(x)})
  <1> DEFINE Q == P \union {Memory(x), Accessible(x)}
             m == Ignored("mlock", {}, {Memory(x)})
  <1>1. x \in Buffers /\ "pool" \in Pools /\ PoolOf(p, x) = "pool"
    BY DEF Buffers, Pools, PoolOf
  <1>2. Q \in SUBSET Facts
    BY <1>1, InCapabilities DEF Facts
  <1>3. Establishes(P, Allocated(x, "pool"), Q)
    BY <1>1, AllocatedGives
  <1>4. Follows(Q, Touch({x}), Q)
    BY <1>2, AccessFollows
  <1>5. Follows(Q, m, Q)
    <2>1. m.drops = {} /\ m.gives = {} /\ m.call = "mlock"
      BY DEF Ignored, Entry
    <2> HIDE DEF m, Q
    <2> QED
      BY <1>2, <2>1, QuietFollows
  <1>6. Establishes(Q, <<Touch({x}), m>>, Q)
    <2> HIDE DEF m, Q
    <2> QED
      BY <1>4, <1>5, EstablishesTwo
  <1>7. Touch({x}) \in EntriesOf(p) /\ m \in EntriesOf(p)
    <2>1. {} \in SUBSET Plain /\ {Memory(x)} \in SUBSET Capabilities /\ "mlock" \in CallNames
      BY <1>1, InCapabilities DEF CallNames
    <2> QED
      BY <1>1, <2>1, AccessEntry, PlainIgnored
  <1>8. Allocated(x, "pool") \in Seq(EntriesOf(p)) /\ <<Touch({x}), m>> \in Seq(EntriesOf(p))
    BY <1>1, <1>7, AllocatedEntries, ListTyped
  <1> HIDE DEF Q
  <1>9. Establishes(P, Allocated(x, "pool") \o <<Touch({x}), m>>, Q)
    BY <1>3, <1>6, <1>8, EstablishesConcat
  <1> QED
    BY <1>9 DEF Region, Q

LEMMA OpenRingGives ==
  ASSUME NEW P \in SUBSET Facts
  PROVE  Establishes(P, OpenRing, P \union {Handle("ring_fd"), Registered("files")})
  <1> DEFINE a == Returned("io_uring_setup", Handle("ring_fd"), {Memory("ring"), Memory("sqes")})
             b == Returned("register", Registered("files"), {Handle("ring_fd")})
             Q == P \union {Handle("ring_fd")}
             R == Q \union {Registered("files")}
  <1>1. /\ Handle("ring_fd") \in Capabilities /\ Registered("files") \in Capabilities
        /\ {Handle("ring_fd")} \in SUBSET Capabilities
        /\ {Memory("ring"), Memory("sqes")} \in SUBSET Capabilities
        /\ Handle("ring_fd") # Handle("up") /\ Registered("files") # Handle("up")
    BY InCapabilities, Differ DEF Buffers
  <1>2. Q \in SUBSET Facts
    BY <1>1 DEF Facts
  <1>3. Follows(P, a, Q)
    BY <1>1, CheckedFollows DEF SearchCalls
  <1>4. Follows(Q, b, R)
    <2> HIDE DEF Q
    <2> QED
      BY <1>1, <1>2, CheckedFollows DEF SearchCalls
  <1>5. R = P \union {Handle("ring_fd"), Registered("files")}
    OBVIOUS
  <1> HIDE DEF a, b, Q, R
  <1>6. Establishes(P, <<a, b>>, R)
    BY <1>3, <1>4, EstablishesTwo
  <1> QED
    BY <1>5, <1>6 DEF OpenRing, a, b

LEMMA RegisterPoolGives ==
  ASSUME NEW P \in SUBSET Facts
  PROVE  Establishes(P, RegisterPool, P \union {Registered("buffers")})
  <1>1. /\ Registered("buffers") \in Capabilities /\ Registered("buffers") # Handle("up")
        /\ {Handle("ring_fd"), Memory("msgs")} \in SUBSET Capabilities
    BY InCapabilities, Differ DEF Buffers
  <1>2. Follows(P, Returned("register", Registered("buffers"), {Handle("ring_fd"), Memory("msgs")}),
                P \union {Registered("buffers")})
    BY <1>1, CheckedFollows DEF SearchCalls
  <1> QED
    BY <1>2, EstablishesOne DEF RegisterPool

LEMMA WakePollerKeeps ==
  ASSUME NEW P \in SUBSET Facts
  PROVE  Establishes(P, WakePoller, P)
  <1> DEFINE e == Ignored("io_uring_enter", {}, {Handle("ring_fd")})
  <1>1. e.drops = {} /\ e.gives = {} /\ e.call = "io_uring_enter"
    BY DEF Ignored, Entry
  <1> HIDE DEF e
  <1>2. Establishes(P, <<e>>, P)
    BY <1>1, QuietFollows, EstablishesOne
  <1> QED
    BY <1>2 DEF WakePoller, e

LEMMA UsableFacts ==
  /\ Usable \in SUBSET Capabilities /\ Usable \in SUBSET Facts
  /\ Down \in Facts /\ Down \notin Capabilities /\ Down \notin Usable
  /\ \A x \in Shared \ {"ctx"} : Memory(x) \in Usable /\ Accessible(x) \in Usable
  <1>1. Usable \in SUBSET Capabilities
    BY InCapabilities DEF Usable, Buffers
  <1>2. Down \notin Capabilities
    BY DEF Capabilities, Down, Handle, Memory, Accessible, Registered
  <1>3. Shared \ {"ctx"} = {"ring", "sqes", "msgs"}
    BY DEF Shared
  <1> QED
    BY <1>1, <1>2, <1>3 DEF Facts, Usable

(* After set-up, whatever went on without an error, printing is possible.  *)
LEMMA SetupUringGives ==
  ASSUME NEW p, p # "svm_migration_cg", {"ring", "sqes", "msgs"} \subseteq AllocatedIn(p),
         NEW wake \in Seq(EntriesOf(p)), NEW P \in SUBSET Facts,
         \A Q \in SUBSET Facts : Establishes(Q, wake, Q)
  PROVE  Establishes(P, SetupUring(wake), (P \union Usable) \ {Down})
  <1> DEFINE P1 == P \union {Memory("ring"), Accessible("ring")}
             P2 == P1 \union {Memory("sqes"), Accessible("sqes")}
             P3 == P2 \union {Handle("ring_fd"), Registered("files")}
             P4 == P3 \union {Memory("msgs"), Accessible("msgs")}
             P5 == P4 \union {Registered("buffers")}
             s1 == Discover \o Region("ring")
             s2 == s1 \o Region("sqes")
             s3 == s2 \o OpenRing
             s4 == s3 \o Region("msgs")
             s5 == s4 \o RegisterPool
             s6 == s5 \o wake
             up == Checked("return 0", Handle("up"), {})
  <1>1. P5 = P \union Usable
    BY DEF Usable
  <1>2. P5 \in SUBSET Facts
    BY <1>1, UsableFacts
  <1>3. /\ P1 \in SUBSET Facts /\ P2 \in SUBSET Facts
        /\ P3 \in SUBSET Facts /\ P4 \in SUBSET Facts
    BY <1>2
  <1>4. /\ Discover \in Seq(EntriesOf(p)) /\ Region("ring") \in Seq(EntriesOf(p))
        /\ Region("sqes") \in Seq(EntriesOf(p)) /\ Region("msgs") \in Seq(EntriesOf(p))
    BY FindEntries, RegionEntries
  <1>5. <<up>> \in Seq(EntriesOf(p))
    BY HandleEntries, ListTyped
  <1>6. OpenRing \in Seq(EntriesOf(p)) /\ RegisterPool \in Seq(EntriesOf(p))
    BY OpenRingEntries, RegisterPoolEntries
  <1>7. /\ s1 \in Seq(EntriesOf(p)) /\ s2 \in Seq(EntriesOf(p)) /\ s3 \in Seq(EntriesOf(p))
        /\ s4 \in Seq(EntriesOf(p)) /\ s5 \in Seq(EntriesOf(p)) /\ s6 \in Seq(EntriesOf(p))
    BY <1>4, <1>6, ConcatTyped
  <1>8. /\ Establishes(P, Region("ring"), P1)
        /\ Establishes(P1, Region("sqes"), P2)
        /\ Establishes(P2, OpenRing, P3)
        /\ Establishes(P3, Region("msgs"), P4)
        /\ Establishes(P4, RegisterPool, P5)
    <2>1. Establishes(P, Region("ring"), P1)
      BY RegionGives
    <2>2. Establishes(P1, Region("sqes"), P2)
      <3> HIDE DEF P1
      <3> QED
        BY <1>3, RegionGives
    <2>3. Establishes(P2, OpenRing, P3)
      <3> HIDE DEF P2
      <3> QED
        BY <1>3, OpenRingGives
    <2>4. Establishes(P3, Region("msgs"), P4)
      <3> HIDE DEF P3
      <3> QED
        BY <1>3, RegionGives
    <2>5. Establishes(P4, RegisterPool, P5)
      <3> HIDE DEF P4
      <3> QED
        BY <1>3, RegisterPoolGives
    <2> QED
      BY <2>1, <2>2, <2>3, <2>4, <2>5
  <1> HIDE DEF P1, P2, P3, P4, P5
  <1>9. Follows(P5, up, P5 \ {Down})
    BY <1>1, <1>2, UpFollows
  <1>10. Establishes(P5, <<up>>, P5 \ {Down})
    BY <1>9, EstablishesOne
  <1>11. Establishes(P, Discover, P)
    BY DiscoverKeeps
  <1>12. Establishes(P, s1, P1)
    BY <1>4, <1>8, <1>11, EstablishesConcat
  <1>13. Establishes(P, s2, P2)
    <2> HIDE DEF s1
    <2> QED
      BY <1>4, <1>7, <1>8, <1>12, EstablishesConcat
  <1>14. Establishes(P, s3, P3)
    <2> HIDE DEF s2
    <2> QED
      BY <1>6, <1>7, <1>8, <1>13, EstablishesConcat
  <1>15. Establishes(P, s4, P4)
    <2> HIDE DEF s3
    <2> QED
      BY <1>4, <1>7, <1>8, <1>14, EstablishesConcat
  <1>16. Establishes(P, s5, P5)
    <2> HIDE DEF s4
    <2> QED
      BY <1>6, <1>7, <1>8, <1>15, EstablishesConcat
  <1>17. Establishes(P, s6, P5)
    <2> HIDE DEF s5
    <2> QED
      BY <1>2, <1>7, <1>16, EstablishesConcat
  <1>18. Establishes(P, s6 \o <<up>>, P5 \ {Down})
    <2> HIDE DEF s6, up
    <2> QED
      BY <1>5, <1>7, <1>10, <1>17, EstablishesConcat
  <1>19. SetupUring(wake) = s6 \o <<up>>
    BY DEF SetupUring
  <1> QED
    BY <1>1, <1>18, <1>19

(* Tear-down starts by taking the handle back, and so may free the rings.  *)
LEMMA TeardownUringGives ==
  ASSUME NEW p, NEW wake \in Seq(EntriesOf(p)), NEW P \in SUBSET Facts,
         \A Q \in SUBSET Facts : Establishes(Q, wake, Q)
  PROVE  Establishes(P, TeardownUring(wake), {Down})
  <1> DEFINE e == Entry("teardown_uring", {}, {Handle("up")}, {}, "aborted")
             frees == <<Free("msgs", "running"), Free("ring", "running"), Free("sqes", "running")>>
             Q == {Down}
  <1>1. <<e>> \in Seq(EntriesOf(p))
    BY TeardownEntry, ListTyped
  <1>2. frees \in Seq(EntriesOf(p))
    <2>1. /\ Free("msgs", "running") \in EntriesOf(p)
          /\ Free("ring", "running") \in EntriesOf(p)
          /\ Free("sqes", "running") \in EntriesOf(p)
      BY FreeEntry DEF Buffers
    <2> QED
      BY <2>1, ListTyped
  <1>3. Establishes(P, <<e>>, Q)
    BY TeardownFollows, EstablishesOne
  <1>4. Q \in SUBSET Facts /\ Down \in Q
    BY UsableFacts
  <1>5. \A x : Memory(x) \notin Q /\ Accessible(x) \notin Q
    BY DEF Down, Memory, Accessible
  <1> HIDE DEF Q
  <1>6. /\ Follows(Q, Free("msgs", "running"), Q)
        /\ Follows(Q, Free("ring", "running"), Q)
        /\ Follows(Q, Free("sqes", "running"), Q)
    BY <1>4, <1>5, FreeFollows
  <1>7. Establishes(Q, frees, Q)
    BY <1>6, EstablishesThree
  <1> HIDE DEF e, frees
  <1>8. Establishes(P, <<e>> \o wake, Q)
    BY <1>1, <1>3, <1>4, EstablishesConcat
  <1>9. Establishes(P, (<<e>> \o wake) \o frees, Q)
    BY <1>1, <1>2, <1>7, <1>8, EstablishesConcat, ConcatTyped
  <1> QED
    BY <1>9 DEF TeardownUring, e, frees, Q

(* Calls that report their failure at most, and know nothing new.          *)
LEMMA IgnoredFollows ==
  ASSUME NEW P \in SUBSET Facts, NEW call, call \notin {"access", "kernel"},
         NEW gives, Handle("up") \notin gives, NEW needs
  PROVE  Follows(P, Ignored(call, gives, needs), P)
  <1> SUFFICES ASSUME NEW e, e = Ignored(call, gives, needs)
               PROVE  Follows(P, e, P)
    OBVIOUS
  <1>1. e.drops = {} /\ e.gives = gives /\ e.call = call
    BY DEF Ignored, Entry
  <1> QED
    BY <1>1, QuietFollows

LEMMA PlainFollows ==
  ASSUME NEW P \in SUBSET Facts, NEW call, call \notin {"access", "kernel"},
         NEW c, c # Handle("up"), NEW needs
  PROVE  Follows(P, Checked(call, c, needs), P)
  <1> SUFFICES ASSUME NEW e, e = Checked(call, c, needs)
               PROVE  Follows(P, e, P)
    OBVIOUS
  <1>1. e.drops = {} /\ e.gives = {c} /\ e.call = call
    BY DEF Checked, Entry
  <1> QED
    BY <1>1, QuietFollows

LEMMA DevReturnGives ==
  ASSUME NEW P \in SUBSET Facts
  PROVE  Establishes(P, DevReturn("vram"),
                     P \union {Memory("dev_ret"), Accessible("dev_ret")})
  <1> DEFINE x == "dev_ret"
             a == Checked("allocate", Memory(x), {Handle("vram")})
             f == Ignored("memory_fill", {}, {Memory(x)})
             b == Checked("allow_access", Accessible(x), {Handle("gpu"), Memory(x)})
             Q == P \union {Memory(x)}
             R == Q \union {Accessible(x)}
  <1>1. /\ Memory(x) \in Capabilities /\ Accessible(x) \in Capabilities
        /\ {Handle("vram")} \in SUBSET Capabilities
        /\ {Handle("gpu"), Memory(x)} \in SUBSET Capabilities
        /\ Memory(x) # Handle("up") /\ Accessible(x) # Handle("up")
    <2>1. x \in Buffers
      BY DEF Buffers
    <2> QED
      BY <2>1, InCapabilities, Differ
  <1>2. Q \in SUBSET Facts
    BY <1>1 DEF Facts
  <1>3. Follows(P, a, Q)
    BY <1>1, CheckedFollows DEF SearchCalls
  <1>4. Follows(Q, f, Q)
    <2> HIDE DEF Q
    <2> QED
      BY <1>2, IgnoredFollows
  <1>5. Follows(Q, b, R)
    <2> HIDE DEF Q
    <2> QED
      BY <1>1, <1>2, CheckedFollows DEF SearchCalls
  <1>6. R = P \union {Memory(x), Accessible(x)}
    OBVIOUS
  <1> HIDE DEF a, f, b, Q, R
  <1>7. Establishes(P, <<a, f, b>>, R)
    BY <1>3, <1>4, <1>5, EstablishesThree
  <1> QED
    BY <1>6, <1>7 DEF DevReturn, a, f, b

(* main's own context is there before set-up and during the kernel.        *)
LEMMA GpuMainGives ==
  ASSUME NEW p, p # "svm_migration_cg", "ctx" \in AllocatedIn(p), PoolOf(p, "ctx") = "pool",
         NEW setup \in Seq(EntriesOf(p)), NEW teardown \in Seq(EntriesOf(p)),
         \A P \in SUBSET Facts : Establishes(P, setup, (P \union Usable) \ {Down}),
         \A P \in SUBSET Facts : Establishes(P, teardown, {Down})
  PROVE  Establishes({Down}, GpuMain(setup, teardown), {Down})
  <1> DEFINE P0 == {Down}
             P1 == P0 \union {Memory("ctx"), Accessible("ctx")}
             P2 == (P1 \union Usable) \ {Down}
             touch == <<Touch({"ctx"})>>
             use == <<Touch(Shared), Kernel(Shared), Touch(Shared)>>
             last == <<Free("ctx", "running"), Ignored("hsa_shut_down", {}, {})>>
             s1 == Discover \o Allocated("ctx", "pool")
             s2 == s1 \o touch
             s3 == s2 \o setup
             s4 == s3 \o use
             s5 == s4 \o teardown
  <1>1. "ctx" \in Buffers /\ "pool" \in Pools /\ Shared \in SUBSET Buffers
    BY DEF Buffers, Pools, Shared
  <1>2. P0 \in SUBSET Facts /\ P1 \in SUBSET Facts /\ P2 \in SUBSET Facts
    <2>1. Memory("ctx") \in Facts /\ Accessible("ctx") \in Facts
      BY <1>1, InCapabilities DEF Facts
    <2> QED
      BY <2>1, UsableFacts
  <1>3. \A x \in Shared : Memory(x) \in P2 /\ Accessible(x) \in P2
    <2>1. \A x : Memory(x) # Down /\ Accessible(x) # Down
      BY DEF Memory, Accessible, Down
    <2> QED
      BY <2>1, UsableFacts
  <1>4. Down \in P0 /\ \A x : Memory(x) \notin P0 /\ Accessible(x) \notin P0
    BY DEF Memory, Accessible, Down
  <1>5. /\ Discover \in Seq(EntriesOf(p)) /\ Allocated("ctx", "pool") \in Seq(EntriesOf(p))
        /\ touch \in Seq(EntriesOf(p)) /\ use \in Seq(EntriesOf(p))
        /\ last \in Seq(EntriesOf(p))
    <2>1. Discover \in Seq(EntriesOf(p)) /\ Allocated("ctx", "pool") \in Seq(EntriesOf(p))
      BY <1>1, FindEntries, AllocatedEntries
    <2>2. touch \in Seq(EntriesOf(p)) /\ use \in Seq(EntriesOf(p))
      BY <1>1, AccessEntry, ListTyped
    <2>3. last \in Seq(EntriesOf(p))
      <3>1. Free("ctx", "running") \in EntriesOf(p)
        BY <1>1, FreeEntry
      <3> QED
        BY <3>1, ShutDownEntry, ListTyped
    <2> QED
      BY <2>1, <2>2, <2>3
  <1>6. /\ s1 \in Seq(EntriesOf(p)) /\ s2 \in Seq(EntriesOf(p)) /\ s3 \in Seq(EntriesOf(p))
        /\ s4 \in Seq(EntriesOf(p)) /\ s5 \in Seq(EntriesOf(p))
    BY <1>5, ConcatTyped
  <1>7. Establishes(P0, Discover, P0) /\ Establishes(P0, Allocated("ctx", "pool"), P1)
    BY <1>1, <1>2, DiscoverKeeps, AllocatedGives
  <1>8. Establishes(P1, touch, P1)
    <2>1. Memory("ctx") \in P1
      OBVIOUS
    <2>2. Follows(P1, Touch({"ctx"}), P1)
      BY <1>2, <2>1, AccessFollows
    <2> QED
      BY <2>2, EstablishesOne
  <1>9. Establishes(P1, setup, P2)
    BY <1>2
  <1> HIDE DEF P0, P1, P2
  <1>10. Establishes(P2, use, P2)
    <2>1. Follows(P2, Touch(Shared), P2) /\ Follows(P2, Kernel(Shared), P2)
      BY <1>2, <1>3, AccessFollows
    <2> QED
      BY <2>1, EstablishesThree
  <1>11. Establishes(P2, teardown, P0)
    BY <1>2 DEF P0
  <1>12. Establishes(P0, last, P0)
    <2>1. Follows(P0, Free("ctx", "running"), P0)
      BY <1>2, <1>4, FreeFollows
    <2>2. Follows(P0, Ignored("hsa_shut_down", {}, {}), P0)
      BY <1>2, IgnoredFollows
    <2> QED
      BY <2>1, <2>2, EstablishesTwo
  <1> HIDE DEF touch, use, last
  <1>13. Establishes(P0, s1, P1)
    BY <1>5, <1>7, EstablishesConcat
  <1>14. Establishes(P0, s2, P1)
    <2> HIDE DEF s1
    <2> QED
      BY <1>5, <1>6, <1>8, <1>13, EstablishesConcat
  <1>15. Establishes(P0, s3, P2)
    <2> HIDE DEF s2
    <2> QED
      BY <1>6, <1>9, <1>14, EstablishesConcat
  <1>16. Establishes(P0, s4, P2)
    <2> HIDE DEF s3
    <2> QED
      BY <1>5, <1>6, <1>10, <1>15, EstablishesConcat
  <1>17. Establishes(P0, s5, P0)
    <2> HIDE DEF s4
    <2> QED
      BY <1>6, <1>11, <1>16, EstablishesConcat
  <1>18. Establishes(P0, s5 \o last, P0)
    <2> HIDE DEF s5
    <2> QED
      BY <1>5, <1>6, <1>12, <1>17, EstablishesConcat
  <1>19. GpuMain(setup, teardown) = s5 \o last
    BY DEF GpuMain, touch, use, last
  <1> QED
    BY <1>18, <1>19 DEF P0

LEMMA MappedGives ==
  ASSUME NEW x \in Buffers, NEW P \in SUBSET Facts
  PROVE  Establishes(P, Mapped(x), P \union {Memory(x), Accessible(x)})
  <1> DEFINE a == Checked("mmap", Memory(x), {Handle("ring_fd")})
             b == Checked("memory_lock", Accessible(x), {Handle("hsa"), Memory(x)})
             Q == P \union {Memory(x)}
             R == Q \union {Accessible(x)}
  <1>1. /\ Memory(x) \in Capabilities /\ Accessible(x) \in Capabilities
        /\ {Handle("ring_fd")} \in SUBSET Capabilities
        /\ {Handle("hsa"), Memory(x)} \in SUBSET Capabilities
        /\ Memory(x) # Handle("up") /\ Accessible(x) # Handle("up")
    BY InCapabilities, Differ
  <1>2. Q \in SUBSET Facts
    BY <1>1 DEF Facts
  <1>3. Follows(P, a, Q)
    BY <1>1, CheckedFollows DEF SearchCalls
  <1>4. Follows(Q, b, R)
    <2> HIDE DEF Q
    <2> QED
      BY <1>1, <1>2, CheckedFollows DEF SearchCalls
  <1>5. R = P \union {Memory(x), Accessible(x)}
    OBVIOUS
  <1> HIDE DEF a, b, Q, R
  <1>6. Establishes(P, <<a, b>>, R)
    BY <1>3, <1>4, EstablishesTwo
  <1> QED
    BY <1>5, <1>6 DEF Mapped, a, b

(* io_uring_setup goes unchecked at first, but the descriptor it returned  *)
(* is what the files are registered with.                                  *)
LEMMA CpuMtSetupGives ==
  ASSUME NEW p \in {"io_uring_cpu_mt", "io_uring_cpu_mt_gpu"}, NEW P \in SUBSET Facts
  PROVE  Establishes(P, CpuMtSetup, (P \union Usable) \ {Down})
  <1> DEFINE P1 == P \union {Registered("files")} \union {Handle("ring_fd")}
             PR == P1 \union {Memory("ring"), Accessible("ring")}
             P2 == PR \union {Memory("cq"), Accessible("cq")}
             P3 == P2 \union {Memory("sqes"), Accessible("sqes")}
             P4 == P3 \union {Memory("msgs")}
             P5 == P4 \union {Accessible("msgs")}
             P6 == P5 \union {Registered("buffers")}
             init == Checked("hsa_init", Handle("hsa"), {})
             open == Ignored("io_uring_setup", {Handle("ring_fd")}, {})
             files == Checked("register", Registered("files"), {Handle("ring_fd")})
             assert == Checked("assert_fd", Handle("asserted"), {Handle("ring_fd")})
             alloc == Checked("aligned_alloc", Memory("msgs"), {})
             lock == Checked("memory_lock", Accessible("msgs"), {Handle("hsa"), Memory("msgs")})
             pool == Checked("register", Registered("buffers"), {Handle("ring_fd"), Memory("msgs")})
             up == Checked("return 0", Handle("up"), {})
             s0 == <<init, open, files, assert>>
             s1 == s0 \o Mapped("ring") \o Mapped("cq")
             s2 == s1 \o Mapped("sqes")
             s3 == s2 \o WakePoller
             last == <<alloc, Touch({"msgs"}), lock, pool, up>>
  <1>1. /\ {"ring", "cq", "sqes", "msgs"} \in SUBSET Buffers
        /\ AllocatedIn(p) = {}
    BY DEF Buffers, AllocatedIn
  <1>2. P \union Usable \subseteq P6
    BY DEF Usable
  <1>3. P6 \in SUBSET Facts
    <2>1. P6 = P \union Usable \union {Memory("cq"), Accessible("cq")}
      BY DEF Usable
    <2>2. {Memory("cq"), Accessible("cq")} \in SUBSET Facts
      BY <1>1, InCapabilities DEF Facts
    <2> HIDE DEF P6
    <2> QED
      BY <2>1, <2>2, UsableFacts
  <1>4. /\ P1 \in SUBSET Facts /\ PR \in SUBSET Facts /\ P2 \in SUBSET Facts /\ P3 \in SUBSET Facts
        /\ P4 \in SUBSET Facts /\ P5 \in SUBSET Facts
    BY <1>3
  <1>5. /\ Memory("msgs") \in Capabilities /\ Accessible("msgs") \in Capabilities
        /\ Registered("files") \in Capabilities /\ Registered("buffers") \in Capabilities
        /\ {Handle("ring_fd")} \in SUBSET Capabilities /\ {} \in SUBSET Capabilities
        /\ {Handle("hsa"), Memory("msgs")} \in SUBSET Capabilities
        /\ {Handle("ring_fd"), Memory("msgs")} \in SUBSET Capabilities
    BY <1>1, InCapabilities
  <1>6. /\ \A x : Memory(x) # Handle("up") /\ Accessible(x) # Handle("up")
        /\ \A x : Registered(x) # Handle("up")
        /\ Handle("hsa") # Handle("up") /\ Handle("asserted") # Handle("up")
        /\ Handle("up") \notin {Handle("ring_fd")}
    BY Differ
  <1>7. Establishes(P, s0, P1)
    <2>1. Follows(P, init, P)
      BY <1>6, PlainFollows
    <2>2. Follows(P, open, P)
      BY <1>6, IgnoredFollows
    <2>3. Follows(P, files, P1)
      BY <1>5, <1>6, CheckedFollows DEF SearchCalls
    <2>4. Follows(P1, assert, P1)
      <3> HIDE DEF P1
      <3> QED
        BY <1>4, <1>6, PlainFollows
    <2> HIDE DEF init, open, files, assert, P1
    <2> QED
      BY <2>1, <2>2, <2>3, <2>4, EstablishesFour
  <1>8. Establishes(P1, Mapped("ring"), PR) /\ Establishes(PR, Mapped("cq"), P2)
    <2>1. Establishes(P1, Mapped("ring"), PR)
      <3> HIDE DEF P1
      <3> QED
        BY <1>1, <1>4, MappedGives
    <2>2. Establishes(PR, Mapped("cq"), P2)
      <3> HIDE DEF PR
      <3> QED
        BY <1>1, <1>4, MappedGives
    <2> QED
      BY <2>1, <2>2
  <1>9. Establishes(P2, Mapped("sqes"), P3) /\ Establishes(P3, WakePoller, P3)
    <2> HIDE DEF P2
    <2> QED
      BY <1>1, <1>4, MappedGives, WakePollerKeeps
  <1>10. Establishes(P3, last, (P \union Usable) \ {Down})
    <2>1. Follows(P3, alloc, P4)
      <3> HIDE DEF P3
      <3> QED
        BY <1>4, <1>5, <1>6, CheckedFollows DEF SearchCalls
    <2>2. Follows(P4, Touch({"msgs"}), P4)
      <3>1. Memory("msgs") \in P4
        OBVIOUS
      <3> HIDE DEF P4
      <3> QED
        BY <1>4, <3>1, AccessFollows
    <2>3. Follows(P4, lock, P5)
      <3> HIDE DEF P4
      <3> QED
        BY <1>4, <1>5, <1>6, CheckedFollows DEF SearchCalls
    <2>4. Follows(P5, pool, P6)
      <3> HIDE DEF P5
      <3> QED
        BY <1>4, <1>5, <1>6, CheckedFollows DEF SearchCalls
    <2> HIDE DEF P3, P4, P5, P6
    <2>5. Follows(P6, up, (P \union Usable) \ {Down})
      BY <1>2, <1>3, UpFollows
    <2> HIDE DEF alloc, lock, pool, up
    <2> QED
      BY <2>1, <2>2, <2>3, <2>4, <2>5, EstablishesFive
  <1>11. s0 \in Seq(EntriesOf(p))
    <2>1. init \in EntriesOf(p)
      BY <1>5, PlainCall, PlainCapabilities DEF CallNames
    <2>2. open \in EntriesOf(p)
      <3>1. {Handle("ring_fd")} \in SUBSET Plain
        BY PlainCapabilities
      <3> QED
        BY <1>5, <3>1, PlainIgnored DEF CallNames
    <2>3. files \in EntriesOf(p)
      BY <1>5, PlainCall, PlainCapabilities DEF CallNames
    <2>4. assert \in EntriesOf(p)
      BY <1>5, PlainCall, PlainCapabilities DEF CallNames
    <2> QED
      BY <2>1, <2>2, <2>3, <2>4, ListTyped
  <1>12. last \in Seq(EntriesOf(p))
    <2>1. alloc \in EntriesOf(p)
      BY <1>1, <1>5, MemoryEntry DEF CallNames
    <2>2. Touch({"msgs"}) \in EntriesOf(p)
      BY <1>1, AccessEntry
    <2>3. lock \in EntriesOf(p)
      BY <1>1, <1>5, PlainCall, PlainCapabilities DEF CallNames
    <2>4. pool \in EntriesOf(p)
      BY <1>5, PlainCall, PlainCapabilities DEF CallNames
    <2>5. up \in EntriesOf(p)
      BY HandleEntries
    <2> QED
      BY <2>1, <2>2, <2>3, <2>4, <2>5, ListTyped
  <1>13. /\ Mapped("ring") \in Seq(EntriesOf(p)) /\ Mapped("cq") \in Seq(EntriesOf(p))
         /\ Mapped("sqes") \in Seq(EntriesOf(p)) /\ WakePoller \in Seq(EntriesOf(p))
    BY <1>1, MappedEntries, WakePollerEntries
  <1>14. /\ s1 \in Seq(EntriesOf(p)) /\ s2 \in Seq(EntriesOf(p)) /\ s3 \in Seq(EntriesOf(p))
    BY <1>11, <1>13, ConcatTyped
  <1>15. CpuMtSetup = s3 \o last
    BY DEF CpuMtSetup
  <1> HIDE DEF P1, PR, P2, P3, P4, P5, P6, s0, last
  <1>16. Establishes(P, s1, P2)
    <2>1. Establishes(P, s0 \o Mapped("ring"), PR)
      BY <1>7, <1>8, <1>11, <1>13, EstablishesConcat
    <2> QED
      BY <1>8, <1>11, <1>13, <2>1, EstablishesConcat, ConcatTyped
  <1>17. Establishes(P, s2, P3)
    <2> HIDE DEF s1
    <2> QED
      BY <1>9, <1>13, <1>14, <1>16, EstablishesConcat
  <1>18. Establishes(P, s3, P3)
    <2> HIDE DEF s2
    <2> QED
      BY <1>9, <1>13, <1>14, <1>17, EstablishesConcat
  <1>19. Establishes(P, s3 \o last, (P \union Usable) \ {Down})
    <2> HIDE DEF s3
    <2> QED
      BY <1>10, <1>12, <1>14, <1>18, EstablishesConcat
  <1> QED
    BY <1>15, <1>19

LEMMA CpuMtTeardownGives ==
  ASSUME NEW P \in SUBSET Facts
  PROVE  Establishes(P, CpuMtTeardown, {Down})
  <1> DEFINE e == Entry("teardown_uring", {}, {Handle("up")}, {}, "aborted")
             Q == {Down}
  <1>1. Q \in SUBSET Facts /\ Down \in Q
    BY UsableFacts
  <1>2. \A x : Memory(x) \notin Q /\ Accessible(x) \notin Q
    BY DEF Down, Memory, Accessible
  <1>3. Follows(P, e, Q)
    BY TeardownFollows
  <1> HIDE DEF Q
  <1>4. Follows(Q, Free("msgs", "running"), Q)
    BY <1>1, <1>2, FreeFollows
  <1> HIDE DEF e
  <1>5. Establishes(P, <<e, Free("msgs", "running")>>, Q)
    BY <1>3, <1>4, EstablishesTwo
  <1> QED
    BY <1>5 DEF CpuMtTeardown, e, Q

LEMMA SvmTargetEditBufferGives ==
  Establishes({Down}, SvmTargetEditBuffer, {Down})
  <1> DEFINE p == "svm_target_edit_buffer"
             P0 == {Down}
             P1 == P0 \union {Memory("buf"), Accessible("buf")}
             last == <<Touch({"buf"}), Kernel({"buf"}), Touch({"buf"}),
                       Free("buf", "running"), Ignored("hsa_shut_down", {}, {})>>
  <1>1. /\ p # "svm_migration_cg" /\ "buf" \in Buffers /\ "buf" \in AllocatedIn(p)
        /\ PoolOf(p, "buf") = "pool" /\ "pool" \in Pools
    BY DEF Buffers, AllocatedIn, PoolOf, Pools
  <1>2. P0 \in SUBSET Facts /\ P1 \in SUBSET Facts
    <2>1. Memory("buf") \in Facts /\ Accessible("buf") \in Facts
      BY <1>1, InCapabilities DEF Facts
    <2> QED
      BY <2>1, UsableFacts
  <1>3. /\ Down \in P0 /\ Down \in P1 /\ P0 \in SUBSET P1
        /\ \A x : Memory(x) \notin P0 /\ Accessible(x) \notin P0
        /\ Memory("buf") \in P1 /\ Accessible("buf") \in P1
    BY DEF Memory, Accessible, Down
  <1>4. /\ Discover \in Seq(EntriesOf(p)) /\ Allocated("buf", "pool") \in Seq(EntriesOf(p))
        /\ last \in Seq(EntriesOf(p))
    <2>1. Discover \in Seq(EntriesOf(p)) /\ Allocated("buf", "pool") \in Seq(EntriesOf(p))
      BY <1>1, FindEntries, AllocatedEntries
    <2>2. Touch({"buf"}) \in EntriesOf(p) /\ Kernel({"buf"}) \in EntriesOf(p)
      BY <1>1, AccessEntry
    <2>3. Free("buf", "running") \in EntriesOf(p)
      BY <1>1, FreeEntry
    <2>4. last \in Seq(EntriesOf(p))
      BY <2>2, <2>3, ShutDownEntry, ListTyped
    <2> QED
      BY <2>1, <2>4
  <1>5. Establishes(P0, Discover, P0) /\ Establishes(P0, Allocated("buf", "pool"), P1)
    BY <1>1, <1>2, DiscoverKeeps, AllocatedGives
  <1> HIDE DEF p, P0, P1
  <1>6. Establishes(P1, last, P0)
    <2>1. Follows(P1, Touch({"buf"}), P1) /\ Follows(P1, Kernel({"buf"}), P1)
      BY <1>2, <1>3, AccessFollows
    <2>2. Follows(P1, Free("buf", "running"), P0)
      BY <1>2, <1>3, FreeFollows
    <2>3. Follows(P0, Ignored("hsa_shut_down", {}, {}), P0)
      BY <1>2, IgnoredFollows
    <2> QED
      BY <2>1, <2>2, <2>3, EstablishesFive
  <1> HIDE DEF last
  <1>7. Establishes(P0, Discover \o Allocated("buf", "pool"), P1)
    BY <1>4, <1>5, EstablishesConcat
  <1>8. Establishes(P0, (Discover \o Allocated("buf", "pool")) \o last, P0)
    BY <1>4, <1>6, <1>7, EstablishesConcat, ConcatTyped
  <1> QED
    BY <1>8 DEF SvmTargetEditBuffer, P0, last

(* Before its kernels svm_migration_fg has every buffer that they use, and *)
(* it reads the migrated page when the allocated buffers are freed.        *)
LEMMA SvmMigrationFgGives ==
  Establishes({Down}, SvmMigrationFg, {Down, Memory("svm")})
  <1> DEFINE p == "svm_migration_fg"
             P0 == {Down}
             P1 == P0 \union {Memory("svm")}
             P2 == P1 \union {Accessible("svm")}
             P3 == P2 \union {Memory("cg"), Accessible("cg")}
             P4 == P3 \union {Memory("dev_ret"), Accessible("dev_ret")}
             P5 == P4 \union {Memory("fg"), Accessible("fg")}
             P6 == P5 \union {Memory("rpc"), Accessible("rpc")}
             kernargs == <<Checked("get_kernargs", Handle("kernargs"), {Handle("cpu")})>>
             pools == <<Checked("get_vram", Handle("vram"), {Handle("gpu")}),
                        Checked("get_alloc_allowed", Handle("alloc_ok"), {Handle("pool")})>>
             kernels == <<Kernel({"svm"}), Kernel({"cg"}), Kernel({"fg"})>>
             last == <<Free("cg", "aborted"), Free("fg", "aborted"),
                       Free("dev_ret", "aborted"), Free("rpc", "aborted"), Touch({"svm"})>>
             s1 == OmpStart \o FindGpu \o FindCpu \o kernargs
             s2 == s1 \o FindPool \o pools \o SvmQueries
             s3 == s2 \o MapSvm
             s4 == s3 \o BenchmarkBuffers
             s5 == s4 \o kernels
  <1>1. /\ p # "svm_migration_cg" /\ {"svm", "cg", "dev_ret", "fg", "rpc"} \in SUBSET Buffers
        /\ {"cg", "dev_ret", "fg", "rpc"} \in SUBSET AllocatedIn(p)
        /\ PoolOf(p, "cg") = "vram" /\ PoolOf(p, "dev_ret") = "vram"
        /\ PoolOf(p, "fg") = "pool" /\ PoolOf(p, "rpc") = "pool"
        /\ "pool" \in Pools /\ "vram" \in Pools
    BY DEF Buffers, AllocatedIn, PoolOf, Pools
  <1>2. \A x \in {"svm", "cg", "dev_ret", "fg", "rpc"} :
          /\ Memory(x) \in Capabilities /\ Accessible(x) \in Capabilities
          /\ Memory(x) # Handle("up") /\ Accessible(x) # Handle("up")
    BY <1>1, InCapabilities, Differ
  <1>3. P0 \in SUBSET Facts /\ P1 \in SUBSET Facts /\ P2 \in SUBSET Facts
    BY <1>2, UsableFacts DEF Facts
  <1>4. P3 \in SUBSET Facts /\ P4 \in SUBSET Facts /\ P5 \in SUBSET Facts /\ P6 \in SUBSET Facts
    <2> HIDE DEF P2
    <2> QED
      BY <1>2, <1>3 DEF Facts
  <1>5. /\ Down \in P1 /\ Memory("svm") \in P1 /\ Down \in P6 /\ P1 \in SUBSET P6
        /\ Accessible("svm") \in P6 /\ Accessible("cg") \in P6 /\ Accessible("fg") \in P6
        /\ \A x \in {"cg", "dev_ret", "fg", "rpc"} : Memory(x) \notin P1 /\ Accessible(x) \notin P1
    <2>1. \A x \in {"cg", "dev_ret", "fg", "rpc"} :
            /\ Memory(x) # Memory("svm") /\ Accessible(x) # Memory("svm")
            /\ Memory(x) # Down /\ Accessible(x) # Down
      BY DEF Memory, Accessible, Down
    <2> QED
      BY <2>1
  <1>6. /\ Handle("kernargs") # Handle("up") /\ Handle("vram") # Handle("up")
        /\ Handle("alloc_ok") # Handle("up") /\ Handle("svm_supported") # Handle("up")
        /\ Handle("svm_default") # Handle("up") /\ Handle("up") \notin {Handle("hsa")}
    BY Differ
  <1>7. /\ Establishes(P0, OmpStart, P0) /\ Establishes(P0, kernargs, P0)
        /\ Establishes(P0, pools, P0) /\ Establishes(P0, SvmQueries, P0)
    <2> HIDE DEF P0
    <2>1. Follows(P0, Ignored("omp_start", {Handle("hsa")}, {}), P0)
      BY <1>3, <1>6, IgnoredFollows
    <2>2. Follows(P0, Checked("get_kernargs", Handle("kernargs"), {Handle("cpu")}), P0)
      BY <1>3, <1>6, PlainFollows
    <2>3. Follows(P0, Checked("get_vram", Handle("vram"), {Handle("gpu")}), P0)
      BY <1>3, <1>6, PlainFollows
    <2>4. Follows(P0, Checked("get_alloc_allowed", Handle("alloc_ok"), {Handle("pool")}), P0)
      BY <1>3, <1>6, PlainFollows
    <2>5. Follows(P0, Checked("get_svm_supported", Handle("svm_supported"), {Handle("hsa")}), P0)
      BY <1>3, <1>6, PlainFollows
    <2>6. Follows(P0, Checked("get_svm_default", Handle("svm_default"), {Handle("hsa")}), P0)
      BY <1>3, <1>6, PlainFollows
    <2> QED
      BY <2>1, <2>2, <2>3, <2>4, <2>5, <2>6, EstablishesOne, EstablishesTwo
         DEF OmpStart, SvmQueries
  <1>8. /\ Establishes(P0, FindGpu, P0) /\ Establishes(P0, FindCpu, P0)
        /\ Establishes(P0, FindPool, P0)
    BY <1>1, <1>3, DiscoverKeeps
  <1>9. Establishes(P0, MapSvm, P2)
    <2>1. {} \in SUBSET Capabilities /\ {Handle("gpu"), Memory("svm")} \in SUBSET Capabilities
      BY <1>2, InCapabilities
    <2>2. Follows(P0, Checked("mmap", Memory("svm"), {}), P1)
      <3> HIDE DEF P0
      <3> QED
        BY <1>2, <1>3, <2>1, CheckedFollows DEF SearchCalls
    <2>3. Follows(P1, Checked("svm_attributes_set", Accessible("svm"), {Handle("gpu"), Memory("svm")}),
                  P2)
      <3> HIDE DEF P1
      <3> QED
        BY <1>2, <1>3, <2>1, CheckedFollows DEF SearchCalls
    <2> HIDE DEF P1, P2
    <2> QED
      BY <2>2, <2>3, EstablishesTwo DEF MapSvm
  <1>10. /\ Allocated("cg", "vram") \in Seq(EntriesOf(p))
         /\ DevReturn("vram") \in Seq(EntriesOf(p))
         /\ Allocated("fg", "pool") \in Seq(EntriesOf(p))
         /\ Allocated("rpc", "pool") \in Seq(EntriesOf(p))
    BY <1>1, AllocatedEntries, DevReturnEntries
  <1>11. Establishes(P2, BenchmarkBuffers, P6)
    <2>1. Establishes(P2, Allocated("cg", "vram"), P3)
      <3> HIDE DEF P2
      <3> QED
        BY <1>1, <1>3, AllocatedGives
    <2>2. Establishes(P3, DevReturn("vram"), P4)
      <3> HIDE DEF P3
      <3> QED
        BY <1>4, DevReturnGives
    <2>3. Establishes(P4, Allocated("fg", "pool"), P5)
      <3> HIDE DEF P4
      <3> QED
        BY <1>1, <1>4, AllocatedGives
    <2>4. Establishes(P5, Allocated("rpc", "pool"), P6)
      <3> HIDE DEF P5
      <3> QED
        BY <1>1, <1>4, AllocatedGives
    <2> HIDE DEF P2, P3, P4, P5, P6
    <2>5. Establishes(P2, Allocated("cg", "vram") \o DevReturn("vram"), P4)
      BY <1>10, <2>1, <2>2, EstablishesConcat
    <2>6. Establishes(P2, Allocated("cg", "vram") \o DevReturn("vram")
                            \o Allocated("fg", "pool"), P5)
      BY <1>10, <2>3, <2>5, EstablishesConcat, ConcatTyped
    <2> QED
      BY <1>10, <2>4, <2>6, EstablishesConcat, ConcatTyped DEF BenchmarkBuffers
  <1>12. Establishes(P6, kernels, P6)
    <2> HIDE DEF P1, P6
    <2>1. /\ Follows(P6, Kernel({"svm"}), P6) /\ Follows(P6, Kernel({"cg"}), P6)
          /\ Follows(P6, Kernel({"fg"}), P6)
      BY <1>4, <1>5, AccessFollows
    <2> QED
      BY <2>1, EstablishesThree
  <1>13. Establishes(P6, last, P1)
    <2> HIDE DEF P1, P6
    <2>1. Follows(P6, Free("cg", "aborted"), P1)
      BY <1>4, <1>5, FreeFollows
    <2>2. /\ Follows(P1, Free("fg", "aborted"), P1) /\ Follows(P1, Free("dev_ret", "aborted"), P1)
          /\ Follows(P1, Free("rpc", "aborted"), P1)
      BY <1>3, <1>5, FreeFollows
    <2>3. Follows(P1, Touch({"svm"}), P1)
      BY <1>3, <1>5, AccessFollows
    <2> QED
      BY <2>1, <2>2, <2>3, EstablishesFive
  <1>14. kernargs \in Seq(EntriesOf(p)) /\ pools \in Seq(EntriesOf(p))
    <2>1. {Handle("cpu")} \in SUBSET Capabilities /\ {Handle("pool")} \in SUBSET Capabilities
      BY InCapabilities
    <2>2. Checked("get_kernargs", Handle("kernargs"), {Handle("cpu")}) \in EntriesOf(p)
      BY <2>1, PlainCall, PlainCapabilities DEF CallNames
    <2>3. Checked("get_alloc_allowed", Handle("alloc_ok"), {Handle("pool")}) \in EntriesOf(p)
      BY <2>1, PlainCall, PlainCapabilities DEF CallNames
    <2> QED
      BY <2>2, <2>3, HandleEntries, ListTyped
  <1>15. kernels \in Seq(EntriesOf(p)) /\ last \in Seq(EntriesOf(p))
    <2>1. /\ Kernel({"svm"}) \in EntriesOf(p) /\ Kernel({"cg"}) \in EntriesOf(p)
          /\ Kernel({"fg"}) \in EntriesOf(p) /\ Touch({"svm"}) \in EntriesOf(p)
      BY <1>1, AccessEntry
    <2>2. /\ Free("cg", "aborted") \in EntriesOf(p) /\ Free("fg", "aborted") \in EntriesOf(p)
          /\ Free("dev_ret", "aborted") \in EntriesOf(p)
          /\ Free("rpc", "aborted") \in EntriesOf(p)
      BY <1>1, FreeEntry
    <2> QED
      BY <2>1, <2>2, ListTyped
  <1>16. /\ OmpStart \in Seq(EntriesOf(p)) /\ FindGpu \in Seq(EntriesOf(p))
         /\ FindCpu \in Seq(EntriesOf(p)) /\ FindPool \in Seq(EntriesOf(p))
         /\ SvmQueries \in Seq(EntriesOf(p)) /\ MapSvm \in Seq(EntriesOf(p))
         /\ BenchmarkBuffers \in Seq(EntriesOf(p))
    BY <1>1, <1>10, OmpStartEntries, FindEntries, SvmEntries, ConcatTyped DEF BenchmarkBuffers
  <1> HIDE DEF kernargs, pools, kernels, last
  <1>17. s1 \in Seq(EntriesOf(p)) /\ Establishes(P0, s1, P0)
    <2>1. Establishes(P0, OmpStart \o FindGpu, P0)
      BY <1>7, <1>8, <1>16, EstablishesConcat
    <2>2. Establishes(P0, OmpStart \o FindGpu \o FindCpu, P0)
      BY <1>8, <1>16, <2>1, EstablishesConcat, ConcatTyped
    <2> QED
      BY <1>7, <1>14, <1>16, <2>2, EstablishesConcat, ConcatTyped
  <1>18. s2 \in Seq(EntriesOf(p)) /\ Establishes(P0, s2, P0)
    <2> HIDE DEF s1
    <2>1. Establishes(P0, s1 \o FindPool, P0)
      BY <1>8, <1>16, <1>17, EstablishesConcat
    <2>2. Establishes(P0, s1 \o FindPool \o pools, P0)
      BY <1>7, <1>14, <1>16, <1>17, <2>1, EstablishesConcat, ConcatTyped
    <2> QED
      BY <1>7, <1>14, <1>16, <1>17, <2>2, EstablishesConcat, ConcatTyped
  <1>19. s3 \in Seq(EntriesOf(p)) /\ Establishes(P0, s3, P2)
    <2> HIDE DEF s2, P2
    <2> QED
      BY <1>9, <1>16, <1>18, EstablishesConcat, ConcatTyped
  <1>20. s4 \in Seq(EntriesOf(p)) /\ Establishes(P0, s4, P6)
    <2> HIDE DEF s3, P2, P6
    <2> QED
      BY <1>11, <1>16, <1>19, EstablishesConcat, ConcatTyped
  <1>21. s5 \in Seq(EntriesOf(p)) /\ Establishes(P0, s5, P6)
    <2> HIDE DEF s4, P6
    <2> QED
      BY <1>12, <1>15, <1>20, EstablishesConcat, ConcatTyped
  <1>22. Establishes(P0, s5 \o last, P1)
    <2> HIDE DEF s5, P1, P6
    <2> QED
      BY <1>13, <1>15, <1>21, EstablishesConcat
  <1>23. SvmMigrationFg = s5 \o last
    <2>1. /\ OmpStart \in Seq(EntriesOf(p)) /\ kernels \in Seq(EntriesOf(p))
      BY <1>15, <1>16
    <2>2. SvmMigrationFg =
            OmpStart \o FindGpu \o FindCpu \o kernargs \o FindPool \o pools
              \o SvmQueries \o MapSvm \o BenchmarkBuffers \o kernels \o last
      BY DEF SvmMigrationFg, kernargs, pools, kernels, last
    <2> QED
      BY <2>2
  <1>24. P1 = {Down, Memory("svm")}
    OBVIOUS
  <1> QED
    BY <1>22, <1>23, <1>24

(* Every program but svm_migration_cg can be annotated from start to end:  *)
(* what its calls demand is known where they are made.                     *)
LEMMA CallsOutlined ==
  ASSUME NEW p \in Programs, p # "svm_migration_cg"
  PROVE  \E Q : Establishes({Down}, Calls[p], Q)
  <1>1. p \in {"gpu_svm_demo", "io_uring_gpu_no_poll", "io_uring_svm_cpu_only",
               "io_uring_cpu_mt", "io_uring_cpu_mt_gpu", "svm_target_edit_buffer",
               "svm_migration_fg"}
    BY DEF Programs, Calls
  <1>2. <<>> \in Seq(EntriesOf(p)) /\ WakePoller \in Seq(EntriesOf(p))
    BY WakePollerEntries
  <1>3. \A Q \in SUBSET Facts : Establishes(Q, <<>>, Q) /\ Establishes(Q, WakePoller, Q)
    BY EstablishesNothing, WakePollerKeeps
  <1> DEFINE up == ({Down} \union Usable) \ {Down}
             use == <<Touch(Shared \ {"ctx"})>>
             run == <<Kernel(Shared \ {"ctx"})>>
  <1>4. {Down} \in SUBSET Facts /\ up \in SUBSET Facts
    BY UsableFacts
  <1>5. \A x \in Shared \ {"ctx"} : Memory(x) \in up /\ Accessible(x) \in up
    <2>1. \A x : Memory(x) # Down /\ Accessible(x) # Down
      BY DEF Memory, Accessible, Down
    <2> QED
      BY <2>1, UsableFacts
  <1> HIDE DEF up
  <1>6. Establishes(up, use, up) /\ Establishes(up, run, up)
    <2>1. /\ Follows(up, Touch(Shared \ {"ctx"}), up)
          /\ Follows(up, Kernel(Shared \ {"ctx"}), up)
      BY <1>4, <1>5, AccessFollows
    <2> QED
      BY <2>1, EstablishesOne
  <1>7. use \in Seq(EntriesOf(p)) /\ run \in Seq(EntriesOf(p))
    <2>1. Shared \ {"ctx"} \in SUBSET Buffers
      BY DEF Shared, Buffers
    <2> QED
      BY <2>1, AccessEntry, ListTyped
  <1> HIDE DEF use, run
  <1>8. ASSUME p \in {"gpu_svm_demo", "io_uring_gpu_no_poll", "io_uring_svm_cpu_only"}
        PROVE  /\ {"ring", "sqes", "msgs"} \subseteq AllocatedIn(p)
               /\ "ctx" \in AllocatedIn(p) /\ PoolOf(p, "ctx") = "pool"
    BY <1>8 DEF AllocatedIn, PoolOf, Buffers
  <1>9. ASSUME p \in {"gpu_svm_demo", "io_uring_gpu_no_poll", "io_uring_svm_cpu_only"},
               NEW wake \in {<<>>, WakePoller}
        PROVE  /\ SetupUring(wake) \in Seq(EntriesOf(p))
               /\ TeardownUring(wake) \in Seq(EntriesOf(p))
               /\ \A P \in SUBSET Facts :
                    Establishes(P, SetupUring(wake), (P \union Usable) \ {Down})
               /\ \A P \in SUBSET Facts : Establishes(P, TeardownUring(wake), {Down})
    <2>1. wake \in Seq(EntriesOf(p)) /\ \A Q \in SUBSET Facts : Establishes(Q, wake, Q)
      BY <1>2, <1>3
    <2>2. /\ SetupUring(wake) \in Seq(EntriesOf(p))
          /\ TeardownUring(wake) \in Seq(EntriesOf(p))
      BY <1>8, <1>9, <2>1, SetupUringEntries, TeardownUringEntries
    <2>3. \A P \in SUBSET Facts :
            Establishes(P, SetupUring(wake), (P \union Usable) \ {Down})
      BY <1>8, <1>9, <2>1, SetupUringGives
    <2>4. \A P \in SUBSET Facts : Establishes(P, TeardownUring(wake), {Down})
      BY <2>1, TeardownUringGives
    <2> QED
      BY <2>2, <2>3, <2>4
  <1>10. CASE p = "gpu_svm_demo"
    <2>1. Establishes({Down}, GpuMain(SetupUring(WakePoller), TeardownUring(WakePoller)), {Down})
      BY <1>8, <1>9, <1>10, GpuMainGives
    <2> QED
      BY <1>10, <2>1 DEF Calls, GpuSvmDemo
  <1>11. CASE p = "io_uring_gpu_no_poll"
    <2>1. Establishes({Down}, GpuMain(SetupUring(<<>>), TeardownUring(<<>>)), {Down})
      BY <1>8, <1>9, <1>11, GpuMainGives
    <2> QED
      BY <1>11, <2>1 DEF Calls, GpuNoPoll
  <1>12. CASE p = "io_uring_svm_cpu_only"
    <2>1. /\ SetupUring(WakePoller) \in Seq(EntriesOf(p))
          /\ TeardownUring(<<>>) \in Seq(EntriesOf(p))
          /\ Establishes({Down}, SetupUring(WakePoller), up)
          /\ Establishes(up, TeardownUring(<<>>), {Down})
      BY <1>4, <1>9, <1>12 DEF up
    <2>2. Establishes({Down}, SetupUring(WakePoller) \o use, up)
      BY <1>6, <1>7, <2>1, EstablishesConcat
    <2>3. Establishes({Down}, (SetupUring(WakePoller) \o use) \o TeardownUring(<<>>), {Down})
      BY <1>7, <2>1, <2>2, EstablishesConcat, ConcatTyped
    <2> QED
      BY <1>12, <2>3 DEF Calls, SvmCpuOnly, use
  <1>13. ASSUME p \in {"io_uring_cpu_mt", "io_uring_cpu_mt_gpu"},
                NEW s \in {use, run}
         PROVE  Establishes({Down}, CpuMtSetup \o s \o CpuMtTeardown, {Down})
    <2>1. CpuMtSetup \in Seq(EntriesOf(p)) /\ CpuMtTeardown \in Seq(EntriesOf(p))
      BY <1>13, CpuMtEntries
    <2>2. Establishes({Down}, CpuMtSetup, up) /\ Establishes(up, CpuMtTeardown, {Down})
      BY <1>4, <1>13, CpuMtSetupGives, CpuMtTeardownGives DEF up
    <2>3. s \in Seq(EntriesOf(p)) /\ Establishes(up, s, up)
      BY <1>6, <1>7, <1>13
    <2>4. Establishes({Down}, CpuMtSetup \o s, up)
      BY <2>1, <2>2, <2>3, EstablishesConcat
    <2> QED
      BY <2>1, <2>2, <2>3, <2>4, EstablishesConcat, ConcatTyped
  <1>14. CASE p = "io_uring_cpu_mt"
    BY <1>13, <1>14 DEF Calls, CpuMt, use
  <1>15. CASE p = "io_uring_cpu_mt_gpu"
    BY <1>13, <1>15 DEF Calls, CpuMtGpu, run
  <1>16. CASE p = "svm_target_edit_buffer"
    BY <1>16, SvmTargetEditBufferGives DEF Calls
  <1>17. CASE p = "svm_migration_fg"
    BY <1>17, SvmMigrationFgGives DEF Calls
  <1> QED
    BY <1>1, <1>10, <1>11, <1>12, <1>14, <1>15, <1>16, <1>17

-----------------------------------------------------------------------------
(* The inductive invariant.                                                *)

\* The annotation of a program.
Outline(p) == CHOOSE K : \E Q : Outlined({Down}, Calls[p], Q, K)

\* The call that the program has come to: a failing call is not undone, and
\* at has passed it.
Reached == IF outcome \in {"aborted", "returned"} THEN at - 1 ELSE at

Holds(f) == IF f = Down THEN Handle("up") \notin held ELSE f \in held

\* What is known where the program has come to, is so.
Known ==
  program # "svm_migration_cg" => \A f \in Outline(program)[Reached] : Holds(f)

\* Where handles and memory come from.
Origins ==
  /\ Handle("gpu") \in held => Finds(GpuSearch(program))
  /\ Handle("cpu") \in held => Finds("get_agent_cpu")
  /\ Handle("pool") \in held => Finds("get_pool")
  /\ Handle("vram") \in held => Finds("get_vram")
  /\ \A x \in AllocatedIn(program) :
       Memory(x) \in held => Handle(PoolOf(program, x)) \in held
  /\ program = "svm_migration_cg" => Handle("up") \notin held

\* The searches that a program has run on after ended well, and what they
\* found is still held.
Searched ==
  outcome \in {"running", "finished"} =>
    \A i \in 1 .. at - 1 :
      LET e == Calls[program][i]
      IN e.call \in SearchNames =>
           NoError(Search[e.call]) /\ (Finds(e.call) => e.gives \subseteq held)

IInv ==
  /\ TypeOK
  /\ outcome \in {"aborted", "returned"} => at > 1
  /\ Known
  /\ Origins
  /\ Searched
  /\ ReadyMeansUsable
  /\ NoCrash

LEMMA OutlineOutlines ==
  ASSUME NEW p \in Programs, p # "svm_migration_cg"
  PROVE  /\ Outline(p)[1] = {Down}
         /\ \A n \in 1 .. Len(Calls[p]) : Follows(Outline(p)[n], Calls[p][n], Outline(p)[n + 1])
  <1>1. \E K : \E Q : Outlined({Down}, Calls[p], Q, K)
    BY CallsOutlined DEF Establishes
  <1>2. \E Q : Outlined({Down}, Calls[p], Q, Outline(p))
    BY <1>1 DEF Outline
  <1> QED
    BY <1>2 DEF Outlined

LEMMA SearchDomain ==
  /\ Searches = SearchCalls /\ SearchNames \subseteq Searches
  /\ Search["get_agent_gpu"] = get_agent("gpu", machine.agents)
  /\ Search["get_first_agent_gpu"] = get_first_agent("gpu", machine.agents)
  /\ Search["get_agent_cpu"] = get_agent("cpu", machine.agents)
  /\ Search["get_pool"] = get_agent_memory_pool("fine", machine.pools)
  /\ Search["get_vram"] = get_agent_memory_pool("coarse", machine.vram)
  BY DEF Searches, Search, SearchCalls, SearchNames

LEMMA MachineTyped ==
  ASSUME TypeOK
  PROVE  /\ machine.agents \in Seq(AgentKinds)
         /\ machine.pools \in Seq(PoolKinds)
         /\ machine.vram \in Seq(PoolKinds)
  BY MachineAssumption DEF TypeOK

\* The call that is made.
LEMMA CallMade ==
  ASSUME TypeOK, NEW e, Calling(e)
  PROVE  /\ program \in Programs
         /\ Len(Calls[program]) \in Nat
         /\ at \in 1 .. Len(Calls[program]) /\ e = Calls[program][at]
         /\ e \in EntryType /\ WellFormed(program, e)
         /\ outcome = "running"
  <1>1. program \in Programs /\ at \in 1 .. Len(Calls[program]) + 1
    BY DEF TypeOK, Programs
  <1>2. Calls[program] \in Seq(EntriesOf(program))
    BY <1>1, CallsWellFormed
  <1>3. /\ outcome = "running" /\ at <= Len(Calls[program]) /\ e = Calls[program][at]
    BY DEF Calling
  <1>4. Len(Calls[program]) \in Nat
    BY <1>2
  <1>5. at \in 1 .. Len(Calls[program])
    BY <1>1, <1>3, <1>4
  <1>6. e \in EntriesOf(program)
    BY <1>2, <1>3, <1>5
  <1> QED
    BY <1>1, <1>3, <1>4, <1>5, <1>6 DEF EntriesOf

LEMMA InitInv ==
  Init => IInv
  <1> SUFFICES ASSUME Init PROVE IInv
    OBVIOUS
  <1>1. program \in Programs /\ held = {} /\ at = 1 /\ outcome = "running"
    BY DEF Init, Programs
  <1>2. Len(Calls[program]) \in Nat
    BY <1>1, CallsWellFormed
  <1>3. TypeOK
    BY <1>1, <1>2 DEF Init, TypeOK
  <1>4. Known
    BY <1>1, OutlineOutlines DEF Known, Reached, Holds
  <1>5. Origins /\ Searched /\ ReadyMeansUsable
    BY <1>1 DEF Origins, Searched, ReadyMeansUsable
  <1>6. NoCrash
    BY <1>1 DEF NoCrash
  <1> QED
    BY <1>1, <1>3, <1>4, <1>5, <1>6 DEF IInv

(* What is known after a call holds when the program goes on, whether the  *)
(* call succeeded, or failed or found nothing and that was let pass.       *)
LEMMA HoldsAfter ==
  ASSUME IInv, NEW e, Calling(e), program # "svm_migration_cg",
         NEW h, e.gives = {} \/ e.drops = {},
         \/ e.needs \subseteq held /\ h = (held \ e.drops) \union e.gives
         \/ (e.failure = "running" \/ e.call \in SearchCalls) /\
            (h = held \/ (e.drops = {} /\ h = held \union e.gives)),
         NEW f \in Outline(program)[at + 1]
  PROVE  IF f = Down THEN Handle("up") \notin h ELSE f \in h
  <1>1. /\ program \in Programs /\ at \in 1 .. Len(Calls[program])
        /\ e = Calls[program][at] /\ e \in EntryType /\ outcome = "running"
    BY CallMade DEF IInv
  <1> DEFINE K == Outline(program)
  <1>2. Follows(K[at], e, K[at + 1])
    BY <1>1, OutlineOutlines
  <1>3. \A g \in K[at] : IF g = Down THEN Handle("up") \notin held ELSE g \in held
    BY <1>1 DEF IInv, Known, Reached, Holds
  <1>4. f \in (K[at] \ Refutes(e)) \union Proves(e)
    BY <1>2 DEF Follows
  <1>5. e.gives \in SUBSET Capabilities /\ e.needs \in SUBSET Capabilities
    BY <1>1 DEF EntryType
  <1>6. Down \notin Capabilities /\ Down # Handle("up")
    BY UsableFacts DEF Down, Handle
  <1> HIDE DEF K
  <1>7. CASE f \in K[at] \ Refutes(e)
    <2>1. CASE f = Down
      BY <1>3, <1>7, <2>1 DEF Refutes
    <2>2. CASE f # Down
      BY <1>3, <1>7, <2>2 DEF Refutes
    <2> QED
      BY <2>1, <2>2
  <1>8. CASE f \in Proves(e)
    <2>1. /\ e.needs \subseteq held /\ h = (held \ e.drops) \union e.gives
          /\ f \in e.gives \union (e.needs \ e.drops)
                    \union (IF Handle("up") \in e.drops THEN {Down} ELSE {})
      BY <1>8 DEF Proves
    <2> QED
      BY <1>5, <1>6, <2>1
  <1> QED
    BY <1>4, <1>7, <1>8

\* A search that finds something, or a call that is no search.
LEMMA OriginsAfter ==
  ASSUME IInv, NEW e, Calling(e), NEW h,
         h = (held \ e.drops) \union e.gives,
         IF e.call \in Searches THEN Search[e.call].out # Null ELSE e.needs \subseteq held
  PROVE  /\ Handle("gpu") \in h => Finds(GpuSearch(program))
         /\ Handle("cpu") \in h => Finds("get_agent_cpu")
         /\ Handle("pool") \in h => Finds("get_pool")
         /\ Handle("vram") \in h => Finds("get_vram")
         /\ \A x \in AllocatedIn(program) :
              Memory(x) \in h => Handle(PoolOf(program, x)) \in h
         /\ program = "svm_migration_cg" => Handle("up") \notin h
  <1>1. WellFormed(program, e)
    BY CallMade DEF IInv
  <1>2. "allocate" \notin Searches
    BY SearchDomain DEF SearchCalls
  <1>3. ASSUME NEW x \in Sought, Handle(x) \in h, Handle(x) \notin held
        PROVE  /\ e.call \in SearchNames /\ SoughtBy(e.call) = x
               /\ x = "gpu" => e.call = GpuSearch(program)
               /\ Finds(e.call)
    <2>1. Handle(x) \in e.gives
      BY <1>3
    <2>2. e.call \in SearchNames /\ e.gives = {Handle(SoughtBy(e.call))}
      BY <1>1, <1>3, <2>1 DEF WellFormed
    <2>3. SoughtBy(e.call) = x
      BY <2>1, <2>2, Differ
    <2>4. Finds(e.call)
      BY <2>2, SearchDomain DEF Finds
    <2> QED
      BY <1>1, <2>2, <2>3, <2>4 DEF WellFormed
  <1>4. ASSUME NEW call \in SearchNames
        PROVE  /\ SoughtBy(call) = "cpu" => call = "get_agent_cpu"
               /\ SoughtBy(call) = "pool" => call = "get_pool"
               /\ SoughtBy(call) = "vram" => call = "get_vram"
    BY DEF SearchNames, SoughtBy
  <1>5. /\ Handle("gpu") \in h => Finds(GpuSearch(program))
        /\ Handle("cpu") \in h => Finds("get_agent_cpu")
        /\ Handle("pool") \in h => Finds("get_pool")
        /\ Handle("vram") \in h => Finds("get_vram")
    BY <1>3, <1>4 DEF IInv, Origins, Sought
  <1>6. ASSUME NEW x \in AllocatedIn(program), Memory(x) \in h
        PROVE  Handle(PoolOf(program, x)) \in h
    <2>1. x \in Buffers /\ PoolOf(program, x) \in Pools
      BY DEF AllocatedIn, PoolOf, Pools
    <2>2. Handle(PoolOf(program, x)) \notin e.drops
      BY <1>1, <2>1 DEF WellFormed, Pools, Sought
    <2>3. CASE Memory(x) \in e.gives
      <3>1. e.call = "allocate" /\ e.needs = {Handle(PoolOf(program, x))}
        BY <1>1, <1>6, <2>1, <2>3 DEF WellFormed
      <3> QED
        BY <1>2, <2>2, <3>1
    <2>4. CASE Memory(x) \in held
      BY <1>6, <2>2, <2>4 DEF IInv, Origins
    <2> QED
      BY <1>6, <2>3, <2>4
  <1>7. program = "svm_migration_cg" => Handle("up") \notin h
    BY <1>1 DEF IInv, Origins, WellFormed
  <1> QED
    BY <1>5, <1>6, <1>7

\* The call that is made is the last of those made after it.
LEMMA SearchedAfter ==
  ASSUME IInv, NEW e, Calling(e), NEW h,
         \/ h = (held \ e.drops) \union e.gives
         \/ h = held /\ (e.call \in SearchNames => ~Finds(e.call)),
         e.call \in SearchNames => NoError(Search[e.call])
  PROVE  \A i \in 1 .. at :
           LET c == Calls[program][i]
           IN c.call \in SearchNames =>
                NoError(Search[c.call]) /\ (Finds(c.call) => c.gives \subseteq h)
  <1> SUFFICES ASSUME NEW i \in 1 .. at, NEW c, c = Calls[program][i], c.call \in SearchNames
               PROVE  NoError(Search[c.call]) /\ (Finds(c.call) => c.gives \subseteq h)
    OBVIOUS
  <1>1. /\ program \in Programs /\ Len(Calls[program]) \in Nat
        /\ at \in 1 .. Len(Calls[program]) /\ e = Calls[program][at]
        /\ WellFormed(program, e) /\ outcome = "running"
    BY CallMade DEF IInv
  <1>2. CASE i = at
    BY <1>1, <1>2
  <1>3. CASE i # at
    <2>1. i \in 1 .. at - 1 /\ i \in 1 .. Len(Calls[program])
      BY <1>1, <1>3
    <2>2. NoError(Search[c.call]) /\ (Finds(c.call) => c.gives \subseteq held)
      BY <1>1, <2>1 DEF IInv, Searched
    <2>3. WellFormed(program, c)
      <3>1. Calls[program] \in Seq(EntriesOf(program))
        BY <1>1, CallsWellFormed
      <3>2. c \in EntriesOf(program)
        BY <2>1, <3>1
      <3> QED
        BY <3>2 DEF EntriesOf
    <2>4. c.gives = {Handle(SoughtBy(c.call))} /\ SoughtBy(c.call) \in Sought
      BY <2>3, SearchesApart DEF WellFormed
    <2>5. c.gives \intersect e.drops = {}
      BY <1>1, <2>4 DEF WellFormed
    <2> QED
      BY <2>2, <2>5
  <1> QED
    BY <1>2, <1>3

\* The handle "up" comes when everything is there and nothing goes before it.
LEMMA ReadyAfter ==
  ASSUME IInv, NEW e, Calling(e), NEW h, h = (held \ e.drops) \union e.gives
  PROVE  Handle("up") \in h => Usable \subseteq h
  <1> SUFFICES ASSUME Handle("up") \in h
               PROVE  Usable \subseteq h
    OBVIOUS
  <1>1. /\ program \in Programs /\ at \in 1 .. Len(Calls[program])
        /\ e = Calls[program][at] /\ WellFormed(program, e) /\ outcome = "running"
    BY CallMade DEF IInv
  <1>2. program # "svm_migration_cg"
    BY <1>1 DEF IInv, Origins, WellFormed
  <1> DEFINE P == Outline(program)[at]
  <1>3. Demands(e) \subseteq P
    BY <1>1, <1>2, OutlineOutlines DEF Follows
  <1>4. \A g \in P : IF g = Down THEN Handle("up") \notin held ELSE g \in held
    BY <1>1, <1>2 DEF IInv, Known, Reached, Holds
  <1>5. e.gives = {} \/ e.drops = {}
    BY <1>1 DEF WellFormed
  <1> HIDE DEF P
  <1>6. CASE Handle("up") \in e.gives
    <2>1. Usable \subseteq P
      BY <1>3, <1>6 DEF Demands
    <2>2. Usable \subseteq held
      BY <1>4, <2>1, UsableFacts
    <2> QED
      BY <1>5, <1>6, <2>2
  <1>7. CASE Handle("up") \notin e.gives
    <2>1. Handle("up") \in held
      BY <1>7
    <2>2. Usable \subseteq held
      BY <2>1 DEF IInv, ReadyMeansUsable
    <2>3. e.drops \intersect Usable = {}
      BY <1>3, <1>4, <2>1 DEF Demands
    <2> QED
      BY <2>2, <2>3
  <1> QED
    BY <1>6, <1>7

LEMMA SearchedNext ==
  ASSUME at \in Nat, at' = at + 1, program' = program, machine' = machine,
         \A i \in 1 .. at :
           LET c == Calls[program][i]
           IN c.call \in SearchNames =>
                NoError(Search[c.call]) /\ (Finds(c.call) => c.gives \subseteq held')
  PROVE  Searched'
  BY DEF Searched, Finds, Search

LEMMA AcquireInv ==
  ASSUME IInv, NEW e, Acquire(e)
  PROVE  IInv'
  <1>1. /\ Calling(e) /\ e.call \notin Searches /\ e.needs \subseteq held
        /\ held' = (held \ e.drops) \union e.gives /\ at' = at + 1
        /\ program' = program /\ machine' = machine /\ outcome' = outcome
    BY DEF Acquire
  <1>2. /\ Len(Calls[program]) \in Nat /\ at \in 1 .. Len(Calls[program])
        /\ e \in EntryType /\ WellFormed(program, e) /\ outcome = "running"
    BY <1>1, CallMade DEF IInv
  <1>3. TypeOK'
    <2>1. held' \subseteq Capabilities
      BY <1>1, <1>2 DEF IInv, TypeOK, EntryType
    <2>2. at' \in 1 .. Len(Calls[program]) + 1
      BY <1>1, <1>2
    <2> QED
      BY <1>1, <2>1, <2>2 DEF IInv, TypeOK
  <1>4. Known'
    <2>1. e.gives = {} \/ e.drops = {}
      BY <1>2 DEF WellFormed
    <2>2. program # "svm_migration_cg" =>
            \A f \in Outline(program)[at + 1] :
              IF f = Down THEN Handle("up") \notin held' ELSE f \in held'
      BY <1>1, <2>1, HoldsAfter
    <2>3. Outline(program)' = Outline(program) /\ Reached' = at + 1
      BY <1>1, <1>2 DEF Outline, Reached
    <2> QED
      BY <1>1, <2>2, <2>3 DEF Known, Holds
  <1>5. Origins'
    <2>1. /\ Handle("gpu") \in held' => Finds(GpuSearch(program))
          /\ Handle("cpu") \in held' => Finds("get_agent_cpu")
          /\ Handle("pool") \in held' => Finds("get_pool")
          /\ Handle("vram") \in held' => Finds("get_vram")
          /\ \A x \in AllocatedIn(program) :
               Memory(x) \in held' => Handle(PoolOf(program, x)) \in held'
          /\ program = "svm_migration_cg" => Handle("up") \notin held'
      BY <1>1, OriginsAfter
    <2> QED
      BY <1>1, <2>1 DEF Origins, Finds, Search
  <1>6. ReadyMeansUsable'
    BY <1>1, ReadyAfter DEF ReadyMeansUsable
  <1>7. NoCrash' /\ outcome' = "running"
    BY <1>1, <1>2 DEF NoCrash
  <1>8. Searched'
    <2>1. e.call \notin SearchNames
      BY <1>1, SearchDomain
    <2>2. \A i \in 1 .. at :
            LET c == Calls[program][i]
            IN c.call \in SearchNames =>
                 NoError(Search[c.call]) /\ (Finds(c.call) => c.gives \subseteq held')
      BY <1>1, <2>1, SearchedAfter
    <2> QED
      BY <1>1, <1>2, <2>2, SearchedNext
  <1> QED
    BY <1>3, <1>4, <1>5, <1>6, <1>7, <1>8 DEF IInv

LEMMA FindInv ==
  ASSUME IInv, NEW e, Find(e)
  PROVE  IInv'
  <1>1. /\ Calling(e) /\ e.call \in Searches /\ e.needs \subseteq held
        /\ held' = IF Search[e.call].out = Null THEN held ELSE held \union e.gives
        /\ at' = at + 1
        /\ program' = program /\ machine' = machine /\ outcome' = outcome
    BY DEF Find
  <1>2. /\ Len(Calls[program]) \in Nat /\ at \in 1 .. Len(Calls[program])
        /\ e \in EntryType /\ WellFormed(program, e) /\ outcome = "running"
    BY <1>1, CallMade DEF IInv
  <1>3. TypeOK'
    <2>1. held' \subseteq Capabilities
      BY <1>1, <1>2 DEF IInv, TypeOK, EntryType
    <2>2. at' \in 1 .. Len(Calls[program]) + 1
      BY <1>1, <1>2
    <2> QED
      BY <1>1, <2>1, <2>2 DEF IInv, TypeOK
  <1>4. e.gives = {} \/ e.drops = {}
    BY <1>2 DEF WellFormed
  <1>5. held' = held \/ held' = (held \ e.drops) \union e.gives
    BY <1>1, <1>4
  <1>6. Known'
    <2>1. held' = held \/ (e.drops = {} /\ held' = held \union e.gives)
      BY <1>1, <1>4
    <2>2. program # "svm_migration_cg" =>
            \A f \in Outline(program)[at + 1] :
              IF f = Down THEN Handle("up") \notin held' ELSE f \in held'
      BY <1>1, <1>4, <2>1, HoldsAfter, SearchDomain
    <2>3. Outline(program)' = Outline(program) /\ Reached' = at + 1
      BY <1>1, <1>2 DEF Outline, Reached
    <2> QED
      BY <1>1, <2>2, <2>3 DEF Known, Holds
  <1>7. Origins'
    <2>1. /\ Handle("gpu") \in held' => Finds(GpuSearch(program))
          /\ Handle("cpu") \in held' => Finds("get_agent_cpu")
          /\ Handle("pool") \in held' => Finds("get_pool")
          /\ Handle("vram") \in held' => Finds("get_vram")
          /\ \A x \in AllocatedIn(program) :
               Memory(x) \in held' => Handle(PoolOf(program, x)) \in held'
          /\ program = "svm_migration_cg" => Handle("up") \notin held'
      <3>1. CASE held' = held
        BY <3>1 DEF IInv, Origins
      <3>2. CASE held' # held
        <4>1. Search[e.call].out # Null /\ held' = (held \ e.drops) \union e.gives
          BY <1>1, <1>5, <3>2
        <4> QED
          BY <1>1, <4>1, OriginsAfter
      <3> QED
        BY <3>1, <3>2
    <2> QED
      BY <1>1, <2>1 DEF Origins, Finds, Search
  <1>8. ReadyMeansUsable'
    <2>1. CASE held' = held
      BY <2>1 DEF IInv, ReadyMeansUsable
    <2>2. CASE held' # held
      BY <1>1, <1>5, <2>2, ReadyAfter DEF ReadyMeansUsable
    <2> QED
      BY <2>1, <2>2
  <1>9. NoCrash' /\ outcome' = "running"
    BY <1>1, <1>2 DEF NoCrash
  <1>10. Searched'
    <2>1. \/ held' = (held \ e.drops) \union e.gives
          \/ held' = held /\ (e.call \in SearchNames => ~Finds(e.call))
      <3>1. CASE e.call \in SearchNames
        BY <1>1, <1>2, <1>4, <3>1 DEF Finds, WellFormed
      <3>2. CASE e.call \notin SearchNames
        BY <1>5, <3>2
      <3> QED
        BY <3>1, <3>2
    <2>2. NoError(Search[e.call])
      BY DEF Find
    <2>3. \A i \in 1 .. at :
            LET c == Calls[program][i]
            IN c.call \in SearchNames =>
                 NoError(Search[c.call]) /\ (Finds(c.call) => c.gives \subseteq held')
      BY <1>1, <2>1, <2>2, SearchedAfter
    <2> QED
      BY <1>1, <1>2, <2>3, SearchedNext
  <1> QED
    BY <1>3, <1>6, <1>7, <1>8, <1>9, <1>10 DEF IInv

\* Steps that acquire and give back nothing.
LEMMA OriginsKept ==
  ASSUME IInv, UNCHANGED <<program, machine, held>>
  PROVE  Origins' /\ ReadyMeansUsable'
  BY DEF IInv, Origins, ReadyMeansUsable, Finds, Search

LEMMA CallFailsInv ==
  ASSUME IInv, NEW e, CallFails(e)
  PROVE  IInv'
  <1>1. /\ Calling(e) /\ e.failure # "crashes" /\ outcome' = e.failure /\ at' = at + 1
        /\ program' = program /\ machine' = machine /\ held' = held
    BY DEF CallFails
  <1>2. /\ Len(Calls[program]) \in Nat /\ at \in 1 .. Len(Calls[program])
        /\ e \in EntryType /\ WellFormed(program, e) /\ outcome = "running"
    BY <1>1, CallMade DEF IInv
  <1>3. outcome' \in {"running", "aborted", "returned"}
    BY <1>1, <1>2 DEF EntryType
  <1>4. TypeOK'
    <2>1. at' \in 1 .. Len(Calls[program]) + 1
      BY <1>1, <1>2
    <2> QED
      BY <1>1, <1>3, <2>1 DEF IInv, TypeOK
  <1>5. Known'
    <2>1. Outline(program)' = Outline(program)
      BY <1>1 DEF Outline
    <2>2. CASE outcome' = "running"
      <3>1. program # "svm_migration_cg" =>
              \A f \in Outline(program)[at + 1] :
                IF f = Down THEN Handle("up") \notin held ELSE f \in held
        BY <1>1, <1>2, <2>2, HoldsAfter DEF WellFormed
      <3>2. Reached' = at + 1
        BY <1>1, <2>2 DEF Reached
      <3> QED
        BY <1>1, <2>1, <3>1, <3>2 DEF Known, Holds
    <2>3. CASE outcome' # "running"
      <3>1. Reached' = Reached
        BY <1>1, <1>2, <1>3, <2>3 DEF Reached
      <3> QED
        BY <1>1, <2>1, <3>1 DEF IInv, Known, Holds
    <2> QED
      BY <2>2, <2>3
  <1>6. Origins' /\ ReadyMeansUsable'
    BY <1>1, OriginsKept
  <1>7. NoCrash' /\ at' > 1
    BY <1>1, <1>2, <1>3 DEF NoCrash
  <1>8. Searched'
    <2>1. CASE outcome' = "running"
      <3>1. e.call \notin SearchNames
        BY <1>1, <1>2, <2>1 DEF WellFormed
      <3>2. \A i \in 1 .. at :
              LET c == Calls[program][i]
              IN c.call \in SearchNames =>
                   NoError(Search[c.call]) /\ (Finds(c.call) => c.gives \subseteq held')
        BY <1>1, <3>1, SearchedAfter
      <3> QED
        BY <1>1, <1>2, <3>2, SearchedNext
    <2>2. CASE outcome' # "running"
      BY <1>3, <2>2 DEF Searched
    <2> QED
      BY <2>1, <2>2
  <1> QED
    BY <1>4, <1>5, <1>6, <1>7, <1>8 DEF IInv

(* In the other programs what an access or a kernel uses is known to be    *)
(* there, and so it does not crash.                                        *)
LEMMA CrashInv ==
  ASSUME IInv, NEW e, Crash(e)
  PROVE  IInv'
  <1>1. /\ Calling(e)
        /\ \/ e.call \in {"access", "kernel"} /\ ~(e.needs \subseteq held)
           \/ program = "svm_migration_cg"
        /\ outcome' = "crashed"
        /\ program' = program /\ machine' = machine /\ at' = at /\ held' = held
    BY DEF Crash
  <1>2. /\ program \in Programs /\ at \in 1 .. Len(Calls[program])
        /\ e = Calls[program][at] /\ e \in EntryType /\ outcome = "running"
    BY <1>1, CallMade DEF IInv
  <1>3. program = "svm_migration_cg"
    <2> SUFFICES ASSUME program # "svm_migration_cg"
                 PROVE  FALSE
      OBVIOUS
    <2> DEFINE P == Outline(program)[at]
    <2>1. Demands(e) \subseteq P
      BY <1>2, OutlineOutlines DEF Follows
    <2>2. \A f \in P : IF f = Down THEN Handle("up") \notin held ELSE f \in held
      BY <1>2 DEF IInv, Known, Reached, Holds
    <2> HIDE DEF P
    <2>3. e.needs \subseteq P
      BY <1>1, <2>1 DEF Demands
    <2>4. e.needs \subseteq held
      BY <1>2, <2>2, <2>3, UsableFacts DEF EntryType
    <2> QED
      BY <1>1, <2>4
  <1>4. TypeOK'
    BY <1>1 DEF IInv, TypeOK
  <1>5. Known' /\ NoCrash'
    BY <1>1, <1>3 DEF Known, NoCrash
  <1>6. Origins' /\ ReadyMeansUsable'
    BY <1>1, OriginsKept
  <1>7. Searched'
    BY <1>1 DEF Searched
  <1> QED
    BY <1>1, <1>4, <1>5, <1>6, <1>7 DEF IInv

LEMMA FinishInv ==
  ASSUME IInv, Finish
  PROVE  IInv'
  <1>1. /\ outcome = "running" /\ outcome' = "finished"
        /\ program' = program /\ machine' = machine /\ at' = at /\ held' = held
    BY DEF Finish
  <1>2. TypeOK' /\ NoCrash'
    BY <1>1 DEF IInv, TypeOK, NoCrash
  <1>3. Known'
    <2>1. Outline(program)' = Outline(program) /\ Reached' = Reached
      BY <1>1 DEF Outline, Reached
    <2> QED
      BY <1>1, <2>1 DEF IInv, Known, Holds
  <1>4. Origins' /\ ReadyMeansUsable'
    BY <1>1, OriginsKept
  <1>5. Searched'
    BY <1>1 DEF IInv, Searched, Finds, Search
  <1> QED
    BY <1>1, <1>2, <1>3, <1>4, <1>5 DEF IInv

LEMMA StutterInv ==
  ASSUME IInv, UNCHANGED vars
  PROVE  IInv'
  <1>1. /\ program' = program /\ machine' = machine /\ at' = at /\ held' = held
        /\ outcome' = outcome
    BY DEF vars
  <1>2. TypeOK' /\ NoCrash'
    BY <1>1 DEF IInv, TypeOK, NoCrash
  <1>3. Known'
    <2>1. Outline(program)' = Outline(program) /\ Reached' = Reached
      BY <1>1 DEF Outline, Reached
    <2> QED
      BY <1>1, <2>1 DEF IInv, Known, Holds
  <1>4. Origins' /\ ReadyMeansUsable'
    BY <1>1, OriginsKept
  <1>5. Searched'
    BY <1>1 DEF IInv, Searched, Finds, Search
  <1> QED
    BY <1>1, <1>2, <1>3, <1>4, <1>5 DEF IInv

(* Whatever the machine and whatever fails, a program's state is as its    *)
(* outline says.                                                           *)
THEOREM Invariance == Spec => []IInv
  <1>1. IInv /\ [Next]_vars => IInv'
    <2> SUFFICES ASSUME IInv, [Next]_vars
                 PROVE  IInv'
      OBVIOUS
    <2>1. ASSUME NEW e, Acquire(e)
          PROVE  IInv'
      BY <2>1, AcquireInv
    <2>2. ASSUME NEW e, Find(e)
          PROVE  IInv'
      BY <2>2, FindInv
    <2>3. ASSUME NEW e, CallFails(e)
          PROVE  IInv'
      BY <2>3, CallFailsInv
    <2>4. ASSUME NEW e, Crash(e)
          PROVE  IInv'
      BY <2>4, CrashInv
    <2>5. CASE Finish
      BY <2>5, FinishInv
    <2>6. CASE Ended
      BY <2>6, StutterInv DEF Ended
    <2>7. CASE UNCHANGED vars
      BY <2>7, StutterInv
    <2> QED
      BY <2>1, <2>2, <2>3, <2>4, <2>5, <2>6, <2>7 DEF Next
  <1> QED
    BY <1>1, InitInv, PTL DEF Spec

(* Every variable stays in its range.                                      *)
THEOREM TypeCorrect == Spec => []TypeOK
  BY Invariance, PTL DEF IInv

(* While a caller may print, everything that takes is there, although the  *)
(* locking of memory, the wake-up and, in io_uring_cpu_mt, io_uring_setup  *)
(* go unchecked, and searches that find nothing report success.            *)
THEOREM ReadyCorrect == Spec => []ReadyMeansUsable
  BY Invariance, PTL DEF IInv

(* Whatever fails, no program but svm_migration_cg uses memory it was not  *)
(* given, the GPU may not access, or it has freed.                         *)
THEOREM CrashCorrect == Spec => []NoCrash
  BY Invariance, PTL DEF IInv

(* On every machine the GPU that memory is shared with is the first agent  *)
(* that can run a kernel, which svm_migration_cg's search finds too.       *)
THEOREM SharedCorrect == Spec => []SharedWithTheGpu
  <1>1. ASSUME IInv
        PROVE  SharedWithTheGpu
    <2> DEFINE gpu == get_agent("gpu", machine.agents).out
    <2> SUFFICES ASSUME Handle("gpu") \in held
                 PROVE  /\ gpu # Null /\ machine.agents[gpu] = "gpu"
                        /\ \A i \in 1 .. gpu - 1 : machine.agents[i] # "gpu"
                        /\ program = "svm_migration_cg" =>
                             get_first_agent("gpu", machine.agents).out = gpu
      BY SearchDomain DEF SharedWithTheGpu
    <2>1. machine.agents \in Seq(AgentKinds)
      BY <1>1, MachineTyped DEF IInv
    <2>2. Search[GpuSearch(program)].out # Null
      BY <1>1 DEF IInv, Origins, Finds
    <2>3. program = "svm_migration_cg" =>
            /\ get_first_agent("gpu", machine.agents).out # Null
            /\ gpu = get_first_agent("gpu", machine.agents).out
      BY <2>1, <2>2, FirstAgentFound, SearchDomain DEF GpuSearch
    <2>4. gpu # Null
      BY <2>2, <2>3, SearchDomain DEF GpuSearch
    <2> QED
      BY <2>1, <2>3, <2>4, AgentFound
  <1> QED
    BY <1>1, Invariance, PTL

(* On every machine each buffer comes from memory of the grain under which *)
(* the program uses or times it, svm_migration_cg's timing of "cg" apart.  *)
THEOREM BuffersCorrect == Spec => []BuffersAsNamed
  <1>1. ASSUME IInv
        PROVE  BuffersAsNamed
    <2>1. program \in Programs /\ held \subseteq Capabilities
      BY <1>1 DEF IInv, TypeOK, Programs
    <2>2. \A e \in Range(Calls[program]) : WellFormed(program, e)
      <3>1. Calls[program] \in Seq(EntriesOf(program))
        BY <2>1, CallsWellFormed
      <3> QED
        BY <3>1 DEF Range, EntriesOf
    <2>3. machine.pools \in Seq(PoolKinds) /\ machine.vram \in Seq(PoolKinds)
      BY <1>1, MachineTyped DEF IInv
    <2>4. ASSUME NEW x \in Buffers, IsAllocated(x)
          PROVE  IF PoolOf(program, x) = "vram" THEN "coarse" \in Grain(x)
                                               ELSE "fine" \in Grain(x)
      <3> DEFINE a == CHOOSE e \in Range(Calls[program]) :
                        e.call = "allocate" /\ Memory(x) \in e.gives
      <3>1. a \in Range(Calls[program]) /\ a.call = "allocate" /\ Memory(x) \in a.gives
        BY <2>4 DEF IsAllocated
      <3>2. Grain(x) = IF Handle("vram") \in a.needs
                       THEN Flags(machine.vram[Search["get_vram"].out])
                       ELSE Flags(machine.pools[Search["get_pool"].out])
        BY DEF Grain
      <3> HIDE DEF a
      <3>3. x \in AllocatedIn(program) /\ a.needs = {Handle(PoolOf(program, x))}
        BY <2>2, <3>1 DEF WellFormed
      <3>4. Handle(PoolOf(program, x)) \in held
        BY <1>1, <2>4, <3>3 DEF IInv, Origins, IsAllocated
      <3>5. CASE PoolOf(program, x) = "vram"
        <4>1. Search["get_vram"].out # Null
          BY <1>1, <3>4, <3>5 DEF IInv, Origins, Finds
        <4>2. "coarse" \in Flags(machine.vram[Search["get_vram"].out])
          BY <2>3, <4>1, PoolFound, SearchDomain
        <4> QED
          BY <3>2, <3>3, <3>5, <4>2
      <3>6. CASE PoolOf(program, x) = "pool"
        <4>1. Search["get_pool"].out # Null
          BY <1>1, <3>4, <3>6 DEF IInv, Origins, Finds
        <4>2. "fine" \in Flags(machine.pools[Search["get_pool"].out])
          BY <2>3, <4>1, PoolFound, SearchDomain
        <4>3. Handle("vram") \notin a.needs
          BY <3>3, <3>6, Differ
        <4> QED
          BY <3>2, <3>6, <4>2, <4>3
      <3> QED
        BY <3>5, <3>6 DEF PoolOf
    <2>5. \A x \in {"ctx", "ring", "sqes", "msgs", "buf", "fg", "rpc"} :
            x \in Buffers /\ PoolOf(program, x) = "pool"
      BY DEF Buffers, PoolOf
    <2>6. program = "svm_migration_fg" =>
            \A x \in {"cg", "dev_ret"} : x \in Buffers /\ PoolOf(program, x) = "vram"
      BY DEF Buffers, PoolOf
    <2> QED
      BY <2>4, <2>5, <2>6 DEF BuffersAsNamed
  <1> QED
    BY <1>1, Invariance, PTL

\* What running on after a search says of it.
LEMMA RunsOn ==
  ASSUME IInv, NEW search \in SearchNames, GoneOn(search)
  PROVE  /\ NoError(Search[search])
         /\ Finds(search) => Handle(SoughtBy(search)) \in held
         /\ SoughtBy(search) = "gpu" => search = GpuSearch(program)
  <1>1. PICK i \in 1 .. at - 1 : Calls[program][i].call = search
    BY DEF GoneOn
  <1>2. /\ program \in Programs /\ at \in 1 .. Len(Calls[program]) + 1
        /\ Calls[program] \in Seq(EntriesOf(program))
    BY CallsWellFormed DEF IInv, TypeOK, Programs
  <1>3. i \in 1 .. Len(Calls[program])
    BY <1>2
  <1>4. WellFormed(program, Calls[program][i])
    BY <1>2, <1>3 DEF EntriesOf
  <1>5. NoError(Search[search]) /\ (Finds(search) => Calls[program][i].gives \subseteq held)
    BY <1>1 DEF IInv, Searched, GoneOn
  <1> QED
    BY <1>1, <1>4, <1>5 DEF WellFormed

(* On a machine of any size, with agents and pools of any kind in any      *)
(* order, a program that runs on after a search holds a handle exactly if  *)
(* there is something for it to find.                                      *)
THEOREM SearchesCorrect == Spec => []SearchesComplete
  <1>1. ASSUME IInv
        PROVE  SearchesComplete
    <2> DEFINE agents == machine.agents
               pools == machine.pools
               vram == machine.vram
    <2>1. agents \in Seq(AgentKinds) /\ pools \in Seq(PoolKinds) /\ vram \in Seq(PoolKinds)
      BY <1>1, MachineTyped DEF IInv
    <2>2. /\ Range(agents) = {agents[i] : i \in 1 .. Len(agents)}
          /\ Range(pools) = {pools[i] : i \in 1 .. Len(pools)}
          /\ Range(vram) = {vram[i] : i \in 1 .. Len(vram)}
      BY <2>1 DEF Range
    <2>3. /\ SoughtBy("get_agent_gpu") = "gpu" /\ SoughtBy("get_first_agent_gpu") = "gpu"
          /\ SoughtBy("get_agent_cpu") = "cpu" /\ SoughtBy("get_pool") = "pool"
          /\ SoughtBy("get_vram") = "vram"
          /\ {"get_agent_gpu", "get_first_agent_gpu", "get_agent_cpu", "get_pool", "get_vram"}
                \subseteq SearchNames
      BY DEF SoughtBy, SearchNames
    <2>4. ASSUME NEW want \in {"cpu", "gpu"}, NoError(get_agent(want, agents))
          PROVE  get_agent(want, agents).out # Null <=> want \in Range(agents)
      <3> HIDE DEF agents
      <3> QED
        BY <2>1, <2>2, <2>4, AgentFound, AgentFoundIfThere
    <2>5. ASSUME NEW flag, NEW s \in Seq(PoolKinds), Range(s) = {s[i] : i \in 1 .. Len(s)},
                 NoError(get_agent_memory_pool(flag, s))
          PROVE  get_agent_memory_pool(flag, s).out # Null <=>
                   \E kind \in Range(s) : flag \in Flags(kind)
      BY <2>5, PoolFound, PoolFoundIfThere
    <2>6. /\ \A kind \in PoolKinds : "fine" \in Flags(kind) <=> kind \in {"fine", "kernarg_fine"}
          /\ \A kind \in PoolKinds : "coarse" \in Flags(kind) <=> kind = "coarse"
      BY DEF Flags, PoolKinds
    <2>7. Range(pools) \subseteq PoolKinds /\ Range(vram) \subseteq PoolKinds
      BY <2>1, <2>2
    <2> HIDE DEF agents, pools, vram
    <2>8. ASSUME GoneOn("get_agent_gpu")
          PROVE  Handle("gpu") \in held <=> "gpu" \in Range(agents)
      <3>1. /\ NoError(Search["get_agent_gpu"]) /\ GpuSearch(program) = "get_agent_gpu"
            /\ Finds("get_agent_gpu") <=> Handle("gpu") \in held
        BY <1>1, <2>3, <2>8, RunsOn DEF IInv, Origins
      <3> QED
        BY <2>4, <3>1, SearchDomain DEF Finds, agents
    <2>9. ASSUME GoneOn("get_first_agent_gpu")
          PROVE  Handle("gpu") \in held <=>
                   \E n \in DOMAIN agents :
                     /\ agents[n] = "gpu"
                     /\ \A i \in 1 .. n - 1 : agents[i] # "gpu_no_dispatch"
      <3>1. /\ NoError(Search["get_first_agent_gpu"])
            /\ GpuSearch(program) = "get_first_agent_gpu"
            /\ Finds("get_first_agent_gpu") <=> Handle("gpu") \in held
        BY <1>1, <2>3, <2>9, RunsOn DEF IInv, Origins
      <3>2. NoError(get_first_agent("gpu", agents))
        BY <3>1, SearchDomain DEF agents
      <3>3. get_first_agent("gpu", agents).out # Null <=>
              \E n \in DOMAIN agents :
                /\ agents[n] = "gpu"
                /\ \A i \in 1 .. n - 1 : agents[i] # "gpu_no_dispatch"
        BY <2>1, <3>2, FirstAgentFoundIfThere
      <3> QED
        BY <3>1, <3>3, SearchDomain DEF Finds, agents
    <2>10. ASSUME GoneOn("get_agent_cpu")
           PROVE  Handle("cpu") \in held <=> "cpu" \in Range(agents)
      <3>1. /\ NoError(Search["get_agent_cpu"])
            /\ Finds("get_agent_cpu") <=> Handle("cpu") \in held
        BY <1>1, <2>3, <2>10, RunsOn DEF IInv, Origins
      <3> QED
        BY <2>4, <3>1, SearchDomain DEF Finds, agents
    <2>11. ASSUME GoneOn("get_pool")
           PROVE  Handle("pool") \in held <=>
                    Range(pools) \intersect {"fine", "kernarg_fine"} # {}
      <3>1. NoError(Search["get_pool"]) /\ (Finds("get_pool") <=> Handle("pool") \in held)
        BY <1>1, <2>3, <2>11, RunsOn DEF IInv, Origins
      <3>2. Finds("get_pool") <=> \E kind \in Range(pools) : "fine" \in Flags(kind)
        BY <2>1, <2>2, <2>5, <3>1, SearchDomain DEF Finds, pools
      <3> QED
        BY <2>6, <2>7, <3>1, <3>2
    <2>12. ASSUME GoneOn("get_vram")
           PROVE  Handle("vram") \in held <=> "coarse" \in Range(vram)
      <3>1. NoError(Search["get_vram"]) /\ (Finds("get_vram") <=> Handle("vram") \in held)
        BY <1>1, <2>3, <2>12, RunsOn DEF IInv, Origins
      <3>2. Finds("get_vram") <=> \E kind \in Range(vram) : "coarse" \in Flags(kind)
        BY <2>1, <2>2, <2>5, <3>1, SearchDomain DEF Finds, vram
      <3> QED
        BY <2>6, <2>7, <3>1, <3>2
    <2> QED
      BY <2>8, <2>9, <2>10, <2>11, <2>12 DEF SearchesComplete, agents, pools, vram
  <1> QED
    BY <1>1, Invariance, PTL

=============================================================================
