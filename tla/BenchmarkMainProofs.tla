------------------------ MODULE BenchmarkMainProofs -------------------------
(***************************************************************************)
(* Proofs about Configuration and BenchmarkMain, for any command line, any *)
(* widths of the integers and any number of cases, workers and cpus.       *)
(***************************************************************************)
EXTENDS BenchmarkMain, FiniteSetTheorems, TLAPS

Names == DOMAIN Members
NameList ==
    {"help", "no_binding", "verbose", "latency_matrix", "bandwidth_matrix", "memcpy_matrix",
     "branch_case", "num_threads", "region_size", "access_pattern", "chunk_size", "stride_size",
     "fragment_size", "use_hugepage", "read_write_mix", "load_gen_delay", "target_duration"}

\* What the members of a configuration may hold.
IsConfig(c) ==
    /\ DOMAIN c = Names
    /\ \A o \in Flags : c[o] \in BOOLEAN
    /\ \A o \in Names \ Flags : c[o] \in Int /\ (o # "load_gen_delay" => c[o] \in Nat)

LEMMA NamesListed == Names = NameList
BY DEF Names, NameList, Members

LEMMA OptionsAreNames == Options \subseteq Names /\ Flags \subseteq Names
<1> USE NamesListed DEF NameList
<1>1. Flags \subseteq Names /\ generic_options \subseteq Names /\ latency_options \subseteq Names
  BY DEF Flags, generic_options, latency_options
<1>2. Options \subseteq Names
  BY <1>1 DEF Options
<1> QED
  BY <1>1, <1>2

LEMMA DefaultIsConfig == IsConfig(Default)
<1>1. IsConfig(Members)
  BY NamesListed DEF IsConfig, NameList, Members, Flags, Names
<1>2. DOMAIN Default = Names
  BY DEF Default, Names
<1>3. \A o \in Names \ {"num_threads", "region_size", "chunk_size", "stride_size",
                         "fragment_size", "read_write_mix"} : Default[o] = Members[o]
  BY DEF Default, Names
<1>4. /\ Default.num_threads \in Nat /\ Default.region_size \in Nat /\ Default.chunk_size \in Nat
      /\ Default.stride_size \in Nat /\ Default.fragment_size \in Nat
      /\ Default.read_write_mix \in Nat
  BY AllowedCpusAssumption DEF Default, Members
<1> QED
  BY <1>1, <1>2, <1>3, <1>4, OptionsAreNames DEF IsConfig, Flags

\* Setting a member to a value of its type.
LEMMA MemberSet ==
    ASSUME NEW c, IsConfig(c), NEW o \in Names, NEW v, NEW d, d = [c EXCEPT ![o] = v],
           o \in Flags => v \in BOOLEAN,
           o \notin Flags => v \in Int,
           o \notin Flags /\ o # "load_gen_delay" => v \in Nat
    PROVE  IsConfig(d)
BY DEF IsConfig

CTypeOK ==
    /\ type \in TestingTypes /\ argv \in Seq(Arguments)
    /\ i \in Nat \ {0} /\ seen \subseteq Options
    /\ IsConfig(config)

LEMMA TextsHold ==
    ASSUME CTypeOK, ~AtEnd
    PROVE  /\ i \in 1..Len(argv) /\ Len(argv) \in Nat /\ argv[i] \in Arguments
           /\ HasText(argv[i]) => Text(argv[i]) \in Texts
<1>1. i \in 1..Len(argv) /\ Len(argv) \in Nat /\ argv[i] \in Arguments
  BY DEF CTypeOK, AtEnd
<1>2. ASSUME HasText(argv[i]) PROVE Text(argv[i]) \in Texts
  <2>1. argv[i].attached \in Seq(Texts) /\ Len(argv[i].attached) <= 1
    BY <1>1 DEF Arguments
  <2>2. CASE argv[i].attached # <<>>
    <3>1. 1 \in 1..Len(argv[i].attached)
      BY <2>1, <2>2
    <3> QED
      BY <2>1, <2>2, <3>1 DEF Text
  <2>3. CASE argv[i].attached = <<>>
    <3>1. i + 1 \in 1..Len(argv)
      BY <1>1, <1>2, <2>3 DEF HasText
    <3>2. argv[i + 1] \in Arguments
      BY <3>1 DEF CTypeOK
    <3> QED
      BY <2>3, <3>2 DEF Text, Arguments
  <2> QED
    BY <2>2, <2>3
<1> QED
  BY <1>1, <1>2

\* An argument that parse() accepts sets one member, to a value of its type.
LEMMA AssignType ==
    ASSUME CTypeOK, ~AtEnd, NEW o \in Match(argv[i]), Accepts(o, argv[i]), Assign(o, argv[i])
    PROVE  o \in Options /\ i' \in Nat \ {0} /\ IsConfig(config')
<1>1. o \in Options /\ o \in Names
  BY OptionsAreNames DEF Match
<1>2. i' \in Nat \ {0}
  BY DEF CTypeOK, Assign
<1> DEFINE v == IF o \in Flags THEN TRUE ELSE Text(argv[i]).n
<1>3. config' = [config EXCEPT ![o] = v]
  BY DEF Assign
<1>4. /\ o \in Flags => v \in BOOLEAN
      /\ o \notin Flags => v \in Int
      /\ o \notin Flags /\ o # "load_gen_delay" => v \in Nat
  <2>1. CASE o \in Flags
    BY <2>1
  <2>2. CASE o \notin Flags
    <3>1. HasText(argv[i]) /\ Fits(o, Text(argv[i])) /\ Text(argv[i]) \in Texts
      BY <2>2, TextsHold DEF Accepts
    <3>2. v = Text(argv[i]).n /\ v \in Int /\ (~Text(argv[i]).minus => v >= 0)
      BY <2>2, <3>1 DEF Texts
    <3>3. o # "load_gen_delay" => ~Text(argv[i]).minus
      BY <3>1 DEF Fits
    <3> HIDE DEF v
    <3> QED
      BY <2>2, <3>2, <3>3
  <2> QED
    BY <2>1, <2>2
<1> HIDE DEF v
<1>5. IsConfig(config')
  <2>1. IsConfig(config)
    BY DEF CTypeOK
  <2> QED
    BY <1>1, <1>3, <1>4, <2>1, MemberSet, Zenon
<1> QED
  BY <1>1, <1>2, <1>5

\* What main() does to the configuration.
LEMMA MainConfig ==
    ASSUME CTypeOK, main
    PROVE  /\ IsConfig(config') /\ UNCHANGED <<type, argv, i, seen>>
           /\ stage = "main" /\ stage' \in {"measure", "cases", "exit"}
           /\ type \in LatencyTypes \cup {"BRANCH_THROUGHPUT"} => config' = config
<1>1. stage = "main" /\ UNCHANGED <<type, argv, i, seen>> /\ IsConfig(config)
  BY DEF main, CTypeOK
<1>2. {"read_write_mix", "fragment_size"} \subseteq Names \ Flags /\ RegionBytes \in Nat
  <2>1. "region_size" \in Names \ Flags /\ {"read_write_mix", "fragment_size"} \subseteq Names \ Flags
    BY NamesListed DEF NameList, Flags
  <2>2. config.region_size \in Nat
    BY <2>1 DEF CTypeOK, IsConfig
  <2>3. U64 \div KB \in Nat \ {0}
    BY WidthAssumption DEF KB
  <2>4. config.region_size % (U64 \div KB) \in Nat
    BY <2>2, <2>3
  <2> QED
    BY <2>1, <2>4 DEF RegionBytes, KB
<1>3. CASE LatencyMain \/ BranchMain
  BY <1>1, <1>3 DEF LatencyMain, BranchMain, Fail, CTypeOK
<1>4. CASE PeakBandwidthMain
  <2>1. /\ config' = [config EXCEPT !.read_write_mix =
                        IF config.bandwidth_matrix /\ @ = 100 THEN 0 ELSE @]
        /\ stage' = "measure" /\ type = "BANDWIDTH"
        /\ config.read_write_mix \in Nat
    BY <1>1, <1>2, <1>4 DEF PeakBandwidthMain, IsConfig
  <2> DEFINE v == IF config.bandwidth_matrix /\ config.read_write_mix = 100
                  THEN 0 ELSE config.read_write_mix
  <2>2. v \in Nat /\ config' = [config EXCEPT !["read_write_mix"] = v]
    BY <2>1
  <2> HIDE DEF v
  <2>3. IsConfig(config')
    <3>1. "read_write_mix" \in Names /\ "read_write_mix" \notin Flags /\ v \in Int
      BY <1>2, <2>2
    <3> QED
      BY <1>1, <2>2, <3>1, MemberSet, Zenon
  <2> QED
    BY <1>1, <2>1, <2>3 DEF LatencyTypes
<1>5. CASE MemcpyMain
  <2>1. /\ \/ config' = [config EXCEPT !.fragment_size = Fragment]
           \/ config' = config
        /\ stage' \in {"measure", "exit"} /\ type = "MEMCPY"
    BY <1>5 DEF MemcpyMain, Fail
  <2>2. Fragment \in Nat
    BY <1>2 DEF Fragment, CTypeOK, IsConfig
  <2>3. IsConfig(config')
    <3>1. "fragment_size" \in Names /\ "fragment_size" \notin Flags /\ Fragment \in Int
      BY <1>2, <2>2
    <3>2. CASE config' = [config EXCEPT !["fragment_size"] = Fragment]
      BY <1>1, <2>2, <3>1, <3>2, MemberSet, Zenon
    <3> QED
      BY <1>1, <2>1, <3>2
  <2> QED
    BY <1>1, <2>1, <2>3 DEF LatencyTypes
<1> QED
  BY <1>3, <1>4, <1>5 DEF main

\* Which steps touch the command line and the configuration.
LEMMA StepsOfMain ==
    ASSUME [Next]_vars
    PROVE  \/ ParseArgument \/ ParseOptionsEnd \/ main
           \/ UNCHANGED cvars
           \/ /\ UNCHANGED <<type, argv, i, seen, config>>
              /\ stage \in {"cases", "running"} /\ stage' \in {"cases", "running", "exit"}
BY DEF Next, vars, cvars, svars, parse_options, PrepareCase, branch_tp, Report, SweepEnd

LEMMA CTypeStep == CTypeOK /\ [Next]_vars => CTypeOK'
<1> SUFFICES ASSUME CTypeOK, [Next]_vars PROVE CTypeOK'
  OBVIOUS
<1>0. ASSUME UNCHANGED type PROVE Options' = Options
  BY <1>0 DEF Options
<1>1. CASE ParseArgument
  <2>1. UNCHANGED <<type, argv>> /\ ~AtEnd
    BY <1>1 DEF ParseArgument
  <2>2. CASE UNCHANGED <<i, seen, config>>
    BY <1>0, <2>1, <2>2 DEF CTypeOK
  <2>3. CASE \E o \in Match(argv[i]) \ seen : /\ Accepts(o, argv[i]) /\ Assign(o, argv[i])
                                              /\ seen' = seen \cup {o}
    BY <1>0, <2>1, <2>3, AssignType DEF CTypeOK
  <2> QED
    BY <1>1, <2>2, <2>3 DEF ParseArgument
<1>2. CASE ParseOptionsEnd
  <2>1. UNCHANGED <<type, argv, i, seen>>
    BY <1>2 DEF ParseOptionsEnd
  <2>2. IsConfig(config')
    <3>1. CASE config' = config
      BY <3>1 DEF CTypeOK
    <3>2. CASE config' = [config EXCEPT !.chunk_size = CorrectedChunk]
      <4>1. {"region_size", "chunk_size"} \subseteq Names \ Flags
        BY NamesListed DEF NameList, Flags
      <4>2. CorrectedChunk \in Nat
        BY <4>1, WidthAssumption DEF CorrectedChunk, CTypeOK, IsConfig
      <4>4. IsConfig(config)
        BY DEF CTypeOK
      <4>3. "chunk_size" \in Names /\ "chunk_size" \notin Flags /\ CorrectedChunk \in Int
        BY <4>1, <4>2
      <4> QED
        BY <3>2, <4>2, <4>3, <4>4, MemberSet, Zenon
    <3> QED
      BY <1>2, <3>1, <3>2 DEF ParseOptionsEnd
  <2> QED
    BY <1>0, <2>1, <2>2 DEF CTypeOK
<1>3. CASE main
  BY <1>0, <1>3, MainConfig DEF CTypeOK
<1>4. CASE UNCHANGED <<type, argv, i, seen, config>>
  BY <1>0, <1>4 DEF CTypeOK
<1> QED
  BY <1>1, <1>2, <1>3, <1>4, StepsOfMain DEF cvars

LEMMA CTypeHolds == Spec => []CTypeOK
<1>1. Init => CTypeOK
  <2> SUFFICES ASSUME Init PROVE CTypeOK
    OBVIOUS
  <2>1. PICK invocation \in Invocations : type = invocation[1] /\ argv = invocation[2]
    BY DEF Init, CInit
  <2>2. type \in TestingTypes /\ argv \in Seq(Arguments)
    BY <2>1, InvocationsAssumption
  <2>3. i = 1 /\ seen = {} /\ config = Default
    BY DEF Init, CInit
  <2> QED
    BY <2>2, <2>3, DefaultIsConfig DEF CTypeOK
<1> QED
  BY <1>1, CTypeStep, PTL DEF Spec

-----------------------------------------------------------------------------
(***************************************************************************)
(* The chunk of a latency benchmark.                                       *)
(***************************************************************************)
ChunkInv == stage = "main" /\ config.use_hugepage > 0
               => config.chunk_size = config.region_size % U32

\* No other stage becomes "main" than the one after which parsing has ended.
LEMMA ChunkStep == CTypeOK /\ ChunkInv /\ [Next]_vars => ChunkInv'
<1> SUFFICES ASSUME CTypeOK, ChunkInv, [Next]_vars, stage' = "main", config'.use_hugepage > 0
             PROVE  config'.chunk_size = config'.region_size % U32
  BY DEF ChunkInv
<1>1. CASE ParseArgument
  BY <1>1 DEF ParseArgument, Fail
<1>2. CASE ParseOptionsEnd
  <2>1. config' = [config EXCEPT !.chunk_size = CorrectedChunk]
    BY <1>2 DEF ParseOptionsEnd, Fail
  <2>2. {"region_size", "chunk_size", "use_hugepage"} \subseteq DOMAIN config
    BY NamesListed DEF NameList, CTypeOK, IsConfig
  <2>3. /\ config'.chunk_size = CorrectedChunk
        /\ config'.region_size = config.region_size
        /\ config'.use_hugepage = config.use_hugepage
    BY <2>1, <2>2
  <2> QED
    BY <2>3 DEF CorrectedChunk
<1>3. CASE main
  BY <1>3, MainConfig
<1>4. CASE UNCHANGED cvars
  BY <1>4 DEF ChunkInv, cvars
<1> QED
  BY <1>1, <1>2, <1>3, <1>4, StepsOfMain

\* For every width of the integers: with huge pages a latency worker's chunk is
\* its whole region, as long as a uint32_t measures the region in bytes.
THEOREM HugePageCoversRegion == Spec => []HugePageRegionIsOnePage
<1>1. Init => ChunkInv
  BY DEF Init, CInit, ChunkInv
<1>2. CTypeOK /\ ChunkInv => HugePageRegionIsOnePage
  <2> SUFFICES ASSUME CTypeOK, ChunkInv, stage = "main", config.use_hugepage > 0,
                      config.region_size < U32 \div KB
               PROVE  PageBytes = RegionBytes
    BY DEF HugePageRegionIsOnePage
  <2> DEFINE r == config.region_size
  <2>1. r \in Nat
    BY NamesListed DEF NameList, CTypeOK, IsConfig, Flags
  <2>2. /\ U32 \in Nat \ {0} /\ U64 \in Nat \ {0} /\ U32 < U64
        /\ U32 \div KB \in Nat /\ U64 \div KB \in Nat
        /\ U32 \div KB <= U64 \div KB /\ U32 \div KB <= U32
    BY WidthAssumption DEF KB
  <2>3. config.chunk_size = r % U32
    BY DEF ChunkInv
  <2> HIDE DEF r
  <2>4. \A n, m \in Nat : n < m => n % m = n
    OBVIOUS
  <2>5. r < U32 \div KB /\ r < U32 /\ r < U64 \div KB
    BY <2>1, <2>2 DEF r
  <2>6. config.chunk_size = r
    BY <2>1, <2>2, <2>3, <2>4, <2>5
  <2>7. RegionBytes = r * KB /\ ChunkBytes = r * KB /\ r * KB \in Nat
    <3>1. r % (U64 \div KB) = r /\ r % (U32 \div KB) = r
      BY <2>1, <2>2, <2>4, <2>5
    <3>2. r * KB \in Nat
      BY <2>1 DEF KB
    <3> QED
      BY <2>6, <3>1, <3>2 DEF RegionBytes, ChunkBytes, r
  <2> QED
    BY <2>7 DEF PageBytes
<1> QED
  BY <1>1, <1>2, ChunkStep, CTypeHolds, PTL DEF Spec

-----------------------------------------------------------------------------
(***************************************************************************)
(* The arguments.  ReadsAsValue is defined by recursion; Reads shows that  *)
(* it exists and what it is at the next argument.                          *)
(***************************************************************************)

\* A set of natural numbers that is not empty has a least element.
LEMMA Least ==
    ASSUME NEW S, S \subseteq Nat, S # {}
    PROVE  \E n \in S : \A m \in S : n <= m
<1> DEFINE R == OpToRel(<, Nat)
<1>1. IsWellFoundedOn(R, Nat)
  BY NatLessThanWellFounded, Zenon
<1>2. \A m, n \in Nat : m < n => <<m, n>> \in R
  BY DEF OpToRel
<1> HIDE DEF R
<1>3. PICK n \in S : \A m \in S : ~ (<<m, n>> \in R)
  BY <1>1, WFMin
<1>4. ASSUME NEW m \in S PROVE n <= m
  <2>1. m \in Nat /\ n \in Nat
    OBVIOUS
  <2>2. ~ (m < n)
    BY <1>2, <1>3, <2>1, Zenon
  <2> QED
    BY <2>1, <2>2
<1> QED
  BY <1>4

\* f says of the places up to m which ones hold a value, W which want the next.
Reading(f, m, W) == f = [n \in 0..m |-> n > 1 /\ ~f[n - 1] /\ W[n - 1]]

LEMMA ReadingExists ==
    ASSUME NEW W, NEW m \in Nat
    PROVE  \E f : Reading(f, m, W)
<1> DEFINE Bad == {k \in Nat : ~ \E f : Reading(f, k, W)}
<1> SUFFICES ASSUME Bad # {} PROVE FALSE
  OBVIOUS
<1>1. Bad \subseteq Nat
  OBVIOUS
<1>2. PICK k \in Bad : \A l \in Bad : k <= l
  BY <1>1, Least, Zenon
<1>3. k \in Nat /\ ~ \E f : Reading(f, k, W)
  BY <1>2
<1>4. k # 0
  <2>1. Reading([n \in 0..0 |-> FALSE], 0, W)
    <3>1. \A n \in 0..0 : ~ (n > 1)
      OBVIOUS
    <3> QED
      BY <3>1 DEF Reading
  <2> QED
    BY <1>3, <2>1
<1>5. k - 1 \in Nat /\ ~ (k <= k - 1) /\ k \in Nat \ {0}
  BY <1>3, <1>4
<1>6. k - 1 \notin Bad
  BY <1>2, <1>5
<1> HIDE DEF Bad
<1>7. PICK f : Reading(f, k - 1, W)
  BY <1>5, <1>6 DEF Bad
<1> DEFINE g == [n \in 0..k |-> IF n = k THEN n > 1 /\ ~f[n - 1] /\ W[n - 1] ELSE f[n]]
<1>8. \A n \in 0..(k - 1) : f[n] = (n > 1 /\ ~f[n - 1] /\ W[n - 1])
  BY <1>7, Zenon DEF Reading
<1>9. \A n \in 0..k : g[n] = (n > 1 /\ ~g[n - 1] /\ W[n - 1])
  <2> SUFFICES ASSUME NEW n \in 0..k PROVE g[n] = (n > 1 /\ ~g[n - 1] /\ W[n - 1])
    OBVIOUS
  <2>1. n > 1 => n - 1 \in 0..k /\ n - 1 # k
    BY <1>5
  <2>2. n > 1 => g[n - 1] = f[n - 1]
    BY <2>1
  <2>3. n # k => n \in 0..(k - 1)
    BY <1>5
  <2>4. g[n] = (n > 1 /\ ~f[n - 1] /\ W[n - 1])
    BY <1>8, <2>3
  <2> HIDE DEF g
  <2> QED
    BY <2>2, <2>4
<1>10. Reading(g, k, W)
  BY <1>9, Zenon DEF Reading
<1> QED
  BY <1>3, <1>10

LEMMA ReadingsAgree ==
    ASSUME NEW W, NEW m \in Nat, NEW f, NEW g, Reading(f, m, W), Reading(g, m + 1, W)
    PROVE  f[m] = g[m]
<1> DEFINE Bad == {k \in 0..m : f[k] # g[k]}
<1> SUFFICES ASSUME Bad # {} PROVE FALSE
  OBVIOUS
<1>1. Bad \subseteq Nat
  OBVIOUS
<1>2. PICK k \in Bad : \A l \in Bad : k <= l
  BY <1>1, Least, Zenon
<1>3. k \in 0..m /\ f[k] # g[k] /\ k \in 0..(m + 1)
  BY <1>2
<1>4. f[k] = (k > 1 /\ ~f[k - 1] /\ W[k - 1]) /\ g[k] = (k > 1 /\ ~g[k - 1] /\ W[k - 1])
  BY <1>3, Zenon DEF Reading
<1>5. k > 1
  BY <1>3, <1>4
<1>6. k - 1 \in 0..m /\ ~ (k <= k - 1)
  BY <1>3, <1>5
<1>7. f[k - 1] = g[k - 1]
  BY <1>2, <1>6
<1> QED
  BY <1>3, <1>4, <1>7

LEMMA Reads ==
    /\ ~ReadsAsValue(1)
    /\ \A k \in Nat \ {0} : ReadsAsValue(k + 1) <=> ~ReadsAsValue(k) /\ WantsNext(argv[k])
<1> DEFINE W == [n \in Nat |-> WantsNext(argv[n])]
           at(k) == CHOOSE f : f = [n \in 0..k |-> n > 1 /\ ~f[n - 1] /\ WantsNext(argv[n - 1])]
<1>1. ASSUME NEW k \in Nat PROVE Reading(at(k), k, W)
  <2>1. ASSUME NEW f PROVE [n \in 0..k |-> n > 1 /\ ~f[n - 1] /\ WantsNext(argv[n - 1])]
                           = [n \in 0..k |-> n > 1 /\ ~f[n - 1] /\ W[n - 1]]
    <3>1. \A n \in 0..k : n > 1 => W[n - 1] = WantsNext(argv[n - 1])
      OBVIOUS
    <3> QED
      BY <3>1
  <2>2. \E f : f = [n \in 0..k |-> n > 1 /\ ~f[n - 1] /\ WantsNext(argv[n - 1])]
    <3>1. PICK f : Reading(f, k, W)
      BY ReadingExists, Zenon
    <3>2. f = [n \in 0..k |-> n > 1 /\ ~f[n - 1] /\ W[n - 1]]
      BY <3>1, Zenon DEF Reading
    <3>3. f = [n \in 0..k |-> n > 1 /\ ~f[n - 1] /\ WantsNext(argv[n - 1])]
      BY <2>1, <3>2, Zenon
    <3> QED
      BY <3>3, Zenon
  <2>3. at(k) = [n \in 0..k |-> n > 1 /\ ~at(k)[n - 1] /\ WantsNext(argv[n - 1])]
    BY <2>2, Zenon
  <2> HIDE DEF at
  <2> QED
    BY <2>1, <2>3 DEF Reading
<1>2. \A k : ReadsAsValue(k) = at(k)[k]
  BY Zenon DEF ReadsAsValue
<1> HIDE DEF at
<1>3. ~ReadsAsValue(1)
  <2>1. 1 \in 0..1 /\ ~ (1 > 1)
    OBVIOUS
  <2>2. Reading(at(1), 1, W)
    BY <1>1
  <2>3. at(1)[1] = FALSE
    BY <2>1, <2>2 DEF Reading
  <2> QED
    BY <1>2, <2>3
<1>4. ASSUME NEW k \in Nat \ {0}
      PROVE  ReadsAsValue(k + 1) <=> ~ReadsAsValue(k) /\ WantsNext(argv[k])
  <2>1. k \in Nat /\ k + 1 \in Nat /\ k + 1 > 1 /\ k + 1 \in 0..(k + 1) /\ (k + 1) - 1 = k
    OBVIOUS
  <2>2. Reading(at(k), k, W) /\ Reading(at(k + 1), k + 1, W)
    BY <1>1, <2>1
  <2>3. at(k)[k] = at(k + 1)[k]
    BY <2>1, <2>2, ReadingsAgree
  <2>4. at(k + 1)[k + 1] = (k + 1 > 1 /\ ~at(k + 1)[(k + 1) - 1] /\ W[(k + 1) - 1])
    BY <2>1, <2>2, Zenon DEF Reading
  <2>5. W[k] = WantsNext(argv[k])
    OBVIOUS
  <2> HIDE DEF W
  <2> QED
    BY <1>2, <2>1, <2>3, <2>4, <2>5
<1> QED
  BY <1>3, <1>4

\* An argument is at most one option.
LEMMA MatchOne ==
    ASSUME NEW token, NEW o \in Match(token), NEW p \in Match(token)
    PROVE  o = p
<1>1. \A a, b \in DOMAIN Alias : Alias[a] = Alias[b] => a = b
  BY DEF Alias
<1>2. \A a \in {o, p} :
         \/ token.form = "long" /\ a = token.name
         \/ token.form = "short" /\ a \in DOMAIN Alias /\ Alias[a] = token.name
  BY DEF Match
<1> QED
  BY <1>1, <1>2

\* The option o, written at place k, has the value it has there.
TakenFrom(o, k) ==
    IF o \in Flags THEN argv[k].attached = <<>> /\ config[o] = TRUE
    ELSE /\ Given(o, k) # <<>> /\ Fits(o, Given(o, k)[1])
         /\ o # "chunk_size" => config[o] = Given(o, k)[1].n

Read == 1..(i - 1)

\* The arguments before place i are read: every option among them is seen, at
\* one place, and has the value written there.
ArgumentsRead ==
    /\ i \in 1..(Len(argv) + 1) /\ ~ReadsAsValue(i)
    /\ \A k \in Read : OptionAt(k) =>
          \E o \in seen : o \in Match(argv[k]) /\ TakenFrom(o, k)
    /\ \A o \in seen : \E k \in Read : OptionAt(k) /\ o \in Match(argv[k])
    /\ \A j, k \in Read : \A o : OptionAt(j) /\ OptionAt(k) /\ o \in Match(argv[j])
                                   /\ o \in Match(argv[k]) => j = k
    /\ \A o \in Options \ seen : o # "chunk_size" => config[o] = Default[o]

\* What HasText and Text find is what is written there.
LEMMA GivenText ==
    ASSUME CTypeOK, ~AtEnd, NEW o
    PROVE  /\ HasText(argv[i]) <=> Given(o, i) # <<>>
           /\ HasText(argv[i]) => Given(o, i)[1] = Text(argv[i])
<1>1. i \in 1..Len(argv) /\ Len(argv) \in Nat
  BY TextsHold
<1> QED
  BY <1>1 DEF HasText, Given, Text

\* An argument that is refused is wrong.
LEMMA Refused ==
    ASSUME CTypeOK, ArgumentsRead, ~AtEnd, WellFormed
    PROVE  \E o \in Match(argv[i]) \ seen : Accepts(o, argv[i])
<1>1. i \in Positions /\ OptionAt(i) /\ Len(argv) \in Nat
  <2>1. i \in 1..Len(argv) /\ Len(argv) \in Nat
    BY TextsHold
  <2> QED
    BY <2>1 DEF ArgumentsRead, OptionAt, Positions, AtEnd
<1>2. PICK o \in Match(argv[i]) : TRUE
  BY <1>1 DEF WellFormed
<1>3. o \in Options /\ i \in PlacesOf(o)
  BY <1>1, <1>2 DEF Match, PlacesOf
<1>4. o \notin seen
  <2> SUFFICES ASSUME o \in seen PROVE FALSE
    OBVIOUS
  <2>1. PICK k \in Read : OptionAt(k) /\ o \in Match(argv[k])
    BY DEF ArgumentsRead
  <2>2. k \in Positions /\ k # i
    BY <1>1, <2>1 DEF Read, Positions
  <2>3. {k, i} \in SUBSET PlacesOf(o)
    BY <1>3, <2>1, <2>2 DEF PlacesOf
  <2>4. IsFiniteSet(PlacesOf(o))
    <3>1. PlacesOf(o) \in SUBSET Positions /\ IsFiniteSet(Positions)
      BY <1>1, FS_Interval DEF PlacesOf, Positions
    <3> QED
      BY <3>1, FS_Subset
  <2>5. Cardinality({k, i}) <= Cardinality(PlacesOf(o))
    BY <2>3, <2>4, FS_Subset
  <2>6. Cardinality({k, i}) = 2
    <3> DEFINE S == {k}
    <3>1. Cardinality(S) = 1 /\ IsFiniteSet(S)
      BY FS_Singleton
    <3>2. {k, i} = S \cup {i} /\ i \notin S
      BY <2>2
    <3> HIDE DEF S
    <3>3. Cardinality(S \cup {i}) = Cardinality(S) + 1
      BY <3>1, <3>2, FS_AddElement
    <3>4. Cardinality({k, i}) = Cardinality(S) + 1
      BY <3>2, <3>3, Zenon
    <3> QED
      BY <3>1, <3>4
  <2>7. Cardinality(PlacesOf(o)) \in Nat /\ Cardinality(PlacesOf(o)) <= 1
    BY <1>3, <2>4, FS_CardinalityType DEF WellFormed
  <2> QED
    BY <2>5, <2>6, <2>7
<1>5. IF o \in Flags THEN argv[i].attached = <<>>
      ELSE Given(o, i) # <<>> /\ Fits(o, Given(o, i)[1])
  BY <1>3 DEF WellFormed
<1>6. Accepts(o, argv[i])
  BY <1>5, GivenText DEF Accepts
<1> QED
  BY <1>2, <1>4, <1>6

\* At the end of the arguments every one is read.
LEMMA AllRead ==
    ASSUME CTypeOK, ArgumentsRead, AtEnd
    PROVE  /\ WellFormed
           /\ \A o \in Options : \A k \in PlacesOf(o) : o \in seen /\ TakenFrom(o, k)
           /\ \A o \in Options : PlacesOf(o) = {} => o \notin seen
<1>1. Len(argv) \in Nat /\ i \in 1..(Len(argv) + 1)
  BY DEF CTypeOK, ArgumentsRead
<1>2. \A k \in Positions : OptionAt(k) => k \in Read
  BY <1>1 DEF Positions, OptionAt, Read, AtEnd
<1>3. Read \subseteq Positions
  BY <1>1 DEF Positions, Read
<1>4. ASSUME NEW o \in Options, NEW k \in PlacesOf(o) PROVE o \in seen /\ TakenFrom(o, k)
  <2>1. k \in Read /\ OptionAt(k) /\ o \in Match(argv[k])
    BY <1>2, <1>4 DEF PlacesOf
  <2>2. PICK p \in seen : p \in Match(argv[k]) /\ TakenFrom(p, k)
    BY <2>1 DEF ArgumentsRead
  <2>3. p = o
    BY <2>1, <2>2, MatchOne
  <2> QED
    BY <2>2, <2>3
<1>5. ASSUME NEW o \in Options PROVE Cardinality(PlacesOf(o)) <= 1
  <2>1. \A j, k \in PlacesOf(o) : j = k
    BY <1>2 DEF PlacesOf, ArgumentsRead
  <2>2. CASE PlacesOf(o) = {}
    <3>1. Cardinality(PlacesOf(o)) = 0
      BY <2>2, FS_EmptySet, Zenon
    <3> QED
      BY <3>1
  <2>3. CASE PlacesOf(o) # {}
    <3>1. PICK k \in PlacesOf(o) : TRUE
      BY <2>3
    <3>2. PlacesOf(o) = {k}
      BY <2>1, <3>1
    <3>3. Cardinality(PlacesOf(o)) = 1
      BY <3>2, FS_Singleton, Zenon
    <3> QED
      BY <3>3
  <2> QED
    BY <2>2, <2>3
<1>6. ASSUME NEW k \in Positions, OptionAt(k) PROVE Match(argv[k]) # {}
  BY <1>2, <1>6 DEF ArgumentsRead
<1>7. WellFormed
  BY <1>4, <1>5, <1>6 DEF WellFormed, TakenFrom
<1>8. ASSUME NEW o \in Options, PlacesOf(o) = {} PROVE o \notin seen
  BY <1>3, <1>8 DEF PlacesOf, ArgumentsRead
<1> QED
  BY <1>4, <1>7, <1>8

\* What parse() is about to read does not change.
LEMMA SameArguments ==
    ASSUME UNCHANGED <<type, argv>>
    PROVE  /\ Options' = Options /\ Positions' = Positions
           /\ \A k : (ReadsAsValue(k) <=> ReadsAsValue(k)') /\ (OptionAt(k) <=> OptionAt(k)')
           /\ \A token : Match(token)' = Match(token)
           /\ \A o : Default[o]' = Default[o] /\ PlacesOf(o)' = PlacesOf(o)
           /\ \A o, k : Given(o, k)' = Given(o, k)
           /\ WellFormed <=> WellFormed'
<1>1. Options' = Options /\ Positions' = Positions /\ Default' = Default
  BY DEF Options, Positions, Default
<1>2. \A token : Match(token)' = Match(token)
  BY <1>1 DEF Match
<1>3. \A token : WantsNext(token)' = WantsNext(token)
  BY <1>2 DEF WantsNext
<1>4. ASSUME NEW k PROVE ReadsAsValue(k)' = ReadsAsValue(k)
  BY <1>3 DEF ReadsAsValue
<1>5. ASSUME NEW k PROVE OptionAt(k)' = OptionAt(k)
  BY <1>4 DEF OptionAt
<1>6. ASSUME NEW o PROVE PlacesOf(o)' = PlacesOf(o)
  BY <1>1, <1>2, <1>5 DEF PlacesOf
<1>7. ASSUME NEW o, NEW k PROVE Given(o, k)' = Given(o, k)
  BY DEF Given
<1>8. WellFormed' = WellFormed
  BY <1>1, <1>2, <1>5, <1>6, <1>7 DEF WellFormed
<1> QED
  BY <1>1, <1>2, <1>4, <1>5, <1>6, <1>7, <1>8

\* Reading one more argument.
LEMMA ReadNext ==
    ASSUME CTypeOK, ArgumentsRead, ~AtEnd, UNCHANGED <<type, argv>>,
           NEW o \in Match(argv[i]) \ seen, Accepts(o, argv[i]), Assign(o, argv[i]),
           seen' = seen \cup {o}
    PROVE  ArgumentsRead'
<1> DEFINE token == argv[i]
           value == IF o \in Flags THEN TRUE ELSE Text(token).n
           alone == o \in Flags \/ token.attached # <<>>
<1>1. /\ i \in 1..Len(argv) /\ Len(argv) \in Nat /\ o \in Options /\ o \in Match(token)
      /\ o \notin seen /\ ~ReadsAsValue(i) /\ OptionAt(i)
  <2>1. i \in 1..Len(argv) /\ Len(argv) \in Nat
    BY TextsHold
  <2>2. ~ReadsAsValue(i)
    BY DEF ArgumentsRead
  <2>3. OptionAt(i)
    BY <2>1, <2>2 DEF OptionAt, AtEnd
  <2> QED
    BY <2>1, <2>2, <2>3 DEF Match
<1>0. PICK here \in 1..Len(argv) : here = i
  BY <1>1
<1>2. config' = [config EXCEPT ![o] = value] /\ i' = IF alone THEN i + 1 ELSE i + 2
  BY DEF Assign
<1>3. WantsNext(token) <=> ~alone
  <2>1. Match(token) = {o}
    BY <1>1, MatchOne
  <2> QED
    BY <2>1 DEF WantsNext
<1>4. ~alone => i < Len(argv)
  BY DEF Accepts, HasText
<1> HIDE DEF alone, value
<1>5. i' \in 1..(Len(argv) + 1) /\ ~ReadsAsValue(i')
  <2>1. ReadsAsValue(i + 1) <=> ~alone
    <3>1. i \in Nat \ {0}
      BY <1>1
    <3>2. ReadsAsValue(i + 1) <=> ~ReadsAsValue(i) /\ WantsNext(argv[i])
      BY <3>1, Reads, Zenon
    <3> QED
      BY <1>1, <1>3, <3>2
  <2>2. CASE alone
    BY <1>1, <1>2, <2>1, <2>2
  <2>3. CASE ~alone
    <3>1. i + 1 \in Nat \ {0} /\ (i + 1) + 1 = i + 2
      BY <1>1
    <3>2. ~ReadsAsValue(i + 2)
      BY <2>1, <2>3, <3>1, Reads
    <3> QED
      BY <1>1, <1>2, <1>4, <2>3, <3>2
  <2> QED
    BY <2>2, <2>3
<1>6. \A k \in Read' : OptionAt(k) => k \in Read \/ k = i
  <2> SUFFICES ASSUME NEW k \in Read', OptionAt(k) PROVE k \in Read \/ k = i
    OBVIOUS
  <2>1. k \in 1..(i' - 1)
    BY DEF Read
  <2>2. CASE alone
    BY <1>1, <1>2, <2>1, <2>2 DEF Read
  <2>3. CASE ~alone
    <3>1. ReadsAsValue(i + 1)
      BY <1>1, <1>3, <2>3, Reads
    <3>2. k # i + 1
      BY <3>1 DEF OptionAt
    <3> QED
      BY <1>1, <1>2, <2>1, <2>3, <3>2 DEF Read
  <2> QED
    BY <2>2, <2>3
<1>7. Read \subseteq Read' /\ i \in Read' /\ i \notin Read
  BY <1>1, <1>2 DEF Read
<1>8. o \in Names /\ IsConfig(config)
  BY <1>1, OptionsAreNames DEF CTypeOK
<1>9. config'[o] = value /\ \A p : p # o => config'[p] = config[p] \/ p \notin Names
  BY <1>2, <1>8 DEF IsConfig
<1>10. TakenFrom(o, here)'
  <2>1. CASE o \in Flags
    BY <1>0, <1>9, <2>1 DEF TakenFrom, Accepts, value
  <2>2. CASE o \notin Flags
    <3>1. Given(o, i) # <<>> /\ Given(o, i)[1] = Text(token) /\ Fits(o, Text(token))
      BY <2>2, GivenText DEF Accepts
    <3>2. Given(o, here)' = Given(o, here) /\ Given(o, here) = Given(o, i)
      BY <1>0, SameArguments
    <3> QED
      BY <1>9, <2>2, <3>1, <3>2 DEF TakenFrom, value
  <2> QED
    BY <2>1, <2>2
<1>11. ASSUME NEW p \in seen, NEW k, TakenFrom(p, k) PROVE TakenFrom(p, k)'
  <2>1. p # o /\ p \in Names
    BY <1>1, OptionsAreNames DEF CTypeOK
  <2>2. config'[p] = config[p]
    BY <1>9, <2>1
  <2> QED
    BY <1>11, <2>2, SameArguments DEF TakenFrom
<1>12. ASSUME NEW k \in Read', OptionAt(k)
       PROVE  \E p \in seen' : p \in Match(argv[k]) /\ TakenFrom(p, k)'
  <2>1. CASE k \in Read
    <3>1. PICK p \in seen : p \in Match(argv[k]) /\ TakenFrom(p, k)
      BY <1>12, <2>1 DEF ArgumentsRead
    <3>2. TakenFrom(p, k)' /\ p \in seen'
      BY <1>11, <3>1
    <3> QED
      BY <3>1, <3>2
  <2>2. CASE k = i
    <3>1. k = here
      BY <1>0, <2>2
    <3>2. TakenFrom(o, k)' /\ o \in seen'
      BY <1>10, <3>1
    <3> QED
      BY <1>1, <2>2, <3>2
  <2> QED
    BY <1>6, <1>12, <2>1, <2>2
<1>13. ASSUME NEW p \in seen' PROVE \E k \in Read' : OptionAt(k) /\ p \in Match(argv[k])
  <2>1. CASE p \in seen
    BY <1>7, <2>1 DEF ArgumentsRead
  <2>2. CASE p = o
    BY <1>1, <1>7, <2>2
  <2> QED
    BY <2>1, <2>2
<1>14. ASSUME NEW j \in Read', NEW k \in Read', NEW p, OptionAt(j), OptionAt(k),
              p \in Match(argv[j]), p \in Match(argv[k])
       PROVE  j = k
  <2>1. ASSUME NEW l \in Read, OptionAt(l) PROVE o \notin Match(argv[l])
    <3>1. PICK q \in seen : q \in Match(argv[l])
      BY <2>1 DEF ArgumentsRead
    <3> QED
      BY <1>1, <3>1, MatchOne
  <2>2. p \in Match(token) => p = o
    BY <1>1, MatchOne
  <2>3. CASE j \in Read /\ k \in Read
    BY <1>14, <2>3 DEF ArgumentsRead
  <2>4. CASE j = i \/ k = i
    BY <1>6, <1>14, <2>1, <2>2, <2>4
  <2> QED
    BY <1>6, <1>14, <2>3, <2>4
<1>15. ASSUME NEW p \in Options \ seen', p # "chunk_size" PROVE config'[p] = Default[p]
  <2>1. p # o /\ p \in Names /\ p \in Options \ seen
    BY <1>15, OptionsAreNames
  <2> QED
    BY <1>9, <1>15, <2>1 DEF ArgumentsRead
<1>17. \A k : (OptionAt(k)' <=> OptionAt(k)) /\ Match(argv[k])' = Match(argv[k])
  <2>1. \A k : argv[k]' = argv[k]
    OBVIOUS
  <2> QED
    BY <2>1, SameArguments
<1>18. (i \in 1..(Len(argv) + 1) /\ ~ReadsAsValue(i))'
  BY <1>5, SameArguments
<1>19. (\A k \in Read : OptionAt(k) => \E p \in seen : p \in Match(argv[k]) /\ TakenFrom(p, k))'
  BY <1>12, <1>17
<1>20. (\A p \in seen : \E k \in Read : OptionAt(k) /\ p \in Match(argv[k]))'
  BY <1>13, <1>17
<1>21. (\A j, k \in Read : \A p : OptionAt(j) /\ OptionAt(k) /\ p \in Match(argv[j])
                                   /\ p \in Match(argv[k]) => j = k)'
  BY <1>14, <1>17
<1>22. (\A p \in Options \ seen : p # "chunk_size" => config[p] = Default[p])'
  BY <1>15, SameArguments
<1> QED
  BY <1>18, <1>19, <1>20, <1>21, <1>22, Zenon DEF ArgumentsRead

\* The correction of the chunk does not touch what was read.
LEMMA StillRead ==
    ASSUME CTypeOK, ArgumentsRead, UNCHANGED <<type, argv, i, seen>>,
           \A o \in Names : o # "chunk_size" => config'[o] = config[o]
    PROVE  ArgumentsRead'
<1>1. Options \subseteq Names /\ seen \subseteq Names /\ "chunk_size" \notin Flags
  BY OptionsAreNames DEF CTypeOK, Flags
<1>2. ASSUME NEW o \in seen, NEW k, TakenFrom(o, k) PROVE TakenFrom(o, k)'
  <2>1. o # "chunk_size" => config'[o] = config[o]
    BY <1>1
  <2> QED
    BY <1>1, <1>2, <2>1, SameArguments DEF TakenFrom
<1>3. Read' = Read
  BY DEF Read
<1>4. \A k : (OptionAt(k)' <=> OptionAt(k)) /\ Match(argv[k])' = Match(argv[k])
  <2>1. \A k : argv[k]' = argv[k]
    OBVIOUS
  <2> QED
    BY <2>1, SameArguments
<1>5. (i \in 1..(Len(argv) + 1) /\ ~ReadsAsValue(i))'
  BY SameArguments DEF ArgumentsRead
<1>6. (\A k \in Read : OptionAt(k) => \E o \in seen : o \in Match(argv[k]) /\ TakenFrom(o, k))'
  BY <1>2, <1>3, <1>4 DEF ArgumentsRead
<1>7. (\A o \in seen : \E k \in Read : OptionAt(k) /\ o \in Match(argv[k]))'
  BY <1>3, <1>4 DEF ArgumentsRead
<1>10. ASSUME NEW j \in Read, NEW k \in Read, NEW o, OptionAt(j), OptionAt(k),
              o \in Match(argv[j]), o \in Match(argv[k])
       PROVE  j = k
  BY <1>10 DEF ArgumentsRead
<1>8. (\A j, k \in Read : \A o : OptionAt(j) /\ OptionAt(k) /\ o \in Match(argv[j])
                                 /\ o \in Match(argv[k]) => j = k)'
  BY <1>3, <1>4, <1>10
<1>9. (\A o \in Options \ seen : o # "chunk_size" => config[o] = Default[o])'
  BY <1>1, SameArguments DEF ArgumentsRead
<1> QED
  BY <1>5, <1>6, <1>7, <1>8, <1>9, Zenon DEF ArgumentsRead

ParseInv ==
    /\ stage \in {"parse", "main"} => ArgumentsRead
    /\ stage = "main" => ~config.help
    /\ stage # "parse" => AtEnd \/ (~WellFormed /\ stage = "exit")

LEMMA ParseStep == CTypeOK /\ ParseInv /\ [Next]_vars => ParseInv'
<1> SUFFICES ASSUME CTypeOK, ParseInv, [Next]_vars PROVE ParseInv'
  OBVIOUS
<1>1. CASE ParseArgument
  <2>1. stage = "parse" /\ ~AtEnd /\ UNCHANGED <<type, argv>> /\ ArgumentsRead
    BY <1>1 DEF ParseArgument, ParseInv
  <2>2. CASE \E o \in Match(argv[i]) \ seen :
                /\ Accepts(o, argv[i]) /\ Assign(o, argv[i]) /\ seen' = seen \cup {o}
                /\ UNCHANGED stage
    <3>1. ArgumentsRead'
      BY <2>1, <2>2, ReadNext
    <3> QED
      BY <2>1, <2>2, <3>1 DEF ParseInv
  <2>3. CASE /\ \A o \in Match(argv[i]) \ seen : ~Accepts(o, argv[i])
             /\ Fail
    <3>1. ~WellFormed
      BY <2>1, <2>3, Refused
    <3>2. ~WellFormed'
      BY <2>1, <3>1, SameArguments
    <3> QED
      BY <2>3, <3>2 DEF ParseInv, Fail
  <2> QED
    BY <1>1, <2>2, <2>3 DEF ParseArgument
<1>2. CASE ParseOptionsEnd
  <2>1. /\ stage = "parse" /\ AtEnd /\ ArgumentsRead /\ UNCHANGED <<type, argv, i, seen>>
    BY <1>2 DEF ParseOptionsEnd, ParseInv
  <2>2. AtEnd'
    BY <2>1 DEF AtEnd
  <2>3. CASE Fail
    BY <2>2, <2>3 DEF ParseInv, Fail
  <2>4. CASE /\ ~config.help /\ stage' = "main"
             /\ config' = [config EXCEPT !.chunk_size = CorrectedChunk]
    <3>1. /\ \A o \in Names : o # "chunk_size" => config'[o] = config[o]
          /\ "help" \in Names
      BY <2>4, NamesListed DEF NameList, CTypeOK, IsConfig
    <3>2. ArgumentsRead'
      BY <2>1, <3>1, StillRead
    <3>3. ~config'.help
      BY <2>4, <3>1
    <3>4. stage' = "main"
      BY <2>4
    <3> QED
      BY <2>2, <3>2, <3>3, <3>4 DEF ParseInv
  <2> QED
    BY <1>2, <2>3, <2>4 DEF ParseOptionsEnd
<1>3. CASE main
  <2>1. AtEnd
    BY <1>3, MainConfig DEF ParseInv
  <2> QED
    BY <1>3, <2>1, MainConfig DEF ParseInv, AtEnd
<1>4. CASE UNCHANGED cvars
  <2>1. UNCHANGED <<type, argv, i, seen, config, stage>>
    BY <1>4 DEF cvars
  <2>2. ArgumentsRead => ArgumentsRead'
    BY <2>1, StillRead
  <2> QED
    BY <2>1, <2>2, SameArguments DEF ParseInv, AtEnd
<1>5. CASE /\ UNCHANGED <<type, argv, i, seen, config>>
           /\ stage \in {"cases", "running"} /\ stage' \in {"cases", "running", "exit"}
  BY <1>5 DEF ParseInv, AtEnd
<1> QED
  BY <1>1, <1>2, <1>3, <1>4, <1>5, StepsOfMain

\* Whatever the arguments and the benchmark: parse() refuses exactly the command
\* lines that are not well formed, and main() finds every option as it was written.
THEOREM ParseIsFaithful == Spec => []ParsedAsWritten
<1>1. CTypeOK /\ Init => ParseInv
  <2> SUFFICES ASSUME CTypeOK, Init PROVE ArgumentsRead
    BY DEF Init, CInit, ParseInv
  <2>1. i = 1 /\ seen = {} /\ config = Default
    BY DEF Init, CInit
  <2>3. Len(argv) \in Nat
    BY DEF CTypeOK
  <2>2. Read = {}
    BY <2>1 DEF Read
  <2> QED
    BY <2>1, <2>2, <2>3, Reads DEF ArgumentsRead
<1>2. CTypeOK /\ ParseInv => ParsedAsWritten
  <2> SUFFICES ASSUME CTypeOK, ParseInv PROVE ParsedAsWritten
    OBVIOUS
  <2>1. stage = "exit" /\ status = 1 /\ ~AtEnd => ~WellFormed
    BY DEF ParseInv
  <2>2. ASSUME stage = "main"
        PROVE  /\ WellFormed /\ PlacesOf("help") = {}
               /\ \A o \in Options \ {"chunk_size"} :
                     IF PlacesOf(o) = {} THEN config[o] = Default[o]
                     ELSE \A k \in PlacesOf(o) :
                             config[o] = IF o \in Flags THEN TRUE ELSE Given(o, k)[1].n
    <3>1. ArgumentsRead /\ AtEnd /\ ~config.help
      BY <2>2 DEF ParseInv
    <3>2. /\ WellFormed
          /\ \A o \in Options : \A k \in PlacesOf(o) : o \in seen /\ TakenFrom(o, k)
          /\ \A o \in Options : PlacesOf(o) = {} => o \notin seen
      BY <3>1, AllRead
    <3>3. PlacesOf("help") = {}
      <4>1. "help" \in Options /\ "help" \in Flags
        BY DEF Options, generic_options, Flags
      <4> QED
        BY <3>1, <3>2, <4>1 DEF TakenFrom
    <3>4. \A o \in Options \ {"chunk_size"} : PlacesOf(o) = {} => config[o] = Default[o]
      BY <3>1, <3>2 DEF ArgumentsRead
    <3>5. ASSUME NEW o \in Options \ {"chunk_size"}, NEW k \in PlacesOf(o)
          PROVE  config[o] = IF o \in Flags THEN TRUE ELSE Given(o, k)[1].n
      BY <3>2 DEF TakenFrom
    <3> QED
      BY <3>2, <3>3, <3>4, <3>5
  <2> QED
    BY <2>1, <2>2 DEF ParsedAsWritten
<1> QED
  BY <1>1, <1>2, ParseStep, CTypeHolds, PTL DEF Spec
-----------------------------------------------------------------------------
(***************************************************************************)
(* The sweep.                                                              *)
(***************************************************************************)
Total == end - first
Budget == config.target_duration * Second
Started == stage \in {"cases", "running"} \/ status = 0

Measured == [branches : Nat \ {0}, time : Nat \ {0}, cycles : Nat]
Quotients == Nat \X (Nat \ {0})
Causes == {"", "errno", "could not read", "did not run", "multiplexed"}
Packets == [finished_branches : Nat, exec_time : Nat, cycles : Nat, counter_error : Causes]

SweepType ==
    /\ case \in Nat
    /\ routine \in [Workers -> {"off", "batch", "done"}]
    /\ counting \in [Workers -> BOOLEAN]
    /\ packet \in [Workers -> Packets]
    /\ truth \in [Workers -> Seq(Measured)]
    /\ rows \in Seq([case : Nat, thread : Workers, rate : Quotients, per_cycle : Quotients])
    /\ peak_rate \in [Workers -> Quotients] /\ peak_per_cycle \in [Workers -> Quotients]

Untouched ==
    /\ rows = <<>> /\ warning = ""
    /\ truth = [t \in Workers |-> <<>>]
    /\ peak_rate = [t \in Workers |-> <<0, 1>>]
    /\ peak_per_cycle = [t \in Workers |-> <<0, 1>>]

\* The sweep starts from nothing, with a configuration that main() has checked.
StartInv ==
    /\ ~Started => Untouched
    /\ Started => /\ type = "BRANCH_THROUGHPUT"
                  /\ config.num_threads \in 1..MaxThreads /\ config.target_duration > 0
                  /\ config.branch_case <= branch_case_count
                  /\ case \in first..end
    /\ stage = "running" => case < end
    /\ status = 0 => stage = "exit" /\ case = end

\* A worker in a batch has time left; one that has ended has left in its packet
\* what it has just measured, and the cause if there are no cycles.
WorkerInv ==
    stage = "running" => \A t \in Workers :
        /\ t \notin Used => routine[t] = "done"
        /\ routine[t] = "batch" =>
              /\ packet[t].exec_time * Total < Budget
              /\ ~counting[t] => packet[t].counter_error # ""
        /\ t \in Used /\ routine[t] = "done" =>
              LET did == truth[t][case - first + 1]
              IN /\ packet[t].finished_branches = did.branches
                 /\ packet[t].exec_time = did.time /\ packet[t].cycles = did.cycles
                 /\ did.cycles = 0 => packet[t].counter_error # ""

\* Long enough, and not without the last batch.
Whole(did) ==
    /\ Budget <= did.time * Total
    /\ \E c \in Costs : (did.time - c) * Total < Budget

Finished(t) == IF stage = "running" /\ routine[t] = "done" THEN case - first + 1
               ELSE case - first

TruthInv ==
    Started => \A t \in Used : /\ Len(truth[t]) = Finished(t)
                               /\ \A k \in 1..Len(truth[t]) : Whole(truth[t][k])

RateOf(did) == <<did.branches, did.time>>
PerCycleOf(did) == IF did.cycles > 0 THEN <<did.branches, did.cycles>> ELSE <<0, 1>>
RowFor(k, t) == [case |-> first + k - 1, thread |-> t, rate |-> RateOf(truth[t][k]),
                 per_cycle |-> PerCycleOf(truth[t][k])]

RowsInv ==
    Started => /\ Len(rows) = (case - first) * config.num_threads
               /\ \A k \in 1..(case - first) : \A t \in Used : RowOf(k, t) = RowFor(k, t)

Best(q, S) == (\A r \in S : ~Less(q, r)) /\ (q = <<0, 1>> \/ q \in S)

PeakInv ==
    Started => \A t \in Used :
        /\ Best(peak_rate[t], {RateOf(truth[t][k]) : k \in 1..(case - first)})
        /\ Best(peak_per_cycle[t], {PerCycleOf(truth[t][k]) : k \in 1..(case - first)})

WarnInv == warning # "" <=> \E j \in 1..Len(rows) : rows[j].per_cycle = <<0, 1>>

SweepInv ==
    /\ SweepType /\ StartInv /\ WorkerInv /\ TruthInv
    /\ RowsInv /\ PeakInv /\ WarnInv

-----------------------------------------------------------------------------
(***************************************************************************)
(* Lemmas on quotients, the checked configuration and unchanged parts.     *)
(***************************************************************************)
LEMMA Product == \A a, b, c \in Nat : a <= b => a * c \in Nat /\ b * c \in Nat /\ a * c <= b * c
<1> SUFFICES ASSUME NEW a \in Nat, NEW b \in Nat, NEW c \in Nat, a <= b
             PROVE  a * c \in Nat /\ b * c \in Nat /\ a * c <= b * c
  OBVIOUS
<1> DEFINE d == b - a
<1>1. d \in Nat /\ b = a + d
  OBVIOUS
<1> HIDE DEF d
<1>2. d * c \in Nat /\ a * c \in Nat
  BY <1>1
<1>3. b * c = a * c + d * c
  BY <1>1
<1> QED
  BY <1>2, <1>3

LEMMA StrictProduct ==
    \A a, b, c \in Nat : a < b /\ c > 0 => a * c < b * c
<1> SUFFICES ASSUME NEW a \in Nat, NEW b \in Nat, NEW c \in Nat, a < b, c > 0
             PROVE  a * c < b * c
  OBVIOUS
<1>1. a + 1 \in Nat /\ a + 1 <= b /\ a * c \in Nat /\ b * c \in Nat
  OBVIOUS
<1>2. (a + 1) * c <= b * c
  BY <1>1, Product
<1>3. (a + 1) * c = a * c + c
  OBVIOUS
<1> QED
  BY <1>1, <1>2, <1>3

\* A quotient that is not below q is not below a smaller one.
LEMMA NotLess ==
    ASSUME NEW q \in Quotients, NEW r \in Quotients, NEW s \in Quotients,
           ~Less(q, s), Less(q, r)
    PROVE  ~Less(r, s)
<1> DEFINE q1 == q[1] q2 == q[2] r1 == r[1] r2 == r[2] s1 == s[1] s2 == s[2]
<1>1. /\ q1 \in Nat /\ r1 \in Nat /\ s1 \in Nat
      /\ q2 \in Nat \ {0} /\ r2 \in Nat \ {0} /\ s2 \in Nat \ {0}
  BY DEF Quotients
<1>2. s1 * q2 <= q1 * s2 /\ q1 * r2 < r1 * q2
  <2>1. q1 * s2 \in Nat /\ s1 * q2 \in Nat
    BY <1>1
  <2> QED
    BY <2>1 DEF Less
<1> SUFFICES ASSUME r1 * s2 < s1 * r2 PROVE FALSE
  BY DEF Less
<1> HIDE DEF q1, q2, r1, r2, s1, s2
<1>3. s1 * q2 \in Nat /\ q1 * s2 \in Nat /\ q1 * r2 \in Nat /\ r1 * q2 \in Nat
      /\ r1 * s2 \in Nat /\ s1 * r2 \in Nat
  BY <1>1
<1>4. (s1 * q2) * r2 <= (q1 * s2) * r2
  BY <1>1, <1>2, <1>3, Product
<1>5. (q1 * r2) * s2 < (r1 * q2) * s2
  BY <1>1, <1>2, <1>3, StrictProduct
<1>6. (r1 * s2) * q2 < (s1 * r2) * q2
  BY <1>1, <1>3, StrictProduct
<1>7. /\ (s1 * q2) * r2 = (s1 * r2) * q2 /\ (q1 * s2) * r2 = (q1 * r2) * s2
      /\ (r1 * q2) * s2 = (r1 * s2) * q2
  BY <1>1
<1>8. /\ (s1 * r2) * q2 \in Nat /\ (q1 * r2) * s2 \in Nat /\ (r1 * s2) * q2 \in Nat
  BY <1>1, <1>3
<1> QED
  BY <1>4, <1>5, <1>6, <1>7, <1>8

\* The larger of the best so far and the next one is the best of all.
LEMMA BestOfAll ==
    ASSUME NEW S, S \subseteq Quotients, NEW q \in Quotients, NEW r \in Quotients, Best(q, S)
    PROVE  Larger(q, r) \in Quotients /\ Best(Larger(q, r), S \cup {r})
<1>1. CASE Less(q, r)
  <2>1. Larger(q, r) = r
    BY <1>1 DEF Larger
  <2>2. \A s \in S : ~Less(r, s)
    BY <1>1, NotLess DEF Best
  <2>3. ~Less(r, r)
    BY DEF Less, Quotients
  <2> QED
    BY <2>1, <2>2, <2>3 DEF Best
<1>2. CASE ~Less(q, r)
  BY <1>2 DEF Larger, Best
<1> QED
  BY <1>1, <1>2

LEMMA Chosen ==
    ASSUME CTypeOK, StartInv, Started
    PROVE  /\ config.num_threads \in 1..MaxThreads /\ config.num_threads \in Nat \ {0}
           /\ Used \subseteq Workers
           /\ first \in Nat /\ end \in Nat /\ case \in first..end /\ case - first \in Nat
           /\ Total \in Nat \ {0} /\ Selected = Total /\ case - first <= Total
           /\ Budget \in Nat \ {0}
           /\ first = (IF config.branch_case = 0 THEN 0 ELSE config.branch_case - 1)
<1>1. /\ config.num_threads \in 1..MaxThreads /\ config.target_duration > 0
      /\ case \in first..end /\ config.branch_case <= branch_case_count
  BY DEF StartInv
<1>2. config.branch_case \in Nat /\ config.target_duration \in Nat
  BY NamesListed DEF NameList, CTypeOK, IsConfig, Flags
<1>3. first \in Nat /\ end \in Nat /\ end - first \in Nat \ {0} /\ Selected = end - first
      /\ first = (IF config.branch_case = 0 THEN 0 ELSE config.branch_case - 1)
  BY <1>2, SweepAssumption DEF first, end, Selected
<1>4. Budget \in Nat \ {0}
  <2>1. \A a, b \in Nat \ {0} : a * b \in Nat \ {0}
    <3> SUFFICES ASSUME NEW a \in Nat \ {0}, NEW b \in Nat \ {0} PROVE a * b \in Nat \ {0}
      OBVIOUS
    <3>1. 1 * b <= a * b /\ a * b \in Nat
      BY Product
    <3> QED
      BY <3>1
  <2> QED
    BY <1>1, <1>2, <2>1, SweepAssumption DEF Budget
<1> QED
  BY <1>1, <1>3, <1>4, SweepAssumption DEF Used, Workers, Total

\* The parts that a step leaves alone if it leaves what they speak of alone.
LEMMA SameConfig ==
    ASSUME config' = config
    PROVE  /\ first' = first /\ end' = end /\ Used' = Used /\ Total' = Total /\ Budget' = Budget
           /\ \A did : Whole(did)' <=> Whole(did)
BY DEF first, end, Used, Total, Budget, Whole

LEMMA PastKept ==
    ASSUME CTypeOK, SweepInv, Started, UNCHANGED <<config, case, rows, peak_rate, peak_per_cycle>>,
           \A t \in Used : \A k \in 1..(case - first) : truth'[t][k] = truth[t][k]
    PROVE  RowsInv' /\ PeakInv'
<1>1. first' = first /\ Used' = Used
  BY SameConfig
<1>2. RowsInv'
  <2>1. /\ Len(rows) = (case - first) * config.num_threads
        /\ \A k \in 1..(case - first) : \A t \in Used : RowOf(k, t) = RowFor(k, t)
    BY DEF SweepInv, RowsInv
  <2>2. \A k \in 1..(case - first) : \A t \in Used : RowOf(k, t)' = RowOf(k, t) /\ RowFor(k, t)' = RowFor(k, t)
    BY <1>1 DEF RowOf, RowFor
  <2> QED
    BY <1>1, <2>1, <2>2 DEF RowsInv
<1>3. PeakInv'
  <2>1. ASSUME NEW t \in Used
        PROVE  /\ {RateOf(truth'[t][k]) : k \in 1..(case - first)}
                     = {RateOf(truth[t][k]) : k \in 1..(case - first)}
               /\ {PerCycleOf(truth'[t][k]) : k \in 1..(case - first)}
                     = {PerCycleOf(truth[t][k]) : k \in 1..(case - first)}
    BY <2>1
  <2>2. \A t \in Used :
           /\ Best(peak_rate[t], {RateOf(truth[t][k]) : k \in 1..(case - first)})
           /\ Best(peak_per_cycle[t], {PerCycleOf(truth[t][k]) : k \in 1..(case - first)})
    BY DEF SweepInv, PeakInv
  <2>3. \A t \in Used :
           /\ Best(peak_rate'[t], {RateOf(truth'[t][k]) : k \in 1..(case' - first')})
           /\ Best(peak_per_cycle'[t], {PerCycleOf(truth'[t][k]) : k \in 1..(case' - first')})
    BY <1>1, <2>1, <2>2
  <2> QED
    BY <1>1, <2>3 DEF PeakInv
<1> QED
  BY <1>2, <1>3

LEMMA NoRows == (rows' = <<>> /\ warning' = "") => WarnInv'
<1>1. Len(<<>>) = 0 /\ 1..0 = {}
  OBVIOUS
<1> QED
  BY <1>1 DEF WarnInv

\* Nothing of the sweep is there yet.
LEMMA NotStarted ==
    ASSUME SweepInv, ~Started', Untouched', SweepType', stage' # "running", status' # 0
    PROVE  SweepInv'
<1>1. StartInv' /\ WorkerInv' /\ TruthInv' /\ RowsInv' /\ PeakInv'
  BY DEF StartInv, WorkerInv, TruthInv, RowsInv, PeakInv
<1>2. WarnInv'
  BY NoRows DEF Untouched
<1> QED
  BY <1>1, <1>2 DEF SweepInv

LEMMA SweepParses ==
    ASSUME SweepInv, parse_options, UNCHANGED svars
    PROVE  SweepInv'
<1>1. /\ stage = "parse" /\ stage' \in {"parse", "main", "exit"} /\ status' \in {status, 1}
  BY DEF parse_options, ParseArgument, ParseOptionsEnd, Fail
<1>2. ~Started /\ ~Started' /\ status' # 0 /\ stage' # "running"
  BY <1>1 DEF SweepInv, StartInv, Started
<1>3. Untouched' /\ SweepType'
  BY <1>2 DEF SweepInv, StartInv, Untouched, SweepType, svars
<1> QED
  BY <1>2, <1>3, NotStarted

LEMMA SweepStarts ==
    ASSUME CTypeOK, SweepInv, main
    PROVE  SweepInv'
<1>1. /\ stage = "main" /\ UNCHANGED <<type, routine, counting, packet, rows, peak_rate,
                                       peak_per_cycle, warning, truth>>
  BY DEF main
<1>2. ~Started /\ Untouched
  BY <1>1 DEF SweepInv, StartInv, Started
<1>3. Untouched'
  BY <1>1, <1>2 DEF Untouched
<1>4. CASE /\ stage' # "cases" /\ case' = case
           /\ stage' \in {"measure", "exit"} /\ status' \in {status, 1}
  <2>1. SweepType'
    BY <1>1, <1>4 DEF SweepInv, SweepType
  <2>2. ~Started' /\ status' # 0 /\ stage' # "running"
    BY <1>2, <1>4 DEF SweepInv, StartInv, Started
  <2> QED
    BY <1>3, <2>1, <2>2, NotStarted
<1>5. CASE /\ type = "BRANCH_THROUGHPUT" /\ stage' = "cases" /\ UNCHANGED <<config, status>>
           /\ config.num_threads > 0 /\ config.num_threads <= MaxThreads
           /\ config.target_duration > 0 /\ config.branch_case <= branch_case_count
           /\ case' = first
  <2>1. /\ config.branch_case \in Nat /\ config.target_duration \in Nat /\ config.num_threads \in Nat
    BY NamesListed DEF NameList, CTypeOK, IsConfig, Flags
  <2>2. first \in Nat /\ end \in Nat /\ first < end /\ config.num_threads \in 1..MaxThreads
    BY <1>5, <2>1, SweepAssumption DEF first, end
  <2>3. first' = first /\ end' = end /\ Used' = Used
    BY <1>5, SameConfig
  <2>4. SweepType'
    BY <1>1, <1>5, <2>2 DEF SweepInv, SweepType
  <2>5. Started' /\ stage' # "running" /\ status' # 0
    BY <1>2, <1>5 DEF Started
  <2>6. StartInv' /\ WorkerInv'
    BY <1>1, <1>5, <2>2, <2>3, <2>5 DEF StartInv, WorkerInv
  <2>7. Used \subseteq Workers /\ case' - first' = 0
    BY <1>5, <2>1, <2>2, <2>3, SweepAssumption DEF Used, Workers
  <2>8. TruthInv'
    <3>1. \A t \in Used : truth'[t] = <<>>
      BY <1>3, <2>7 DEF Untouched
    <3>2. \A t \in Used : Finished(t)' = 0
      BY <2>5, <2>7 DEF Finished
    <3> QED
      BY <2>3, <3>1, <3>2 DEF TruthInv
  <2>9. RowsInv'
    <3>0. rows' = <<>> /\ Len(<<>>) = 0
      BY <1>3 DEF Untouched
    <3>1. Len(rows') = 0 /\ 0 * config.num_threads = 0 /\ 1..0 = {}
      <4>1. 0 * config.num_threads = 0 /\ 1..0 = {}
        BY <2>1
      <4> QED
        BY <3>0, <4>1, Zenon
    <3>2. Len(rows') = (case' - first') * config'.num_threads /\ 1..(case' - first') = {}
      BY <1>5, <2>7, <3>1
    <3> QED
      BY <3>2 DEF RowsInv
  <2>10. PeakInv'
    <3>1. \A t \in Used : peak_rate'[t] = <<0, 1>> /\ peak_per_cycle'[t] = <<0, 1>>
      BY <1>3, <2>7 DEF Untouched
    <3>2. ASSUME NEW t \in Used
          PROVE  /\ {RateOf(truth'[t][k]) : k \in 1..(case' - first')} = {}
                 /\ {PerCycleOf(truth'[t][k]) : k \in 1..(case' - first')} = {}
      BY <2>7
    <3>3. Best(<<0, 1>>, {})
      BY DEF Best
    <3> QED
      BY <2>3, <3>1, <3>2, <3>3 DEF PeakInv
  <2>11. WarnInv'
    BY <1>3, NoRows DEF Untouched
  <2> QED
    BY <2>4, <2>6, <2>8, <2>9, <2>10, <2>11 DEF SweepInv
<1> QED
  BY <1>1, <1>4, <1>5 DEF main, LatencyMain, PeakBandwidthMain, MemcpyMain, BranchMain, Fail

LEMMA CasePrepared ==
    ASSUME CTypeOK, SweepInv, PrepareCase
    PROVE  SweepInv'
<1>1. /\ stage = "cases" /\ stage' = "running" /\ case < end
      /\ routine' = [t \in Workers |-> IF t \in Used THEN "off" ELSE "done"]
      /\ UNCHANGED <<type, config, status, case, counting, packet, rows, peak_rate,
                     peak_per_cycle, warning, truth>>
  BY DEF PrepareCase
<1>2. Started /\ Started' /\ SweepType /\ StartInv /\ TruthInv /\ WarnInv
  BY <1>1 DEF Started, SweepInv
<1>3. first' = first /\ end' = end /\ Used' = Used /\ (\A did : Whole(did)' <=> Whole(did))
  BY <1>1, SameConfig
<1>4. SweepType'
  BY <1>1, <1>2 DEF SweepType
<1>5. StartInv'
  BY <1>1, <1>2, <1>3 DEF StartInv
<1>6. Used \subseteq Workers
  BY <1>2, Chosen
<1>7. WorkerInv'
  BY <1>1, <1>3 DEF WorkerInv
<1>8. TruthInv'
  <2>1. \A t \in Used : Finished(t)' = Finished(t)
    BY <1>1, <1>3, <1>6 DEF Finished
  <2>2. \A t \in Used : Len(truth'[t]) = Finished(t)' /\ \A k \in 1..Len(truth'[t]) : Whole(truth'[t][k])
    BY <1>1, <1>2, <1>3, <2>1 DEF TruthInv
  <2> QED
    BY <1>3, <2>2 DEF TruthInv
<1>9. RowsInv' /\ PeakInv'
  BY <1>1, <1>2, PastKept
<1>10. WarnInv'
  BY <1>1, <1>2 DEF WarnInv
<1> QED
  BY <1>4, <1>5, <1>7, <1>8, <1>9, <1>10 DEF SweepInv

\* What a step of one worker leaves alone.
LEMMA OneWorker ==
    ASSUME CTypeOK, SweepInv, stage = "running", NEW t \in Workers,
           UNCHANGED <<cvars, case, rows, peak_rate, peak_per_cycle, warning>>, SweepType',
           routine[t] # "done",
           \A u \in Workers \ {t} : /\ routine'[u] = routine[u] /\ counting'[u] = counting[u]
                                    /\ packet'[u] = packet[u] /\ truth'[u] = truth[u],
           \A k \in 1..Len(truth[t]) : truth'[t][k] = truth[t][k],
           Len(truth'[t]) = Finished(t)',
           \A k \in 1..Len(truth'[t]) : Whole(truth'[t][k]),
           routine'[t] = "batch" => /\ packet'[t].exec_time * Total < Budget
                                    /\ ~counting'[t] => packet'[t].counter_error # "",
           routine'[t] = "done" =>
              LET did == truth'[t][case - first + 1]
              IN /\ packet'[t].finished_branches = did.branches
                 /\ packet'[t].exec_time = did.time /\ packet'[t].cycles = did.cycles
                 /\ did.cycles = 0 => packet'[t].counter_error # ""
    PROVE  SweepInv'
<1>1. Started /\ Started' /\ StartInv /\ WorkerInv /\ TruthInv /\ WarnInv
      /\ UNCHANGED <<type, config, stage, status>> /\ stage' = "running"
  BY DEF Started, SweepInv, cvars
<1>2. /\ first' = first /\ end' = end /\ Used' = Used /\ Total' = Total /\ Budget' = Budget
      /\ \A did : Whole(did)' <=> Whole(did)
  BY <1>1, SameConfig
<1>3. t \in Used /\ Used \subseteq Workers /\ case - first \in Nat
  BY <1>1, Chosen DEF WorkerInv
<1>4. StartInv'
  BY <1>1, <1>2 DEF StartInv
<1>5. WorkerInv'
  <2> DEFINE Right(u) ==
               /\ u \notin Used => routine'[u] = "done"
               /\ routine'[u] = "batch" => /\ packet'[u].exec_time * Total < Budget
                                           /\ ~counting'[u] => packet'[u].counter_error # ""
               /\ u \in Used /\ routine'[u] = "done" =>
                     LET did == truth'[u][case - first + 1]
                     IN /\ packet'[u].finished_branches = did.branches
                        /\ packet'[u].exec_time = did.time /\ packet'[u].cycles = did.cycles
                        /\ did.cycles = 0 => packet'[u].counter_error # ""
  <2>0. Right(t)
    BY <1>3
  <2>1. ASSUME NEW u \in Workers PROVE Right(u)
    <3>1. CASE u = t
      <4> HIDE DEF Right
      <4> QED
        BY <2>0, <3>1
    <3>2. CASE u # t
      <4>1. /\ routine'[u] = routine[u] /\ counting'[u] = counting[u]
            /\ packet'[u] = packet[u] /\ truth'[u] = truth[u]
        BY <3>2
      <4>2. /\ u \notin Used => routine[u] = "done"
            /\ routine[u] = "batch" => /\ packet[u].exec_time * Total < Budget
                                       /\ ~counting[u] => packet[u].counter_error # ""
            /\ u \in Used /\ routine[u] = "done" =>
                  LET did == truth[u][case - first + 1]
                  IN /\ packet[u].finished_branches = did.branches
                     /\ packet[u].exec_time = did.time /\ packet[u].cycles = did.cycles
                     /\ did.cycles = 0 => packet[u].counter_error # ""
        BY <1>1 DEF WorkerInv
      <4> QED
        BY <4>1, <4>2
    <3> QED
      BY <3>1, <3>2
  <2> QED
    BY <1>2, <2>1 DEF WorkerInv
<1>6. TruthInv'
  <2>1. ASSUME NEW u \in Used
        PROVE  Len(truth'[u]) = Finished(u)' /\ \A k \in 1..Len(truth'[u]) : Whole(truth'[u][k])
    <3>1. CASE u = t
      BY <3>1
    <3>2. CASE u # t
      <4>1. Finished(u)' = Finished(u) /\ truth'[u] = truth[u]
        BY <1>1, <1>2, <1>3, <3>2 DEF Finished
      <4> QED
        BY <1>1, <4>1 DEF TruthInv
    <3> QED
      BY <3>1, <3>2
  <2> QED
    BY <1>2, <2>1 DEF TruthInv
<1>7. RowsInv' /\ PeakInv'
  <2>1. \A u \in Used : \A k \in 1..(case - first) : truth'[u][k] = truth[u][k]
    <3> SUFFICES ASSUME NEW u \in Used, NEW k \in 1..(case - first)
                 PROVE  truth'[u][k] = truth[u][k]
      OBVIOUS
    <3>1. CASE u = t
      <4>1. Len(truth[t]) = case - first
        BY <1>1, <1>3 DEF TruthInv, Finished
      <4> QED
        BY <3>1, <4>1
    <3>2. CASE u # t
      BY <1>3, <3>2
    <3> QED
      BY <3>1, <3>2
  <2> QED
    BY <1>1, <2>1, PastKept
<1>8. WarnInv'
  BY <1>1 DEF WarnInv
<1> QED
  BY <1>4, <1>5, <1>6, <1>7, <1>8 DEF SweepInv

LEMMA WorkerStarts ==
    ASSUME CTypeOK, SweepInv, stage = "running", NEW t \in Workers, StartWorker(t),
           UNCHANGED <<cvars, case, peak_rate, peak_per_cycle, warning>>
    PROVE  SweepInv'
<1>1. PICK ok \in BOOLEAN :
         /\ counting' = [counting EXCEPT ![t] = ok]
         /\ packet' = [packet EXCEPT ![t].finished_branches = 0, ![t].exec_time = 0,
                                     ![t].counter_error = IF ok THEN "" ELSE "errno"]
  BY DEF StartWorker
<1>2. /\ routine[t] = "off" /\ routine' = [routine EXCEPT ![t] = "batch"]
      /\ UNCHANGED <<rows, truth>>
  BY DEF StartWorker
<1>3. SweepType /\ Started /\ StartInv /\ TruthInv /\ WorkerInv
  BY DEF SweepInv, Started
<1>4. packet[t] \in Packets /\ packet \in [Workers -> Packets]
  BY <1>3 DEF SweepType
<1> DEFINE error == IF ok THEN "" ELSE "errno"
           new == [packet[t] EXCEPT !.finished_branches = 0, !.exec_time = 0,
                                    !.counter_error = error]
<1>5. packet' = [packet EXCEPT ![t] = new]
  BY <1>1, <1>4
<1>6. new \in Packets /\ new.exec_time = 0 /\ (~ok => new.counter_error # "")
  <2>1. error \in Causes /\ (~ok => error # "")
    BY DEF Causes
  <2> HIDE DEF error
  <2>2. new \in Packets /\ new.exec_time = 0 /\ new.counter_error = error
    BY <1>4, <2>1 DEF Packets
  <2> QED
    BY <2>1, <2>2
<1> HIDE DEF new
<1>7. SweepType'
  <2>1. counting' \in [Workers -> BOOLEAN] /\ routine' \in [Workers -> {"off", "batch", "done"}]
    BY <1>1, <1>2, <1>3 DEF SweepType
  <2>2. packet' \in [Workers -> Packets]
    BY <1>4, <1>5, <1>6
  <2> QED
    BY <1>2, <1>3, <2>1, <2>2 DEF SweepType
<1>8. routine'[t] = "batch" /\ counting'[t] = ok /\ packet'[t] = new
  BY <1>1, <1>2, <1>3, <1>4, <1>5 DEF SweepType
<1>9. \A u \in Workers \ {t} : /\ routine'[u] = routine[u] /\ counting'[u] = counting[u]
                               /\ packet'[u] = packet[u] /\ truth'[u] = truth[u]
  BY <1>1, <1>2, <1>3, <1>5 DEF SweepType
<1>10. /\ t \in Used /\ Total \in Nat \ {0} /\ Budget \in Nat \ {0}
  BY <1>2, <1>3, Chosen DEF WorkerInv
<1>11. packet'[t].exec_time * Total < Budget /\ (~counting'[t] => packet'[t].counter_error # "")
  <2>1. 0 * Total < Budget
    BY <1>10
  <2> QED
    BY <1>6, <1>8, <2>1
<1>12. Len(truth'[t]) = Finished(t)' /\ \A k \in 1..Len(truth'[t]) : Whole(truth'[t][k])
  <2>1. first' = first
    BY SameConfig DEF cvars
  <2>2. Finished(t)' = Finished(t)
    BY <1>2, <1>8, <2>1 DEF Finished, cvars
  <2> QED
    BY <1>2, <1>3, <1>10, <2>2 DEF TruthInv
<1> QED
  BY <1>2, <1>7, <1>8, <1>9, <1>11, <1>12, OneWorker

LEMMA Appended ==
    \A s \in Seq(Measured) : \A e \in Measured :
        /\ Append(s, e) \in Seq(Measured) /\ Len(Append(s, e)) = Len(s) + 1
        /\ \A k \in 1..Len(s) : Append(s, e)[k] = s[k]
        /\ Append(s, e)[Len(s) + 1] = e
OBVIOUS

LEMMA LastOrBefore ==
    ASSUME NEW m \in Nat, NEW k \in 1..(m + 1)
    PROVE  k \in 1..m \/ k = m + 1
OBVIOUS

LEMMA Taken == taken_branches(Branches(case), Rounds) \in Nat \ {0} \/ case \notin Nat
<1> SUFFICES ASSUME case \in Nat PROVE taken_branches(Branches(case), Rounds) \in Nat \ {0}
  OBVIOUS
<1>1. Branches(case) \in {8, 32, 128}
  <2>1. case % 3 \in 0..2
    OBVIOUS
  <2>2. case % 3 = 0 \/ case % 3 = 1 \/ case % 3 = 2
    BY <2>1
  <2> QED
    BY <2>2 DEF Branches
<1>2. Rounds \in Nat /\ Rounds > 0
  BY SweepAssumption
<1>3. CASE Branches(case) = 8
  BY <1>2, <1>3 DEF taken_branches
<1>4. CASE Branches(case) = 32
  BY <1>2, <1>4 DEF taken_branches
<1>5. CASE Branches(case) = 128
  BY <1>2, <1>5 DEF taken_branches
<1> QED
  BY <1>1, <1>3, <1>4, <1>5

LEMMA BatchEnds ==
    ASSUME CTypeOK, SweepInv, stage = "running", NEW t \in Workers, Batch(t),
           UNCHANGED <<cvars, case, peak_rate, peak_per_cycle, warning>>
    PROVE  SweepInv'
<1>1. routine[t] = "batch" /\ UNCHANGED <<counting, rows>>
  BY DEF Batch
<1>2. SweepType /\ Started /\ StartInv /\ TruthInv /\ WorkerInv
  BY DEF SweepInv, Started
<1> DEFINE branches == packet[t].finished_branches + taken_branches(Branches(case), Rounds)
           time(c) == packet[t].exec_time + c
<1>3. PICK c \in Costs :
         \/ /\ Sampled(time(c)) /\ Stop(t, branches, time(c))
            /\ routine' = [routine EXCEPT ![t] = "done"]
         \/ /\ ~Sampled(time(c))
            /\ packet' = [packet EXCEPT ![t].finished_branches = branches, ![t].exec_time = time(c)]
            /\ UNCHANGED <<routine, truth>>
  BY DEF Batch
<1>4. packet[t] \in Packets /\ packet \in [Workers -> Packets]
  BY <1>2 DEF SweepType
<1>5. /\ c \in Nat \ {0} /\ branches \in Nat \ {0} /\ time(c) \in Nat \ {0}
      /\ packet[t].exec_time \in Nat /\ time(c) - c = packet[t].exec_time
  BY <1>2, <1>4, Taken, SweepAssumption DEF SweepType, Packets
<1>6. packet[t].exec_time * Total < Budget /\ (~counting[t] => packet[t].counter_error # "")
  BY <1>1, <1>2 DEF WorkerInv
<1>7. /\ t \in Used /\ Total \in Nat \ {0} /\ Budget \in Nat \ {0} /\ case - first \in Nat
  BY <1>1, <1>2, Chosen DEF WorkerInv
<1>8. Len(truth[t]) = case - first /\ \A k \in 1..Len(truth[t]) : Whole(truth[t][k])
  BY <1>1, <1>2, <1>7 DEF TruthInv, Finished
<1>9. first' = first
  BY SameConfig DEF cvars
<1> HIDE DEF branches, time
<1>10. CASE /\ ~Sampled(time(c))
            /\ packet' = [packet EXCEPT ![t].finished_branches = branches, ![t].exec_time = time(c)]
            /\ UNCHANGED <<routine, truth>>
  <2> DEFINE new == [packet[t] EXCEPT !.finished_branches = branches, !.exec_time = time(c)]
  <2>1. packet' = [packet EXCEPT ![t] = new]
    BY <1>4, <1>10
  <2>2. new \in Packets /\ new.exec_time = time(c) /\ new.counter_error = packet[t].counter_error
    BY <1>4, <1>5 DEF Packets
  <2> HIDE DEF new
  <2>3. SweepType'
    <3>1. packet' \in [Workers -> Packets]
      BY <1>4, <2>1, <2>2
    <3> QED
      BY <1>1, <1>2, <1>10, <3>1 DEF SweepType
  <2>4. \A u \in Workers \ {t} : /\ routine'[u] = routine[u] /\ counting'[u] = counting[u]
                                 /\ packet'[u] = packet[u] /\ truth'[u] = truth[u]
    BY <1>1, <1>4, <1>10, <2>1
  <2>5. packet'[t] = new /\ routine'[t] = "batch" /\ counting'[t] = counting[t] /\ truth' = truth
    BY <1>1, <1>4, <1>10, <2>1
  <2>6. time(c) * Total < Budget
    <3>1. time(c) * Total \in Nat
      BY <1>5, <1>7
    <3> QED
      BY <1>7, <1>10, <3>1 DEF Sampled, Total, Budget
  <2>7. packet'[t].exec_time * Total < Budget /\ (~counting'[t] => packet'[t].counter_error # "")
    BY <1>6, <2>2, <2>5, <2>6
  <2>8. Len(truth'[t]) = Finished(t)' /\ \A k \in 1..Len(truth'[t]) : Whole(truth'[t][k])
    <3>1. Finished(t)' = case - first
      BY <1>9, <2>5 DEF Finished, cvars
    <3> QED
      BY <1>8, <2>5, <3>1
  <2> QED
    BY <1>1, <2>3, <2>4, <2>5, <2>7, <2>8, OneWorker
<1>11. CASE /\ Sampled(time(c)) /\ Stop(t, branches, time(c))
            /\ routine' = [routine EXCEPT ![t] = "done"]
  <2>1. PICK n \in CycleCounts, e \in {"", "could not read", "did not run", "multiplexed"} :
           LET counted == IF counting[t] /\ e = "" THEN n ELSE 0
           IN /\ counting[t] \/ e = ""
              /\ packet' = [packet EXCEPT ![t] =
                    [finished_branches |-> branches, exec_time |-> time(c), cycles |-> counted,
                     counter_error |-> IF counting[t] THEN e ELSE @.counter_error]]
              /\ Tell(t, [branches |-> branches, time |-> time(c), cycles |-> counted])
    BY <1>11 DEF Stop
  <2> DEFINE counted == IF counting[t] /\ e = "" THEN n ELSE 0
             error == IF counting[t] THEN e ELSE packet[t].counter_error
             new == [finished_branches |-> branches, exec_time |-> time(c), cycles |-> counted,
                     counter_error |-> error]
             did == [branches |-> branches, time |-> time(c), cycles |-> counted]
  <2>2. packet' = [packet EXCEPT ![t] = new] /\ truth' = [truth EXCEPT ![t] = Append(@, did)]
    BY <2>1, <1>4 DEF Tell
  <2>3. counted \in Nat /\ error \in Causes /\ (counted = 0 => error # "")
    <3>1. n \in Nat \ {0} /\ packet[t].counter_error \in Causes /\ e \in Causes
      BY <1>4, SweepAssumption DEF Packets, Causes
    <3> QED
      BY <1>6, <3>1
  <2> HIDE DEF counted, error
  <2>4. /\ new \in Packets /\ did \in Measured /\ new.counter_error = error
    BY <1>5, <2>3 DEF Packets, Measured
  <2>5. /\ new.finished_branches = did.branches /\ new.exec_time = did.time
        /\ new.cycles = did.cycles /\ did.time = time(c) /\ did.cycles = counted
    OBVIOUS
  <2> HIDE DEF new, did, counted
  <2>6. truth[t] \in Seq(Measured) /\ truth \in [Workers -> Seq(Measured)]
    BY <1>2 DEF SweepType
  <2>7. /\ truth'[t] = Append(truth[t], did) /\ packet'[t] = new /\ routine'[t] = "done"
    BY <1>2, <1>4, <1>11, <2>2, <2>6 DEF SweepType
  <2>8. /\ Len(truth'[t]) = Len(truth[t]) + 1
        /\ \A k \in 1..Len(truth[t]) : truth'[t][k] = truth[t][k]
        /\ truth'[t][Len(truth[t]) + 1] = did
    <3> DEFINE s == truth[t]
    <3>1. s \in Seq(Measured) /\ did \in Measured /\ truth'[t] = Append(s, did)
      BY <2>4, <2>6, <2>7
    <3> HIDE DEF s
    <3>2. /\ Len(Append(s, did)) = Len(s) + 1
          /\ \A k \in 1..Len(s) : Append(s, did)[k] = s[k]
          /\ Append(s, did)[Len(s) + 1] = did
      <4>1. Len(Append(s, did)) = Len(s) + 1
        BY <3>1, Appended
      <4>2. \A k \in 1..Len(s) : Append(s, did)[k] = s[k]
        BY <3>1, Appended
      <4>3. Append(s, did)[Len(s) + 1] = did
        BY <3>1, Appended
      <4> QED
        BY <4>1, <4>2, <4>3
    <3>3. /\ Len(truth'[t]) = Len(s) + 1
          /\ \A k \in 1..Len(s) : truth'[t][k] = s[k]
          /\ truth'[t][Len(s) + 1] = did
      BY <3>1, <3>2, Zenon
    <3> QED
      BY <3>3 DEF s
  <2>9. SweepType'
    <3>1. Append(truth[t], did) \in Seq(Measured)
      BY <2>4, <2>6, Appended
    <3>2. packet' \in [Workers -> Packets] /\ truth' \in [Workers -> Seq(Measured)]
      BY <1>4, <2>2, <2>4, <2>6, <3>1
    <3>3. routine' \in [Workers -> {"off", "batch", "done"}]
      BY <1>2, <1>11 DEF SweepType
    <3> QED
      BY <1>1, <1>2, <3>2, <3>3 DEF SweepType
  <2>10. \A u \in Workers \ {t} : /\ routine'[u] = routine[u] /\ counting'[u] = counting[u]
                                  /\ packet'[u] = packet[u] /\ truth'[u] = truth[u]
    BY <1>1, <1>2, <1>4, <1>11, <2>2, <2>6 DEF SweepType
  <2>11. Whole(did)
    <3>1. Budget <= time(c) * Total
      BY <1>11 DEF Sampled, Total, Budget
    <3>2. (time(c) - c) * Total < Budget
      BY <1>5, <1>6
    <3> QED
      BY <2>5, <3>1, <3>2 DEF Whole
  <2>12. Len(truth'[t]) = Finished(t)' /\ \A k \in 1..Len(truth'[t]) : Whole(truth'[t][k])
    <3>1. Finished(t)' = case - first + 1
      BY <1>9, <2>7 DEF Finished, cvars
    <3>2. ASSUME NEW k \in 1..Len(truth'[t]) PROVE Whole(truth'[t][k])
      <4>1. k \in 1..Len(truth[t]) \/ k = Len(truth[t]) + 1
        <5>1. Len(truth'[t]) = (case - first) + 1
          BY <1>8, <2>8
        <5>2. k \in 1..((case - first) + 1)
          BY <5>1
        <5>3. k \in 1..(case - first) \/ k = (case - first) + 1
          BY <1>7, <5>2, LastOrBefore
        <5> QED
          BY <1>8, <5>3
      <4> QED
        BY <1>8, <2>8, <2>11, <4>1
    <3> QED
      BY <1>8, <2>8, <3>1, <3>2
  <2>13. LET done == truth'[t][case - first + 1]
         IN /\ packet'[t].finished_branches = done.branches
            /\ packet'[t].exec_time = done.time /\ packet'[t].cycles = done.cycles
            /\ done.cycles = 0 => packet'[t].counter_error # ""
    BY <1>8, <2>3, <2>4, <2>5, <2>7, <2>8
  <2> QED
    BY <1>1, <2>7, <2>8, <2>9, <2>10, <2>12, <2>13, OneWorker
<1> QED
  BY <1>3, <1>10, <1>11

LEMMA Joined ==
    ASSUME NEW S, NEW s \in Seq(S), NEW e \in Seq(S)
    PROVE  /\ s \o e \in Seq(S) /\ Len(s \o e) = Len(s) + Len(e)
           /\ \A k \in 1..Len(s) : (s \o e)[k] = s[k]
           /\ \A k \in 1..Len(e) : (s \o e)[Len(s) + k] = e[k]
OBVIOUS

\* The place of a row is inside the blocks of the cases before it, or in its own.
LEMMA Places ==
    ASSUME NEW n \in Nat \ {0}, NEW d \in Nat, NEW t \in 1..n
    PROVE  /\ \A k \in 1..d : (k - 1) * n + t \in 1..(d * n)
           /\ (d + 1 - 1) * n + t = d * n + t /\ d * n \in Nat /\ (d + 1) * n = d * n + n
<1>1. ASSUME NEW k \in 1..d PROVE (k - 1) * n + t \in 1..(d * n)
  <2>1. k * n <= d * n /\ k * n \in Nat /\ d * n \in Nat
    BY Product
  <2>2. (k - 1) * n = k * n - n /\ (k - 1) * n \in Nat
    BY Product
  <2>3. \A x, y, z \in Nat : x <= y /\ x - n = z => z + t \in 1..y
    OBVIOUS
  <2> QED
    BY <2>1, <2>2, <2>3
<1>2. d * n \in Nat /\ (d + 1) * n = d * n + n /\ d + 1 - 1 = d
  OBVIOUS
<1> QED
  BY <1>1, <1>2

LEMMA CaseReported ==
    ASSUME CTypeOK, SweepInv, Report
    PROVE  SweepInv'
<1> DEFINE new == [t \in Used |-> Row(t)]
           d == case - first
           n == config.num_threads
<1>1. /\ stage = "running" /\ \A t \in Workers : routine[t] = "done"
      /\ rows' = rows \o new
      /\ peak_rate' = [t \in Workers |->
                          IF t \in Used THEN Larger(peak_rate[t], Rate(t)) ELSE peak_rate[t]]
      /\ peak_per_cycle' = [t \in Workers |-> IF t \in Used THEN Larger(peak_per_cycle[t], PerCycle(t))
                                              ELSE peak_per_cycle[t]]
      /\ warning' = IF warning = "" /\ Uncounted # {}
                    THEN packet[Min(Uncounted)].counter_error ELSE warning
      /\ case' = case + 1 /\ stage' = "cases"
      /\ UNCHANGED <<type, config, status, routine, counting, packet, truth>>
  BY DEF Report
<1>2. Started /\ Started' /\ SweepType /\ StartInv /\ WorkerInv /\ TruthInv /\ RowsInv /\ PeakInv /\ WarnInv
  BY <1>1 DEF SweepInv, Started
<1>3. first' = first /\ end' = end /\ Used' = Used /\ (\A did : Whole(did)' <=> Whole(did))
  BY <1>1, SameConfig
<1>4. /\ n \in Nat \ {0} /\ Used = 1..n /\ Used \subseteq Workers /\ d \in Nat
      /\ first \in Nat /\ end \in Nat /\ case \in first..end /\ case < end
  BY <1>1, <1>2, Chosen DEF StartInv, Used
<1>5. case' \in Nat /\ case' \in first..end /\ case' - first' = d + 1
  <2>1. case + 1 \in Nat /\ case + 1 \in first..end /\ (case + 1) - first = (case - first) + 1
    BY <1>4
  <2> QED
    BY <1>1, <1>3, <2>1
<1>6. ASSUME NEW t \in Used
      PROVE  /\ Len(truth[t]) = d + 1 /\ truth[t][d + 1] \in Measured
             /\ Rate(t) = RateOf(truth[t][d + 1]) /\ PerCycle(t) = PerCycleOf(truth[t][d + 1])
             /\ Row(t) = RowFor(d + 1, t)
             /\ truth[t][d + 1].cycles = packet[t].cycles
             /\ packet[t].cycles = 0 => packet[t].counter_error # ""
  <2>1. Len(truth[t]) = d + 1
    BY <1>1, <1>2, <1>4, <1>6 DEF TruthInv, Finished
  <2>2. truth[t] \in Seq(Measured) /\ d + 1 \in 1..Len(truth[t])
    BY <1>2, <1>4, <1>6, <2>1 DEF SweepType
  <2>3. truth[t][d + 1] \in Measured
    BY <2>2
  <2>4. /\ packet[t].finished_branches = truth[t][d + 1].branches
        /\ packet[t].exec_time = truth[t][d + 1].time /\ packet[t].cycles = truth[t][d + 1].cycles
        /\ packet[t].cycles = 0 => packet[t].counter_error # ""
    BY <1>1, <1>2, <1>4, <1>6 DEF WorkerInv
  <2>5. Rate(t) = RateOf(truth[t][d + 1]) /\ PerCycle(t) = PerCycleOf(truth[t][d + 1])
    BY <2>4 DEF Rate, PerCycle, RateOf, PerCycleOf
  <2>6. first + (d + 1) - 1 = case
    BY <1>4
  <2> HIDE DEF d
  <2>7. Row(t) = RowFor(d + 1, t)
    BY <2>5, <2>6 DEF Row, RowFor
  <2> QED
    BY <2>1, <2>3, <2>4, <2>5, <2>7
<1>7. \A did \in Measured : RateOf(did) \in Quotients /\ PerCycleOf(did) \in Quotients
  BY DEF Measured, RateOf, PerCycleOf, Quotients
<1> DEFINE Rows == [case : Nat, thread : Workers, rate : Quotients, per_cycle : Quotients]
<1>8. rows \in Seq(Rows) /\ new \in Seq(Rows) /\ Len(new) = n
  <2>1. ASSUME NEW t \in Used PROVE Row(t) \in Rows
    <3>1. case \in Nat /\ t \in Workers
      BY <1>2, <1>4 DEF SweepType
    <3>2. Rate(t) \in Quotients /\ PerCycle(t) \in Quotients
      BY <1>6, <1>7
    <3> QED
      BY <3>1, <3>2 DEF Row
  <2>2. rows \in Seq(Rows)
    BY <1>2 DEF SweepType
  <2> HIDE DEF Rows
  <2>3. new \in Seq(Rows) /\ Len(new) = n
    BY <1>4, <2>1
  <2> QED
    BY <2>2, <2>3
<1>9. \A k \in 1..n : new[k] = Row(k)
  BY <1>4
<1> HIDE DEF d, n, new, Rows
<1>10. /\ rows' \in Seq(Rows) /\ Len(rows') = Len(rows) + n
       /\ \A k \in 1..Len(rows) : rows'[k] = rows[k]
       /\ \A k \in 1..n : rows'[Len(rows) + k] = Row(k)
  <2>1. /\ rows \o new \in Seq(Rows) /\ Len(rows \o new) = Len(rows) + Len(new)
        /\ \A k \in 1..Len(rows) : (rows \o new)[k] = rows[k]
        /\ \A k \in 1..Len(new) : (rows \o new)[Len(rows) + k] = new[k]
    <3>1. rows \in Seq(Rows) /\ new \in Seq(Rows)
      BY <1>8
    <3>2. rows \o new \in Seq(Rows) /\ Len(rows \o new) = Len(rows) + Len(new)
      BY <3>1, Joined
    <3>3. \A k \in 1..Len(rows) : (rows \o new)[k] = rows[k]
      BY <3>1, Joined
    <3>4. \A k \in 1..Len(new) : (rows \o new)[Len(rows) + k] = new[k]
      BY <3>1, Joined
    <3> QED
      BY <3>2, <3>3, <3>4
  <2> QED
    BY <1>1, <1>8, <1>9, <2>1
<1>11. ASSUME NEW t \in Used
       PROVE  /\ peak_rate'[t] = Larger(peak_rate[t], RateOf(truth[t][d + 1]))
              /\ peak_per_cycle'[t] = Larger(peak_per_cycle[t], PerCycleOf(truth[t][d + 1]))
  BY <1>1, <1>4, <1>6
<1>12. SweepType'
  <2>1. \A t \in Workers : peak_rate[t] \in Quotients /\ peak_per_cycle[t] \in Quotients
    BY <1>2 DEF SweepType
  <2>2. \A q, r \in Quotients : Larger(q, r) \in Quotients
    BY DEF Larger
  <2>3. peak_rate' \in [Workers -> Quotients] /\ peak_per_cycle' \in [Workers -> Quotients]
    BY <1>1, <1>6, <1>7, <2>1, <2>2
  <2> QED
    BY <1>1, <1>2, <1>5, <1>10, <2>3 DEF SweepType, Rows
<1>13. StartInv' /\ WorkerInv'
  BY <1>1, <1>2, <1>3, <1>5 DEF StartInv, WorkerInv, Started
<1>14. TruthInv'
  <2>1. \A t \in Used : Finished(t)' = d + 1
    BY <1>1, <1>5 DEF Finished
  <2>2. \A t \in Used : Len(truth'[t]) = Finished(t)' /\ \A k \in 1..Len(truth'[t]) : Whole(truth'[t][k])
    BY <1>1, <1>2, <1>6, <2>1 DEF TruthInv
  <2> QED
    BY <1>3, <2>2 DEF TruthInv
<1>15. RowsInv'
  <2>1. /\ Len(rows) = d * n /\ \A k \in 1..d : \A t \in Used : RowOf(k, t) = RowFor(k, t)
    BY <1>2 DEF RowsInv, d, n
  <2>2. Len(rows') = (d + 1) * n
    BY <1>4, <1>10, <2>1, Places
  <2>3. ASSUME NEW k \in 1..(d + 1), NEW t \in Used
        PROVE  rows'[(k - 1) * n + t] = RowFor(k, t)
    <3>1. t \in 1..n
      BY <1>4
    <3>2. CASE k \in 1..d
      <4>1. (k - 1) * n + t \in 1..Len(rows)
        BY <1>4, <2>1, <3>1, <3>2, Places
      <4>2. rows[(k - 1) * n + t] = RowFor(k, t)
        BY <2>1, <3>2 DEF RowOf, n
      <4> QED
        BY <1>10, <4>1, <4>2
    <3>3. CASE k = d + 1
      <4>1. (k - 1) * n + t = Len(rows) + t
        BY <1>4, <2>1, <3>1, <3>3, Places
      <4> QED
        BY <1>6, <1>10, <3>1, <3>3, <4>1
    <3> QED
      BY <1>4, <3>2, <3>3, LastOrBefore
  <2>4. n' = n /\ \A k, t : RowFor(k, t)' = RowFor(k, t)
    BY <1>1, <1>3 DEF n, RowFor
  <2>5. /\ Len(rows') = (case' - first') * n'
        /\ \A k \in 1..(case' - first') : \A t \in Used' : rows'[(k - 1) * n' + t] = RowFor(k, t)'
    BY <1>3, <1>5, <2>2, <2>3, <2>4
  <2> QED
    BY <2>5 DEF RowsInv, RowOf, n
<1>16. PeakInv'
  <2>1. ASSUME NEW t \in Used
        PROVE  /\ Best(peak_rate'[t], {RateOf(truth[t][k]) : k \in 1..(d + 1)})
               /\ Best(peak_per_cycle'[t], {PerCycleOf(truth[t][k]) : k \in 1..(d + 1)})
    <3> DEFINE S == {RateOf(truth[t][k]) : k \in 1..d}
               P == {PerCycleOf(truth[t][k]) : k \in 1..d}
               r == RateOf(truth[t][d + 1])
               p == PerCycleOf(truth[t][d + 1])
    <3>1. /\ Best(peak_rate[t], S) /\ Best(peak_per_cycle[t], P)
      BY <1>2 DEF PeakInv, d
    <3>2. peak_rate[t] \in Quotients /\ peak_per_cycle[t] \in Quotients
      BY <1>2, <1>4 DEF SweepType
    <3>3. \A k \in 1..(d + 1) : truth[t][k] \in Measured
      <4>1. truth[t] \in Seq(Measured)
        BY <1>2, <1>4 DEF SweepType
      <4>2. Len(truth[t]) = d + 1
        BY <1>6
      <4> QED
        BY <4>1, <4>2
    <3>4. S \subseteq Quotients /\ P \subseteq Quotients /\ r \in Quotients /\ p \in Quotients
      <4>1. \A k \in 1..d : k \in 1..(d + 1)
        BY <1>4
      <4>2. truth[t][d + 1] \in Measured
        BY <1>6
      <4> QED
        BY <1>7, <3>3, <4>1, <4>2
    <3>5. /\ {RateOf(truth[t][k]) : k \in 1..(d + 1)} = S \cup {r}
          /\ {PerCycleOf(truth[t][k]) : k \in 1..(d + 1)} = P \cup {p}
      <4>1. \A k : k \in 1..(d + 1) <=> k \in 1..d \/ k = d + 1
        BY <1>4
      <4> QED
        BY <4>1, Zenon
    <3>6. peak_rate'[t] = Larger(peak_rate[t], r) /\ peak_per_cycle'[t] = Larger(peak_per_cycle[t], p)
      BY <1>11
    <3> HIDE DEF S, P, r, p
    <3>7. Best(Larger(peak_rate[t], r), S \cup {r}) /\ Best(Larger(peak_per_cycle[t], p), P \cup {p})
      BY <3>1, <3>2, <3>4, BestOfAll
    <3> QED
      BY <3>5, <3>6, <3>7
  <2>2. case' - first' = d + 1 /\ truth' = truth
    BY <1>1, <1>5 DEF d
  <2>3. \A t \in Used' :
           /\ Best(peak_rate'[t], {RateOf(truth'[t][k]) : k \in 1..(case' - first')})
           /\ Best(peak_per_cycle'[t], {PerCycleOf(truth'[t][k]) : k \in 1..(case' - first')})
    BY <1>3, <2>1, <2>2
  <2> QED
    BY <2>3 DEF PeakInv
<1>17. WarnInv'
  <2>1. \A t \in Used : Row(t).per_cycle = <<0, 1>> <=> packet[t].cycles = 0
    <3> SUFFICES ASSUME NEW t \in Used
                 PROVE  Row(t).per_cycle = <<0, 1>> <=> packet[t].cycles = 0
      OBVIOUS
    <3>1. /\ packet[t].cycles \in Nat /\ truth[t][d + 1] \in Measured
          /\ PerCycle(t) = PerCycleOf(truth[t][d + 1]) /\ truth[t][d + 1].cycles = packet[t].cycles
      BY <1>6 DEF Measured
    <3>2. truth[t][d + 1].branches # 0
      BY <3>1 DEF Measured
    <3>3. Row(t).per_cycle = PerCycle(t)
      BY DEF Row
    <3> QED
      BY <3>1, <3>2, <3>3 DEF PerCycleOf
  <2>2. (\E j \in 1..Len(rows') : rows'[j].per_cycle = <<0, 1>>)
           <=> (\E j \in 1..Len(rows) : rows[j].per_cycle = <<0, 1>>) \/ Uncounted # {}
    <3>1. Len(rows) \in Nat /\ n \in Nat
      BY <1>4, <1>8
    <3>2. ASSUME NEW j \in 1..Len(rows'), rows'[j].per_cycle = <<0, 1>>
          PROVE  \/ \E k \in 1..Len(rows) : rows[k].per_cycle = <<0, 1>>
                 \/ \E k \in 1..n : Row(k).per_cycle = <<0, 1>>
      <4>1. CASE j \in 1..Len(rows)
        BY <1>10, <3>2, <4>1
      <4>2. CASE j - Len(rows) \in 1..n /\ j = Len(rows) + (j - Len(rows))
        BY <1>10, <3>2, <4>2
      <4> QED
        BY <1>10, <3>1, <4>1, <4>2
    <3>3. ASSUME NEW k \in 1..Len(rows) PROVE k \in 1..Len(rows') /\ rows'[k] = rows[k]
      BY <1>10, <3>1
    <3>4. ASSUME NEW k \in 1..n
          PROVE  Len(rows) + k \in 1..Len(rows') /\ rows'[Len(rows) + k] = Row(k)
      BY <1>10, <3>1
    <3>5. (\E j \in 1..Len(rows') : rows'[j].per_cycle = <<0, 1>>)
             <=> \/ \E j \in 1..Len(rows) : rows[j].per_cycle = <<0, 1>>
                 \/ \E k \in 1..n : Row(k).per_cycle = <<0, 1>>
      BY <3>2, <3>3, <3>4
    <3> QED
      BY <1>4, <2>1, <3>5 DEF Uncounted
  <2>3. Uncounted # {} => packet[Min(Uncounted)].counter_error # ""
    <3> SUFFICES ASSUME Uncounted # {} PROVE packet[Min(Uncounted)].counter_error # ""
      OBVIOUS
    <3>1. Uncounted \subseteq Nat /\ Uncounted \subseteq Used
      BY <1>4 DEF Uncounted
    <3>2. \E m \in Uncounted : \A j \in Uncounted : m <= j
      BY <3>1, Least
    <3>3. Min(Uncounted) \in Uncounted
      BY <3>2 DEF Min
    <3> QED
      BY <1>6, <3>1, <3>3 DEF Uncounted
  <2>4. warning # "" <=> \E j \in 1..Len(rows) : rows[j].per_cycle = <<0, 1>>
    BY <1>2 DEF WarnInv
  <2>5. warning' # "" <=> \E j \in 1..Len(rows') : rows'[j].per_cycle = <<0, 1>>
    BY <1>1, <2>2, <2>3, <2>4
  <2> QED
    BY <2>5 DEF WarnInv
<1> QED
  BY <1>12, <1>13, <1>14, <1>15, <1>16, <1>17 DEF SweepInv

LEMMA SweepRests ==
    ASSUME CTypeOK, SweepInv, UNCHANGED <<type, config, svars>>,
           SweepEnd \/ UNCHANGED <<stage, status>>
    PROVE  SweepInv'
<1>1. UNCHANGED <<case, routine, counting, packet, rows, peak_rate, peak_per_cycle, warning, truth>>
  BY DEF svars
<1>2. SweepType' /\ WarnInv'
  BY <1>1 DEF SweepInv, SweepType, WarnInv
<1>3. CASE ~Started
  <2>1. UNCHANGED <<stage, status>> /\ ~Started' /\ stage' # "running" /\ status' # 0
    BY <1>3 DEF Started, SweepEnd
  <2>2. Untouched'
    BY <1>1, <1>3 DEF SweepInv, StartInv, Untouched
  <2> QED
    BY <1>2, <2>1, <2>2, NotStarted
<1>4. CASE Started
  <2>1. first' = first /\ end' = end /\ Used' = Used /\ Total' = Total /\ Budget' = Budget
        /\ \A did : Whole(did)' <=> Whole(did)
    BY SameConfig
  <2>2. Started' /\ (stage' = "running" <=> stage = "running")
    BY <1>4 DEF Started, SweepEnd
  <2>3. StartInv'
    BY <1>1, <1>4, <2>1, <2>2 DEF SweepInv, StartInv, SweepEnd
  <2>4. WorkerInv'
    BY <1>1, <2>1, <2>2 DEF SweepInv, WorkerInv
  <2>5. TruthInv'
    <3>1. \A t \in Used : Finished(t)' = Finished(t)
      BY <1>1, <2>1, <2>2 DEF Finished
    <3>2. \A t \in Used : Len(truth'[t]) = Finished(t)' /\ \A k \in 1..Len(truth'[t]) : Whole(truth'[t][k])
      BY <1>1, <1>4, <3>1 DEF SweepInv, TruthInv
    <3> QED
      BY <2>1, <3>2 DEF TruthInv
  <2>6. RowsInv' /\ PeakInv'
    BY <1>1, <1>4, PastKept
  <2> QED
    BY <1>2, <2>3, <2>4, <2>5, <2>6 DEF SweepInv
<1> QED
  BY <1>3, <1>4

LEMMA SweepStep == CTypeOK /\ SweepInv /\ [Next]_vars => SweepInv'
<1> SUFFICES ASSUME CTypeOK, SweepInv, [Next]_vars PROVE SweepInv'
  OBVIOUS
<1>1. CASE parse_options /\ UNCHANGED svars
  BY <1>1, SweepParses
<1>2. CASE main
  BY <1>2, SweepStarts
<1>3. CASE PrepareCase
  BY <1>3, CasePrepared
<1>4. ASSUME NEW t \in Workers, branch_tp(t) PROVE SweepInv'
  BY <1>4, WorkerStarts, BatchEnds DEF branch_tp
<1>5. CASE Report
  BY <1>5, CaseReported
<1>6. CASE SweepEnd
  BY <1>6, SweepRests DEF SweepEnd
<1>7. CASE UNCHANGED vars
  BY <1>7, SweepRests DEF vars, cvars
<1> QED
  BY <1>1, <1>2, <1>3, <1>4, <1>5, <1>6, <1>7 DEF Next

LEMMA SweepHolds == Spec => [](CTypeOK /\ SweepInv)
<1>1. Init => SweepInv
  <2> SUFFICES ASSUME Init PROVE SweepInv
    OBVIOUS
  <2>1. /\ stage = "parse" /\ status = -1 /\ case = 0
        /\ routine = [t \in Workers |-> "done"] /\ counting = [t \in Workers |-> FALSE]
        /\ packet = [t \in Workers |-> [finished_branches |-> 0, exec_time |-> 0, cycles |-> 0,
                                        counter_error |-> ""]]
        /\ Untouched
    BY DEF Init, CInit, Untouched
  <2>2. ~Started /\ stage # "running" /\ status # 0
    <3>1. stage = "parse" /\ status = -1
      BY <2>1
    <3>2. status # 0 /\ stage \notin {"cases", "running"}
      BY <3>1
    <3> QED
      BY <3>2 DEF Started
  <2>3. SweepType
    <3>1. <<0, 1>> \in Quotients
      BY DEF Quotients
    <3>2. [finished_branches |-> 0, exec_time |-> 0, cycles |-> 0, counter_error |-> ""] \in Packets
      BY DEF Packets, Causes
    <3>3. \A S : <<>> \in Seq(S)
      OBVIOUS
    <3> QED
      BY <2>1, <3>1, <3>2, <3>3 DEF SweepType, Untouched
  <2>4. StartInv /\ WorkerInv /\ TruthInv /\ RowsInv /\ PeakInv
    BY <2>1, <2>2 DEF StartInv, WorkerInv, TruthInv, RowsInv, PeakInv
  <2>5. WarnInv
    <3>1. Len(<<>>) = 0 /\ 1..0 = {}
      OBVIOUS
    <3> QED
      BY <2>1, <3>1 DEF WarnInv, Untouched
  <2> QED
    BY <2>3, <2>4, <2>5 DEF SweepInv
<1> QED
  BY <1>1, SweepStep, CTypeHolds, PTL DEF Spec

\* For any cases, workers, batches and whatever the cycle counters do: a finished
\* sweep has reported every case and worker once, in order, with this worker's own
\* measurement, its maxima are maxima, and n/a comes with a warning.
THEOREM SweepIsReported == Spec => []SweepReport
<1>1. CTypeOK /\ SweepInv => SweepReport
  <2> SUFFICES ASSUME CTypeOK, SweepInv, Swept PROVE SweepReport
    BY DEF SweepReport
  <2>1. /\ Started /\ case = end /\ stage = "exit"
        /\ SweepType /\ StartInv /\ TruthInv /\ RowsInv /\ PeakInv /\ WarnInv
    BY DEF Swept, SweepInv, StartInv, Started
  <2>2. /\ Used \subseteq Workers /\ Selected = Total /\ Total \in Nat \ {0} /\ case - first = Total
        /\ first = (IF config.branch_case = 0 THEN 0 ELSE config.branch_case - 1)
        /\ config.branch_case \in Nat
    <3>1. config.branch_case \in Nat
      BY NamesListed DEF NameList, CTypeOK, IsConfig, Flags
    <3> QED
      BY <2>1, <3>1, Chosen DEF Total
  <2>3. Len(rows) = Selected * config.num_threads
    BY <2>1, <2>2 DEF RowsInv
  <2>4. ASSUME NEW k \in 1..Selected, NEW t \in Used
        PROVE  /\ RowOf(k, t) = RowFor(k, t) /\ truth[t][k] \in Measured
               /\ first + k - 1 = (IF config.branch_case = 0 THEN k ELSE config.branch_case) - 1
    <3>1. RowOf(k, t) = RowFor(k, t)
      BY <2>1, <2>2 DEF RowsInv
    <3>2. truth[t] \in Seq(Measured) /\ Len(truth[t]) = Total
      BY <2>1, <2>2 DEF SweepType, TruthInv, Finished
    <3>3. truth[t][k] \in Measured
      BY <2>2, <3>2
    <3>4. CASE config.branch_case = 0
      BY <2>2, <3>1, <3>3, <3>4
    <3>5. CASE config.branch_case # 0
      <4>1. k = 1
        BY <3>5 DEF Selected
      <4> QED
        BY <2>2, <3>1, <3>3, <3>5, <4>1
    <3> QED
      BY <3>4, <3>5
  <2>5. \A k \in 1..Selected : \A t \in Used :
           LET did == truth[t][k]
           IN /\ RowOf(k, t).thread = t
              /\ RowOf(k, t).case = (IF config.branch_case = 0 THEN k ELSE config.branch_case) - 1
              /\ did.time > 0 /\ RowOf(k, t).rate = <<did.branches, did.time>>
              /\ RowOf(k, t).per_cycle =
                    IF did.cycles > 0 THEN <<did.branches, did.cycles>> ELSE <<0, 1>>
    BY <2>4 DEF RowFor, RateOf, PerCycleOf, Measured
  <2>6. ASSUME NEW t \in Used
        PROVE  /\ \A k \in 1..Selected : ~Less(peak_rate[t], RowOf(k, t).rate)
               /\ peak_rate[t] = <<0, 1>> \/ \E k \in 1..Selected : peak_rate[t] = RowOf(k, t).rate
               /\ \A k \in 1..Selected : ~Less(peak_per_cycle[t], RowOf(k, t).per_cycle)
               /\ \/ peak_per_cycle[t] = <<0, 1>>
                  \/ \E k \in 1..Selected : peak_per_cycle[t] = RowOf(k, t).per_cycle
    <3>1. /\ Best(peak_rate[t], {RateOf(truth[t][k]) : k \in 1..Selected})
          /\ Best(peak_per_cycle[t], {PerCycleOf(truth[t][k]) : k \in 1..Selected})
      BY <2>1, <2>2 DEF PeakInv
    <3>2. \A k \in 1..Selected : /\ RowOf(k, t).rate = RateOf(truth[t][k])
                                 /\ RowOf(k, t).per_cycle = PerCycleOf(truth[t][k])
      BY <2>4 DEF RowFor
    <3> QED
      BY <3>1, <3>2, Zenon DEF Best
  <2>7. \A t \in Used : /\ IsBest(peak_rate[t], t, LAMBDA row : row.rate)
                        /\ IsBest(peak_per_cycle[t], t, LAMBDA row : row.per_cycle)
    BY <2>6 DEF IsBest
  <2>8. (warning # "") <=> \E k \in 1..Len(rows) : rows[k].per_cycle = <<0, 1>>
    BY <2>1 DEF WarnInv
  <2> QED
    BY <2>3, <2>5, <2>7, <2>8 DEF SweepReport
<1> QED
  BY <1>1, SweepHolds, PTL

-----------------------------------------------------------------------------
(***************************************************************************)
(* The duration of the sweep.  Spent is defined by recursion over the      *)
(* cases: SumExists shows that it exists, SumBounds what it is between.    *)
(***************************************************************************)
Sums(f, n, V) == f = [k \in 0..n |-> IF k = 0 THEN 0 ELSE f[k - 1] + V[k].time]

LEMMA SumExists ==
    ASSUME NEW V, NEW n \in Nat
    PROVE  \E f : Sums(f, n, V)
<1> DEFINE Bad == {m \in Nat : ~ \E f : Sums(f, m, V)}
<1> SUFFICES ASSUME Bad # {} PROVE FALSE
  OBVIOUS
<1>1. Bad \subseteq Nat
  OBVIOUS
<1>2. PICK m \in Bad : \A l \in Bad : m <= l
  BY <1>1, Least, Zenon
<1>3. m \in Nat /\ ~ \E f : Sums(f, m, V)
  BY <1>2
<1>4. m # 0
  <2>1. Sums([k \in 0..0 |-> 0], 0, V)
    <3>1. \A k \in 0..0 : k = 0
      OBVIOUS
    <3> QED
      BY <3>1 DEF Sums
  <2> QED
    BY <1>3, <2>1
<1>5. m - 1 \in Nat /\ ~ (m <= m - 1) /\ m \in Nat \ {0}
  BY <1>3, <1>4
<1>6. m - 1 \notin Bad
  BY <1>2, <1>5
<1> HIDE DEF Bad
<1>7. PICK f : Sums(f, m - 1, V)
  BY <1>5, <1>6 DEF Bad
<1> DEFINE g == [k \in 0..m |-> IF k = m THEN f[k - 1] + V[k].time ELSE f[k]]
<1>8. \A k \in 0..(m - 1) : f[k] = (IF k = 0 THEN 0 ELSE f[k - 1] + V[k].time)
  BY <1>7, Zenon DEF Sums
<1>9. \A k \in 0..m : g[k] = (IF k = 0 THEN 0 ELSE g[k - 1] + V[k].time)
  <2> SUFFICES ASSUME NEW k \in 0..m PROVE g[k] = (IF k = 0 THEN 0 ELSE g[k - 1] + V[k].time)
    OBVIOUS
  <2>1. k # 0 => g[k - 1] = f[k - 1]
    <3>1. k # 0 => k - 1 \in 0..m /\ k - 1 # m
      BY <1>5
    <3> QED
      BY <3>1
  <2>2. k # m => k \in 0..(m - 1)
    BY <1>5
  <2>3. g[k] = (IF k = 0 THEN 0 ELSE f[k - 1] + V[k].time)
    BY <1>5, <1>8, <2>2
  <2> HIDE DEF g
  <2> QED
    BY <2>1, <2>3
<1>10. Sums(g, m, V)
  BY <1>9, Zenon DEF Sums
<1> QED
  BY <1>3, <1>10

LEMMA SumBounds ==
    ASSUME NEW n \in Nat, NEW V, NEW f, Sums(f, n, V),
           NEW N \in Nat \ {0}, NEW B \in Nat, NEW H \in Nat,
           \A k \in 1..n : V[k].time \in Nat /\ B <= V[k].time * N /\ V[k].time * N <= H
    PROVE  f[n] \in Nat /\ n * B <= f[n] * N /\ f[n] * N <= n * H
<1> DEFINE Fine(k) == f[k] \in Nat /\ k * B <= f[k] * N /\ f[k] * N <= k * H
           Bad == {k \in 0..n : ~Fine(k)}
<1> SUFFICES ASSUME Bad # {} PROVE FALSE
  OBVIOUS
<1>1. Bad \subseteq Nat
  OBVIOUS
<1>2. PICK k \in Bad : \A l \in Bad : k <= l
  BY <1>1, Least, Zenon
<1>3. k \in 0..n /\ ~Fine(k)
  BY <1>2
<1>4. \A l \in 0..n : f[l] = (IF l = 0 THEN 0 ELSE f[l - 1] + V[l].time)
  BY Zenon DEF Sums
<1>5. k # 0
  <2>1. ASSUME k = 0 PROVE Fine(k)
    <3>1. f[k] = 0
      BY <1>3, <1>4, <2>1
    <3>2. 0 * B = 0 /\ 0 * N = 0 /\ 0 * H = 0
      OBVIOUS
    <3> QED
      BY <2>1, <3>1, <3>2
  <2> QED
    BY <1>3, <2>1
<1>6. k - 1 \in 0..n /\ ~ (k <= k - 1) /\ k \in 1..n
  BY <1>3, <1>5
<1>7. Fine(k - 1)
  BY <1>2, <1>6
<1>8. f[k] = f[k - 1] + V[k].time /\ V[k].time \in Nat /\ B <= V[k].time * N /\ V[k].time * N <= H
  BY <1>4, <1>6
<1> DEFINE s == f[k - 1]
           v == V[k].time
<1>9. /\ s \in Nat /\ v \in Nat /\ k \in Nat /\ f[k] = s + v
      /\ (k - 1) * B <= s * N /\ s * N <= (k - 1) * H /\ B <= v * N /\ v * N <= H
  BY <1>6, <1>7, <1>8
<1> HIDE DEF s, v, Fine, Bad
<1>10. /\ (s + v) * N = s * N + v * N /\ (k - 1) * B = k * B - B /\ (k - 1) * H = k * H - H
       /\ s * N \in Nat /\ v * N \in Nat /\ k * B \in Nat /\ k * H \in Nat
  BY <1>9
<1>11. k * B <= (s + v) * N /\ (s + v) * N <= k * H /\ s + v \in Nat
  BY <1>9, <1>10
<1> QED
  BY <1>3, <1>9, <1>11 DEF Fine

\* A finished sweep has measured for the budget, and less than one batch per case
\* longer, for any number of cases, workers and any durations of the batches.
THEOREM SweepLasts == Spec => []SweepLastsTarget
<1>1. CTypeOK /\ SweepInv => SweepLastsTarget
  <2> SUFFICES ASSUME CTypeOK, SweepInv, Swept, NEW t \in Used
               PROVE  Budget <= Spent(t) /\ Spent(t) < Budget + Selected * Max(Costs)
    BY DEF SweepLastsTarget, Budget
  <2>1. /\ Started /\ case = end /\ stage = "exit" /\ SweepType /\ StartInv /\ TruthInv
    BY DEF Swept, SweepInv, StartInv, Started
  <2>2. /\ t \in Workers /\ Selected = Total /\ Total \in Nat \ {0} /\ case - first = Total
        /\ Budget \in Nat \ {0}
    BY <2>1, Chosen DEF Total
  <2>3. truth[t] \in Seq(Measured) /\ Len(truth[t]) = Total
        /\ \A k \in 1..Total : Whole(truth[t][k])
    BY <2>1, <2>2 DEF SweepType, TruthInv, Finished
  <2>4. Max(Costs) \in Nat /\ \A c \in Costs : c \in Nat /\ c <= Max(Costs)
    <3>1. PICK m \in Costs : \A c \in Costs : c <= m
      BY SweepAssumption
    <3>2. \A c \in Costs : m >= c /\ c \in Nat
      BY <3>1, SweepAssumption
    <3>3. Max(Costs) \in Costs /\ \A c \in Costs : Max(Costs) >= c
      BY <3>1, <3>2, Zenon DEF Max
    <3> QED
      BY <3>2, <3>3
  <2> DEFINE H == Budget - 1 + Max(Costs) * Total
  <2>5. Max(Costs) * Total \in Nat /\ H \in Nat
    BY <2>2, <2>4
  <2>6. ASSUME NEW k \in 1..Total
        PROVE  /\ truth[t][k].time \in Nat
               /\ Budget <= truth[t][k].time * Total /\ truth[t][k].time * Total <= H
    <3> DEFINE v == truth[t][k].time
    <3>1. v \in Nat
      <4>1. truth[t][k] \in Measured
        BY <2>3
      <4> QED
        BY <4>1 DEF Measured
    <3>2. PICK c \in Costs : (v - c) * Total < Budget
      BY <2>3 DEF Whole
    <3>3. Budget <= v * Total
      BY <2>3 DEF Whole
    <3> HIDE DEF v
    <3>4. c \in Nat /\ c * Total <= Max(Costs) * Total
      BY <2>2, <2>4, Product
    <3>5. (v - c) * Total = v * Total - c * Total /\ v * Total \in Nat /\ c * Total \in Nat
      BY <2>2, <3>1, <3>4
    <3>6. v * Total <= H
      BY <2>2, <2>5, <3>2, <3>4, <3>5
    <3> QED
      BY <3>1, <3>3, <3>6 DEF v
  <2> HIDE DEF H
  <2> DEFINE f == CHOOSE f : Sums(f, Total, truth[t])
  <2>7. Sums(f, Total, truth[t])
    BY <2>2, SumExists
  <2>8. Spent(t) = f[Total]
    BY <2>3 DEF Spent, Sums
  <2> HIDE DEF f
  <2>9. Spent(t) \in Nat /\ Total * Budget <= Spent(t) * Total /\ Spent(t) * Total <= Total * H
    <3> DEFINE V == truth[t]
    <3>1. /\ Sums(f, Total, V) /\ Total \in Nat /\ Total \in Nat \ {0} /\ Budget \in Nat /\ H \in Nat
          /\ \A k \in 1..Total : V[k].time \in Nat /\ Budget <= V[k].time * Total
                                                    /\ V[k].time * Total <= H
      BY <2>2, <2>5, <2>6, <2>7
    <3> HIDE DEF V
    <3>2. f[Total] \in Nat /\ Total * Budget <= f[Total] * Total /\ f[Total] * Total <= Total * H
      BY <3>1, SumBounds, Zenon
    <3> QED
      BY <2>8, <3>2
  <2>10. Total * Budget = Budget * Total /\ Total * H = H * Total
    BY <2>2, <2>5
  <2>11. Budget <= Spent(t)
    <3>1. Spent(t) < Budget => Spent(t) * Total < Budget * Total
      BY <2>2, <2>9, StrictProduct
    <3>2. Spent(t) * Total \in Nat /\ Budget * Total \in Nat
      BY <2>2, <2>9
    <3> QED
      BY <2>2, <2>9, <2>10, <3>1, <3>2
  <2>12. Spent(t) <= H
    <3>1. H < Spent(t) => H * Total < Spent(t) * Total
      BY <2>2, <2>5, <2>9, StrictProduct
    <3>2. Spent(t) * Total \in Nat /\ H * Total \in Nat
      BY <2>2, <2>5, <2>9
    <3> QED
      BY <2>5, <2>9, <2>10, <3>1, <3>2
  <2>13. Selected * Max(Costs) = Max(Costs) * Total /\ Max(Costs) * Total \in Nat
    BY <2>2, <2>4
  <2> QED
    BY <2>2, <2>9, <2>11, <2>12, <2>13 DEF H
<1> QED
  BY <1>1, SweepHolds, PTL
=============================================================================
