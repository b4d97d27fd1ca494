--------------------------- MODULE Configuration ----------------------------
(***************************************************************************)
(* common/command_line.h and cpu_micro/lib_configuration.cc: how the       *)
(* arguments of a benchmark become its configuration.                      *)
(*                                                                         *)
(* An argument is a token.  form tells how it begins ("long": --x, "short":*)
(* -x, "dashes": -- alone, "word": anything else), name what it asks for,  *)
(* attached the text after = or after the letter (<<>> if there is none),  *)
(* and value what it reads as when it is the value of the option before    *)
(* it.  A text is a decimal integer, perhaps with a minus, or it is not.   *)
(***************************************************************************)
EXTENDS Integers, Sequences, FiniteSets

CONSTANTS
    Invocations,    \* the pairs <<testing type, arguments>> considered
    AllowedCpus,    \* numa_config.all_allowed_cpus.size()
    U32, U64        \* 2^32 and 2^64

KB == 1024

\* What parse() may meet.
TestingTypes == {"LATENCY", "BANDWIDTH", "LATENCY_BANDWIDTH", "MEMCPY", "BRANCH_THROUGHPUT"}
Texts == {text \in [number : BOOLEAN, n : Int, minus : BOOLEAN] : text.minus \/ text.n >= 0}
Arguments == [form : {"long", "short", "dashes", "word"}, name : STRING,
              attached : {texts \in Seq(Texts) : Len(texts) <= 1}, value : Texts]

ASSUME InvocationsAssumption == Invocations \subseteq TestingTypes \X Seq(Arguments)
ASSUME AllowedCpusAssumption == AllowedCpus \in Nat
ASSUME WidthAssumption ==
    /\ U32 \in Nat \ {0} /\ U64 \in Nat /\ U32 < U64
    /\ U32 % KB = 0 /\ U64 % KB = 0

VARIABLES
    type,       \* testing_type_
    argv,       \* the arguments after the program's name
    i,          \* loop variable of parse()
    seen,       \* the options seen
    config,     \* the members of Configuration, by the names of their options
    stage,      \* where main() is
    status      \* exit status, -1 while running

cvars == <<type, argv, i, seen, config, stage, status>>

LatencyTypes == {"LATENCY", "LATENCY_BANDWIDTH"}

(***************************************************************************)
(* The options of each benchmark and their default values.                 *)
(***************************************************************************)
Flags == {"help", "no_binding", "verbose", "latency_matrix", "bandwidth_matrix", "memcpy_matrix"}

generic_options == {"help", "target_duration", "num_threads", "no_binding", "verbose"}
latency_options == {"access_pattern", "chunk_size", "stride_size", "use_hugepage"}

Options ==
    generic_options
    \cup (IF type # "BRANCH_THROUGHPUT" THEN {"region_size"} ELSE {"branch_case"})
    \cup (IF type \in LatencyTypes THEN latency_options ELSE {})
    \cup (IF type \in {"BANDWIDTH", "LATENCY_BANDWIDTH"} THEN {"read_write_mix"} ELSE {})
    \cup (CASE type = "LATENCY" -> {"latency_matrix"}
            [] type = "BANDWIDTH" -> {"bandwidth_matrix"}
            [] type = "LATENCY_BANDWIDTH" -> {"load_gen_delay"}
            [] type = "MEMCPY" -> {"fragment_size", "memcpy_matrix"}
            [] OTHER -> {})

Alias == [help |-> "h", target_duration |-> "t", num_threads |-> "n", region_size |-> "b",
          verbose |-> "v", access_pattern |-> "p", chunk_size |-> "c", stride_size |-> "s",
          use_hugepage |-> "H", read_write_mix |-> "m", load_gen_delay |-> "d",
          fragment_size |-> "f"]

Members ==
    [help |-> FALSE, no_binding |-> FALSE, verbose |-> FALSE,
     latency_matrix |-> FALSE, bandwidth_matrix |-> FALSE, memcpy_matrix |-> FALSE,
     branch_case |-> 0, num_threads |-> 1, region_size |-> 128 * 1024, access_pattern |-> 1,
     chunk_size |-> 128, stride_size |-> 64, fragment_size |-> 4096, use_hugepage |-> 0,
     read_write_mix |-> 0, load_gen_delay |-> 0, target_duration |-> 10]

Default ==
    [Members EXCEPT
        !.num_threads = IF type \in {"LATENCY", "BRANCH_THROUGHPUT"} THEN 1 ELSE AllowedCpus,
        !.region_size = IF type = "LATENCY" THEN 512 * 1024 ELSE @,
        !.chunk_size = IF type = "LATENCY_BANDWIDTH" THEN 64 ELSE @,
        !.stride_size = IF type \in LatencyTypes THEN 128 ELSE @,
        !.fragment_size = IF type = "MEMCPY" THEN 0 ELSE @,
        !.read_write_mix = CASE type = "BANDWIDTH" -> 100
                             [] type = "LATENCY_BANDWIDTH" -> 2
                             [] OTHER -> @]

(***************************************************************************)
(* CommandLine::value(): what a target of each width accepts.              *)
(***************************************************************************)
Fits(o, text) ==
    /\ text.number
    /\ CASE o = "load_gen_delay" -> text.n \in -(U32 \div 2)..(U32 \div 2 - 1)
         [] o \in {"region_size", "fragment_size"} -> ~text.minus /\ text.n < U64
         [] OTHER -> ~text.minus /\ text.n < U32

(***************************************************************************)
(* CommandLine::parse(), one argument per step.                            *)
(***************************************************************************)
Match(token) ==
    {o \in Options : \/ token.form = "long" /\ o = token.name
                     \/ token.form = "short" /\ o \in DOMAIN Alias /\ Alias[o] = token.name}

AtEnd == i > Len(argv) \/ (i = Len(argv) /\ argv[i].form = "dashes")

Fail == stage' = "exit" /\ status' = 1

\* The text of a value: attached, or the next argument unless that begins with "--".
HasText(token) ==
    \/ token.attached # <<>>
    \/ i < Len(argv) /\ argv[i + 1].form \in {"short", "word"}
Text(token) == IF token.attached # <<>> THEN token.attached[1] ELSE argv[i + 1].value

\* Everything else makes parse() throw invalid_argument.
Accepts(o, token) ==
    IF o \in Flags THEN token.attached = <<>>
    ELSE HasText(token) /\ Fits(o, Text(token))

\* Mutant: the value in the next argument is not skipped.
AssignStays(o, token) ==
    /\ config' = [config EXCEPT ![o] = IF o \in Flags THEN TRUE ELSE Text(token).n]
    /\ i' = i + 1

Assign(o, token) ==
    /\ config' = [config EXCEPT ![o] = IF o \in Flags THEN TRUE ELSE Text(token).n]
    /\ i' = IF o \in Flags \/ token.attached # <<>> THEN i + 1 ELSE i + 2

ParseArgument ==
    /\ stage = "parse" /\ ~AtEnd
    /\ LET accepted == {o \in Match(argv[i]) \ seen : Accepts(o, argv[i])}
       IN \/ /\ \E o \in accepted : Assign(o, argv[i]) /\ seen' = seen \cup {o}
             /\ UNCHANGED <<stage, status>>
          \/ /\ accepted = {}
             /\ Fail /\ UNCHANGED <<i, seen, config>>
    /\ UNCHANGED <<type, argv>>

(***************************************************************************)
(* parse_options() after parse(): the usage message, or the correction of  *)
(* the chunk, which converts a uint64_t to a uint32_t.                     *)
(***************************************************************************)
\* Mutant: no correction.
CorrectedChunkKept == config.chunk_size

CorrectedChunk == IF config.use_hugepage > 0 THEN config.region_size % U32 ELSE config.chunk_size

ParseOptionsEnd ==
    /\ stage = "parse" /\ AtEnd
    /\ \/ config.help /\ Fail /\ UNCHANGED config
       \/ /\ ~config.help
          /\ config' = [config EXCEPT !.chunk_size = CorrectedChunk]
          /\ stage' = "main" /\ UNCHANGED status
    /\ UNCHANGED <<type, argv, i, seen>>

CInit ==
    /\ \E invocation \in Invocations : type = invocation[1] /\ argv = invocation[2]
    /\ i = 1 /\ seen = {} /\ config = Default /\ stage = "parse" /\ status = -1

parse_options == ParseArgument \/ ParseOptionsEnd

(***************************************************************************)
(* The region of a worker: uint64_t and uint32_t products of the packet's  *)
(* sizes, then the constructor's correction of the page size.              *)
(***************************************************************************)
RegionBytes == (config.region_size % (U64 \div KB)) * KB
ChunkBytes == (config.chunk_size % (U32 \div KB)) * KB
PageBytes == IF ChunkBytes > RegionBytes THEN 4096 ELSE ChunkBytes

(***************************************************************************)
(* Properties.                                                             *)
(***************************************************************************)

\* The arguments as their author reads them: an argument is the value of the one
\* before it if that is an option that wants one and has none attached.
WantsNext(token) == token.attached = <<>> /\ Match(token) \ Flags # {}
ReadsAsValue(k) ==
    LET f[n \in 0..k] == n > 1 /\ ~f[n - 1] /\ WantsNext(argv[n - 1]) IN f[k]

Positions == 1..Len(argv)
OptionAt(k) == ~ReadsAsValue(k) /\ ~(k = Len(argv) /\ argv[k].form = "dashes")
PlacesOf(o) == {k \in Positions : OptionAt(k) /\ o \in Match(argv[k])}

\* The text given to o at place k, if one is.
Given(o, k) == IF argv[k].attached # <<>> THEN argv[k].attached
               ELSE IF k < Len(argv) /\ argv[k + 1].form \in {"short", "word"}
                    THEN <<argv[k + 1].value>> ELSE <<>>

WellFormed ==
    /\ \A k \in Positions : OptionAt(k) => Match(argv[k]) # {}
    /\ \A o \in Options : Cardinality(PlacesOf(o)) <= 1
    /\ \A o \in Options : \A k \in PlacesOf(o) :
          IF o \in Flags THEN argv[k].attached = <<>>
          ELSE Given(o, k) # <<>> /\ Fits(o, Given(o, k)[1])

\* parse() accepts exactly the well-formed command lines, and then every option
\* has the value written for it or its default: no argument is dropped, taken for
\* another option or used twice, and no number wraps around.
ParsedAsWritten ==
    /\ stage = "exit" /\ status = 1 /\ ~AtEnd => ~WellFormed
    /\ stage = "main" =>
          /\ WellFormed /\ PlacesOf("help") = {}
          /\ \A o \in Options \ {"chunk_size"} :
                IF PlacesOf(o) = {} THEN config[o] = Default[o]
                ELSE \A k \in PlacesOf(o) :
                        config[o] = IF o \in Flags THEN TRUE ELSE Given(o, k)[1].n

\* With huge pages a latency worker's region is a single page, so that the random
\* order covers it all, for every region that a uint32_t can measure in bytes.
\* (From 2^32 bytes on the packet's product of chunk_size_kb and 1024 wraps.)
HugePageRegionIsOnePage ==
    stage = "main" /\ type \in LatencyTypes /\ config.use_hugepage > 0
      /\ RegionBytes \in 1..(U32 - 1) /\ config.region_size < U32 \div KB
    => PageBytes = RegionBytes
=============================================================================
