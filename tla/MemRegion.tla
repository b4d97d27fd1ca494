----------------------------- MODULE MemRegion ------------------------------
(***************************************************************************)
(* common/mem_region.cc: how a worker turns its memory region into a       *)
(* circular list of pointers.  Offsets stand for addresses, next[o] for    *)
(* the pointer stored at offset o.  rand() is any number: the generator is *)
(* shared by all workers, which reseed it while others draw from it.       *)
(***************************************************************************)
EXTENDS Integers, FiniteSets

CONSTANTS
    Params,         \* the regions considered, a subset of ParamType
    FallbackPage    \* page size when the requested page exceeds the region (4096)

Patterns == {"stride", "page_random", "all_random"}

ParamType == [pattern : Patterns, active : Nat \ {0}, page : Nat \ {0}, line : Nat \ {0}]

ASSUME FallbackPageAssumption == FallbackPage \in Nat \ {0}

\* page_size_ after the constructor has corrected it
PageSize(p) == IF p.page > p.active THEN FallbackPage ELSE p.page

\* num_active_pages_, num_lines_in_page_, numActiveLines()
ActivePages(p) == p.active \div PageSize(p)
LinesInPage(p) == PageSize(p) \div p.line
numActiveLines(p) == ActivePages(p) * LinesInPage(p)

\* The length of the sequence randomizeSequence_ works on.
SeqSize(p) == IF p.pattern = "page_random" THEN LinesInPage(p) ELSE numActiveLines(p)

\* A region has at least one line; the random patterns index an empty
\* sequence otherwise.
ASSUME ParamsAssumption ==
    Params \subseteq {p \in ParamType : ActivePages(p) > 0 /\ LinesInPage(p) > 0}

VARIABLES
    param,      \* the arguments of the constructor, and the pattern
    stage,      \* where the initialisation is
    seq,        \* the sequence being randomised
    i,          \* its loop variable
    next        \* the pointers written into the region

vars == <<param, stage, seq, i, next>>

Stages == {"fill", "swap", "front", "link", "done"}
Index == 0..(SeqSize(param) - 1)
Unset == <<>>

Init ==
    /\ param \in Params
    /\ stage = IF param.pattern = "stride" THEN "link" ELSE "fill"
    /\ seq = Unset /\ i = 0 /\ next = Unset

(***************************************************************************)
(* randomizeSequence_: in order, then Fisher-Yates, then 0 to the front.   *)
(***************************************************************************)
Fill ==
    /\ stage = "fill"
    /\ seq' = [k \in Index |-> k * param.line]
    /\ i' = SeqSize(param) - 1
    /\ stage' = "swap"
    /\ UNCHANGED <<param, next>>

\* Mutant: no temporary, one element is lost.
SwapLoses ==
    /\ stage = "swap" /\ i > 0
    /\ \E r \in 0..i : seq' = [seq EXCEPT ![r] = seq[i]]
    /\ i' = i - 1
    /\ UNCHANGED <<param, stage, next>>

Swap ==
    /\ stage = "swap" /\ i > 0
    /\ \E r \in 0..i : seq' = [seq EXCEPT ![r] = seq[i], ![i] = seq[r]]
    /\ i' = i - 1
    /\ UNCHANGED <<param, stage, next>>

SwapDone ==
    /\ stage = "swap" /\ i = 0
    /\ stage' = "front"
    /\ UNCHANGED <<param, seq, i, next>>

\* Mutant: the start is left where the shuffle put it.
FrontSkipped ==
    /\ stage = "front"
    /\ stage' = "link"
    /\ UNCHANGED <<param, seq, i, next>>

Front ==
    /\ stage = "front"
    /\ \/ /\ seq[0] = 0
          /\ UNCHANGED seq
       \/ \E k \in Index \ {0} :
             /\ seq[k] = 0
             /\ seq' = [seq EXCEPT ![k] = seq[0], ![0] = 0]
    /\ stage' = "link"
    /\ UNCHANGED <<param, i, next>>

(***************************************************************************)
(* The three patterns.  Each maps the offsets it writes to their targets.  *)
(***************************************************************************)
StrideOffsets(p) == {k * p.line : k \in {n \in 0..p.active : n * p.line < p.active}}

stride_init ==
    [o \in StrideOffsets(param) |->
        IF o + param.line < param.active THEN o + param.line ELSE 0]

\* Offset of line k of page g, lines numbered in the order of seq.
PageLine(g, k) == g * PageSize(param) + seq[k]
PageIndex == 0..(ActivePages(param) - 1)
PageOffsets == {PageLine(g, k) : g \in PageIndex, k \in Index}

\* Mutant: the last page jumps to itself.
NextPageStuck(g) == IF g = ActivePages(param) - 1 THEN g ELSE g + 1

NextPage(g) == IF g = ActivePages(param) - 1 THEN 0 ELSE g + 1

page_random_init ==
    [o \in PageOffsets |->
        LET g == CHOOSE h \in PageIndex : \E k \in Index : o = PageLine(h, k)
            k == CHOOSE j \in Index : o = PageLine(g, j)
        IN  IF k < SeqSize(param) - 1
            THEN PageLine(g, k + 1)
            ELSE PageLine(NextPage(g), 0)]

all_random_init ==
    [o \in {seq[k] : k \in Index} |->
        LET k == CHOOSE j \in Index : seq[j] = o
        IN  IF k < SeqSize(param) - 1 THEN seq[k + 1] ELSE seq[0]]

Link ==
    /\ stage = "link"
    /\ \/ param.pattern = "stride" /\ next' = stride_init
       \/ param.pattern = "page_random" /\ next' = page_random_init
       \/ param.pattern = "all_random" /\ next' = all_random_init
    /\ stage' = "done"
    /\ UNCHANGED <<param, seq, i>>

Next == Fill \/ Swap \/ SwapDone \/ Front \/ Link

Spec == Init /\ [][Next]_vars

(***************************************************************************)
(* Properties.                                                             *)
(***************************************************************************)
\* The lines the finished list consists of.
Lines ==
    IF param.pattern = "stride" THEN StrideOffsets(param)
    ELSE IF param.pattern = "page_random"
    THEN {g * PageSize(param) + k * param.line :
             g \in PageIndex, k \in 0..(LinesInPage(param) - 1)}
    ELSE {k * param.line : k \in 0..(numActiveLines(param) - 1)}

\* Types; randomizeSequence_ indexes the sequence within its bounds, and every
\* finished pointer leads from a line of the region to a line of the region.
TypeOK ==
    /\ param \in Params
    /\ stage \in Stages
    /\ stage \in {"swap", "front"} => i \in Index /\ seq \in [Index -> Nat]
    /\ stage = "done" => next \in [Lines -> Lines]

\* Whatever rand() returns, the shuffle only permutes: no line is lost and none
\* occurs twice.
ShufflePermutes ==
    stage \in {"swap", "front"} =>
        /\ \A k \in Index : \E j \in Index : seq[j] = k * param.line
        /\ \A j, k \in Index : seq[j] = seq[k] => j = k

\* The offset after n chases from the start of the region.
Chase(n) == LET at[k \in 0..n] == IF k = 0 THEN 0 ELSE next[at[k - 1]]
            IN  at[n]

\* The pointers form one cycle through every active line: no line is left out
\* and no short cycle fits into a cache.
SingleCycle ==
    stage = "done" =>
        LET n == Cardinality(Lines) - 1
        IN  {Chase(k) : k \in 0..n} = Lines /\ Chase(n + 1) = 0

\* Random-in-page leaves a page only after all of its lines.
PageByPage ==
    stage = "done" /\ param.pattern = "page_random" =>
        \A k \in 0..(numActiveLines(param) - 1) :
            Chase(k) \div PageSize(param) = k \div LinesInPage(param)
=============================================================================
