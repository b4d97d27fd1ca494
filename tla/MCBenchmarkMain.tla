-------------------------- MODULE MCBenchmarkMain ---------------------------
(* Instances of BenchmarkMain for TLC. *)
EXTENDS BenchmarkMain

Num(n) == [number |-> TRUE, n |-> n, minus |-> FALSE]
MinusOne == [number |-> TRUE, n |-> -1, minus |-> TRUE]
NoNumber == [number |-> FALSE, n |-> 0, minus |-> FALSE]

Token(form, name, attached, value) ==
    [form |-> form, name |-> name, attached |-> attached, value |-> value]

Long(name) == Token("long", name, <<>>, NoNumber)
LongWith(name, text) == Token("long", name, <<text>>, NoNumber)
Short(name) == Token("short", name, <<>>, NoNumber)
ShortWith(name, text) == Token("short", name, <<text>>, NoNumber)
Word(text) == Token("word", "", <<>>, text)
Dashes == Token("dashes", "", <<>>, NoNumber)
DashOne == Token("short", "1", <<>>, MinusOne)

\* Arguments every benchmark is given: flags and values in all their forms, an
\* alias as a long option, numbers at and beyond the widths, values that are no
\* number, values that look like options.
CommonTokens ==
    {Long("help"), Short("h"), Long("h"), Long("verbose"), ShortWith("v", Num(1)),
     LongWith("no_binding", Num(1)), Long("target_duration"), Short("t"),
     ShortWith("t", Num(8)), LongWith("num_threads", Num(0)), ShortWith("n", Num(2)), ShortWith("n", Num(3)),
     Word(Num(1)), Word(NoNumber), DashOne, Dashes}

Own == [LATENCY |-> {"region_size", "use_hugepage", "latency_matrix"},
        BANDWIDTH |-> {"read_write_mix", "bandwidth_matrix"},
        LATENCY_BANDWIDTH |-> {"load_gen_delay", "use_hugepage", "stride_size"},
        MEMCPY |-> {"fragment_size", "region_size"},
        BRANCH_THROUGHPUT |-> {"branch_case", "region_size"}]

\* Values of a benchmark's own options: 0, values around the limits of a uint32_t
\* and of a region that a uint32_t measures in bytes.
OwnTokens(ty) ==
    {Long(o) : o \in Own[ty]}
        \cup {LongWith(o, v) : o \in Own[ty],
                               v \in {Num(0), Num(2), Num(3), MinusOne, Num(U32 \div KB - 1),
                                      Num(U32 \div KB), Num(U32 - 1), Num(U32)}}

FewTokens(ty) ==
    {Short("t"), Short("v"), Long("verbose"), DashOne, Word(Num(8)), Dashes, ShortWith("n", Num(2)),
     LongWith("target_duration", Num(1))} \cup {Long(o) : o \in Own[ty]}

Types == DOMAIN Own

MCInvocations ==
    UNION {{<<ty, a>> : a \in BoundedSeq(CommonTokens \cup OwnTokens(ty), 2)
                              \cup [1..3 -> FewTokens(ty)]} : ty \in Types}
=============================================================================
