--------------------------- MODULE LoadedLatency ----------------------------
(***************************************************************************)
(* cpu_micro/cpu_loaded_latency.cc: choose the load-generating kernels,    *)
(* then measure latency (worker 0) under the load of the other workers,    *)
(* once per kernel and once more in front as a warm-up.  The result of a   *)
(* measurement steers the next one.                                        *)
(***************************************************************************)
EXTENDS Integers, Sequences, FiniteSets

CONSTANTS
    Mixes,      \* values of --read_write_mix
    Delays,     \* values of --load_gen_delay, 0 = sweep
    Target,     \* --target_duration
    Bandwidths  \* measured bandwidths, in tenths of a GB/s

ASSUME MixesAssumption == Mixes \subseteq Nat
ASSUME DelaysAssumption == Delays \subseteq Nat
ASSUME TargetAssumption == Target \in Nat \ {0}
ASSUME BandwidthsAssumption == Bandwidths \subseteq Nat

(***************************************************************************)
(* kernels_common.h and the kernels: a kernel makes 256 accesses to        *)
(* consecutive blocks of 32 bytes, so two of them share a cache line.      *)
(***************************************************************************)
RD32 == <<"R">>
WR32 == <<"W">>
LP(n, x) == [k \in 1..(n * Len(x)) |-> x[((k - 1) % Len(x)) + 1]]

Accesses(mix) ==
    CASE mix = 0 -> LP(256, RD32)
      [] mix = 1 -> LP(128, RD32 \o WR32)
      [] mix = 2 -> LP(32, LP(4, RD32) \o LP(2, RD32 \o WR32))
      [] mix = 3 -> LP(42, LP(5, RD32) \o WR32) \o LP(3, RD32) \o LP(1, WR32)

\* bw_sequential: what a call is counted for, in 32-byte blocks.
loop_blocks == 256

\* Mutant: the share of the accesses that write.
WriteShare(mix) ==
    CASE mix = 1 -> 5000 [] mix = 2 -> 2500 [] mix = 3 -> 1667 [] OTHER -> 0

\* get_write_fraction, in units of 1/10000
get_write_fraction(mix) ==
    CASE mix = 1 -> 10000 [] mix = 2 -> 5000 [] mix = 3 -> 3333 [] OTHER -> 0

(***************************************************************************)
(* get_kernels_with_delays: the delay printed and the kernel run.          *)
(***************************************************************************)
BaseDelays == <<1, 8, 32, 48, 64, 80, 88, 96, 104, 112, 128, 160, 192, 224, 256,
                384, 512, 768, 1024, 1536, 2048>>
R2W1Delays == <<1, 8, 32, 48, 64, 80, 88, 96, 104, 112, 128, 160, 192, 224, 256,
                320, 384, 448, 512, 640, 768, 1024, 1536, 2048>>

Item(delay, mix, nops) == [delay |-> delay, mix |-> mix, nops |-> nops]
Items(seq, mix) == [k \in DOMAIN seq |-> Item(seq[k], mix, seq[k])]

get_kernels_with_delays(mix) ==
    IF mix = 2 THEN Items(R2W1Delays, mix)
    ELSE IF mix \in {0, 1, 3} THEN Items(BaseDelays, mix)
    ELSE <<Item(0, 2, 256)>>

VARIABLES
    mix, delay,         \* config.read_write_mix, config.load_gen_delay
    stage,
    pos,                \* position in the list that is being walked
    gap,                \* smallest distance found so far
    list,               \* delays_and_kernels
    last_lat, last_bw,  \* results of the previous measurement, truncated
    lat_target, bw_target,  \* target_duration in the packets
    printed,            \* rows printed
    report              \* delay on the last row

vars == <<mix, delay, stage, pos, gap, list, last_lat, last_bw, lat_target,
          bw_target, printed, report>>

raw == get_kernels_with_delays(mix)
Abs(n) == IF n < 0 THEN -n ELSE n

Init ==
    /\ mix \in Mixes /\ delay \in Delays
    /\ stage = "select" /\ pos = 1 /\ gap = delay /\ list = <<>>
    /\ last_lat = 0 /\ last_bw = 0 /\ lat_target = 0 /\ bw_target = 0
    /\ printed = 0 /\ report = 0

(***************************************************************************)
(* build_delays_and_kernels                                                *)
(***************************************************************************)
\* Mutant: the last of the items at most as far away replaces the nearer one.
NearerOrEqualToFirst(item) == Abs(item.delay - delay) <= delay

Nearer(item) == Abs(item.delay - delay) < gap

SelectStep ==
    /\ stage = "select" /\ delay > 0 /\ pos <= Len(raw)
    /\ \/ /\ Nearer(raw[pos])
          /\ gap' = Abs(raw[pos].delay - delay)
          /\ list' = <<raw[pos]>>
       \/ /\ ~Nearer(raw[pos])
          /\ UNCHANGED <<gap, list>>
    /\ pos' = pos + 1
    /\ UNCHANGED <<mix, delay, stage, last_lat, last_bw, lat_target, bw_target,
                   printed, report>>

\* Mutant: the first kernel has no warm-up.
PushFrontNot(l) == l

\* front() of an empty list would be undefined: see NearestKernelIsFound.
PushFront(l) == <<Head(l)>> \o l

SelectDone ==
    /\ stage = "select"
    /\ \/ delay = 0 /\ list' = PushFront(raw)
       \/ delay > 0 /\ pos > Len(raw) /\ list # <<>> /\ list' = PushFront(list)
    /\ stage' = "prepare" /\ pos' = 1
    /\ UNCHANGED <<mix, delay, gap, last_lat, last_bw, lat_target, bw_target,
                   printed, report>>

(***************************************************************************)
(* measure_loaded_latency, once per item of the list.                      *)
(***************************************************************************)
\* Mutant: the warm-up runs as long as a measurement.
TargetAlways(last) == Target

TargetAfter(last) == IF last > 0 THEN Target ELSE 1

Prepare ==
    /\ stage = "prepare" /\ pos <= Len(list)
    /\ lat_target' = TargetAfter(last_lat)
    /\ bw_target' = TargetAfter(last_bw)
    /\ stage' = "measure"
    /\ UNCHANGED <<mix, delay, pos, gap, list, last_lat, last_bw, printed, report>>

\* Latencies are hundreds of picoseconds at least; the bandwidth is truncated
\* to GB/s.
Measure ==
    /\ stage = "measure"
    /\ IF last_lat > 0 \/ last_bw > 0
       THEN printed' = printed + 1 /\ report' = list[pos].delay
       ELSE UNCHANGED <<printed, report>>
    /\ last_lat' = 1
    /\ \E b \in Bandwidths : last_bw' = b \div 10
    /\ pos' = pos + 1 /\ stage' = "prepare"
    /\ UNCHANGED <<mix, delay, gap, list, lat_target, bw_target>>

Finish ==
    /\ stage = "prepare" /\ pos > Len(list)
    /\ stage' = "done"
    /\ UNCHANGED <<mix, delay, pos, gap, list, last_lat, last_bw, lat_target,
                   bw_target, printed, report>>

Next == SelectStep \/ SelectDone \/ Prepare \/ Measure \/ Finish

Spec == Init /\ [][Next]_vars

(***************************************************************************)
(* Properties.                                                             *)
(***************************************************************************)
\* For every delay asked for, the search ends with a kernel, the nearest there
\* is, so front() is never called on an empty list.
NearestKernelIsFound ==
    stage = "select" /\ delay > 0 /\ pos > Len(raw) =>
        /\ Len(list) = 1
        /\ \A k \in DOMAIN raw :
              Abs(list[1].delay - delay) <= Abs(raw[k].delay - delay)

\* Exactly the rows that were asked for are printed, each once and in order:
\* the warm-up is not one of them, and a bandwidth below 1 GB/s loses none.
RowsFollowTheList ==
    /\ stage \in {"prepare", "done"} =>
          printed = IF pos > 2 THEN pos - 2 ELSE 0
    /\ printed > 0 /\ stage = "prepare" => report = list[pos - 1].delay
    /\ stage = "done" /\ delay = 0 => printed = Len(raw)

\* A call touches loop_blocks blocks, and the write fraction that scales its
\* bytes is the share of the cache lines it writes, to within one percent.
TrafficIsAccounted ==
    LET a == Accesses(mix)
        lines == 1..(loop_blocks \div 2)
        written == {l \in lines : a[2 * l - 1] = "W" \/ a[2 * l] = "W"}
    IN  /\ Len(a) = loop_blocks
        /\ Abs(Cardinality(written) * 10000 - get_write_fraction(mix) * Cardinality(lines))
             <= 100 * Cardinality(lines)

\* Printed rows are measured for the whole target duration.
LatencyRunsTheTarget ==
    stage = "measure" => lat_target = IF pos = 1 THEN 1 ELSE Target

\* README: "-t is seconds per data point".  The load lasts as long as the
\* latency measurement it belongs to.
LoadLastsAsLong ==
    stage = "measure" => bw_target = lat_target
=============================================================================
