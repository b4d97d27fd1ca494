--------------------------- MODULE BenchmarkMain ----------------------------
(***************************************************************************)
(* The main functions of the benchmarks from their arguments on: the       *)
(* checks they make of the configuration, and the whole of                 *)
(* cpu_branch_throughput.cc, whose sweep splits the duration over the      *)
(* cases and reports for every worker what its timer and its cycle counter *)
(* saw.  The other benchmarks stop here at the stage "measure": NumaMatrix,*)
(* LoadedLatency and WorkerThreads go on from there.                       *)
(***************************************************************************)
EXTENDS Configuration, SequencesExt

CONSTANTS
    branch_case_count,  \* 12 in the code
    Rounds,             \* batch_rounds
    Costs,              \* durations of a batch, in units of time
    Second,             \* units of time in a second
    CycleCounts,        \* what the cycle counter may have counted, not 0
    MaxThreads          \* bound: sweeps with more workers are not followed

ASSUME SweepAssumption ==
    /\ branch_case_count \in Nat \ {0} /\ Rounds \in Nat \ {0}
    /\ Costs \subseteq Nat \ {0} /\ Second \in Nat \ {0}
    /\ CycleCounts \subseteq Nat \ {0} /\ MaxThreads \in Nat
    /\ \E longest \in Costs : \A c \in Costs : c <= longest

VARIABLES
    case,       \* index of the case being measured
    routine,    \* where each worker is: "off", "batch" or "done"
    counting,   \* the local variable of branch_tp
    packet,     \* the outputs in the packets
    rows,       \* the rows printed
    peak_rate, peak_per_cycle,
    warning,    \* the cause printed with the warning, "" if none was
    truth       \* history: what each worker did in each case

svars == <<case, routine, counting, packet, rows, peak_rate, peak_per_cycle, warning, truth>>
vars == <<cvars, svars>>

Workers == 1..MaxThreads
Used == 1..config.num_threads

(***************************************************************************)
(* The checks of the main functions.                                       *)
(***************************************************************************)
LatencyMain ==
    /\ type \in LatencyTypes
    /\ stage' = "measure" /\ UNCHANGED <<config, status>>

PeakBandwidthMain ==
    /\ type = "BANDWIDTH"
    /\ config' = [config EXCEPT !.read_write_mix =
                     IF config.bandwidth_matrix /\ @ = 100 THEN 0 ELSE @]
    /\ stage' = "measure" /\ UNCHANGED status

Fragment == IF config.fragment_size = 0 THEN RegionBytes ELSE config.fragment_size

MemcpyMain ==
    /\ type = "MEMCPY"
    /\ \/ /\ Fragment \in 1..RegionBytes
          /\ config' = [config EXCEPT !.fragment_size = Fragment]
          /\ stage' = "measure" /\ UNCHANGED status
       \/ /\ Fragment \notin 1..RegionBytes
          /\ Fail /\ UNCHANGED config

first == IF config.branch_case > 0 THEN config.branch_case - 1 ELSE 0
end == IF config.branch_case > 0 THEN config.branch_case ELSE branch_case_count

BranchMain ==
    /\ type = "BRANCH_THROUGHPUT"
    /\ LET valid == /\ config.num_threads > 0 /\ config.target_duration > 0
                    /\ config.branch_case <= branch_case_count
       IN \/ ~valid /\ Fail /\ UNCHANGED case
          \/ /\ valid /\ config.num_threads <= MaxThreads
             /\ case' = first /\ stage' = "cases" /\ UNCHANGED status
          \/ /\ valid /\ config.num_threads > MaxThreads
             /\ stage' = "measure" /\ UNCHANGED <<case, status>>
    /\ UNCHANGED config

main ==
    /\ stage = "main"
    /\ \/ (LatencyMain \/ PeakBandwidthMain \/ MemcpyMain) /\ UNCHANGED case
       \/ BranchMain
    /\ UNCHANGED <<type, argv, i, seen, routine, counting, packet, rows, peak_rate,
                   peak_per_cycle, warning, truth>>

(***************************************************************************)
(* A case: the packets are prepared, every worker runs branch_tp, and run()*)
(* returns when all have ended (WorkerThreads).                            *)
(***************************************************************************)
PrepareCase ==
    /\ stage = "cases" /\ case < end
    /\ stage' = "running"
    /\ routine' = [t \in Workers |-> IF t \in Used THEN "off" ELSE "done"]
    /\ UNCHANGED <<type, argv, i, seen, config, status, case, counting, packet, rows,
                   peak_rate, peak_per_cycle, warning, truth>>

\* kernels_branch.h: the chains have 8, 32 and 128 branches in turn.
Branches(k) == <<8, 32, 128>>[(k % 3) + 1]
taken_branches(branches, rounds) == IF rounds > 0 THEN rounds * (branches + 1) - 1 ELSE 0

Tell(t, done) == truth' = [truth EXCEPT ![t] = Append(@, done)]

\* Mutant: the duration is not divided by the number of cases.
SampledWhole(time) == time >= config.target_duration * Second

\* sample_duration has passed.
Sampled(time) == time * (end - first) >= config.target_duration * Second

\* CycleCounter() and start(): without the counter there are no cycles.
StartWorker(t) ==
    /\ routine[t] = "off"
    /\ \E ok \in BOOLEAN :
          /\ counting' = [counting EXCEPT ![t] = ok]
          /\ packet' = [packet EXCEPT ![t].finished_branches = 0, ![t].exec_time = 0,
                                      ![t].counter_error = IF ok THEN "" ELSE "errno"]
    /\ routine' = [routine EXCEPT ![t] = "batch"]
    /\ UNCHANGED <<rows, truth>>

\* Mutant: without the counter the packet keeps the cycles of the case before.
StopIfCounting(t, branches, time) ==
    \E n \in CycleCounts, e \in {"", "could not read", "did not run", "multiplexed"} :
       /\ counting[t] \/ e = ""
       /\ packet' = [packet EXCEPT ![t] =
             [finished_branches |-> branches, exec_time |-> time,
              cycles |-> IF ~counting[t] THEN @.cycles ELSE IF e = "" THEN n ELSE 0,
              counter_error |-> IF counting[t] THEN e ELSE @.counter_error]]
       /\ Tell(t, [branches |-> branches, time |-> time,
                   cycles |-> IF counting[t] /\ e = "" THEN n ELSE 0])

\* stop(): only cycles counted all the time are a measurement.
Stop(t, branches, time) ==
    \E n \in CycleCounts, e \in {"", "could not read", "did not run", "multiplexed"} :
       LET counted == IF counting[t] /\ e = "" THEN n ELSE 0
       IN /\ counting[t] \/ e = ""
          /\ packet' = [packet EXCEPT ![t] =
                [finished_branches |-> branches, exec_time |-> time, cycles |-> counted,
                 counter_error |-> IF counting[t] THEN e ELSE @.counter_error]]
          /\ Tell(t, [branches |-> branches, time |-> time, cycles |-> counted])

Batch(t) ==
    /\ routine[t] = "batch"
    /\ \E c \in Costs :
          LET branches == packet[t].finished_branches + taken_branches(Branches(case), Rounds)
              time == packet[t].exec_time + c
          IN \/ /\ Sampled(time)
                /\ Stop(t, branches, time)
                /\ routine' = [routine EXCEPT ![t] = "done"]
             \/ /\ ~Sampled(time)
                /\ packet' = [packet EXCEPT ![t].finished_branches = branches,
                                            ![t].exec_time = time]
                /\ UNCHANGED <<routine, truth>>
    /\ UNCHANGED <<counting, rows>>

branch_tp(t) ==
    /\ stage = "running"
    /\ StartWorker(t) \/ Batch(t)
    /\ UNCHANGED <<cvars, case, peak_rate, peak_per_cycle, warning>>

(***************************************************************************)
(* The rows and maxima.  A quotient of doubles is the pair of its parts.   *)
(***************************************************************************)
Less(q, r) == q[1] * r[2] < r[1] * q[2]
Larger(q, r) == IF Less(q, r) THEN r ELSE q

Rate(t) == <<packet[t].finished_branches, packet[t].exec_time>>
PerCycle(t) == IF packet[t].cycles > 0
               THEN <<packet[t].finished_branches, packet[t].cycles>> ELSE <<0, 1>>
Row(t) == [case |-> case, thread |-> t, rate |-> Rate(t), per_cycle |-> PerCycle(t)]

Uncounted == {t \in Used : packet[t].cycles = 0}

Report ==
    /\ stage = "running" /\ \A t \in Workers : routine[t] = "done"
    /\ rows' = rows \o [t \in Used |-> Row(t)]
    /\ peak_rate' = [t \in Workers |->
                        IF t \in Used THEN Larger(peak_rate[t], Rate(t)) ELSE peak_rate[t]]
    /\ peak_per_cycle' = [t \in Workers |-> IF t \in Used THEN Larger(peak_per_cycle[t], PerCycle(t))
                                            ELSE peak_per_cycle[t]]
    /\ warning' = IF warning = "" /\ Uncounted # {}
                  THEN packet[Min(Uncounted)].counter_error ELSE warning
    /\ case' = case + 1 /\ stage' = "cases"
    /\ UNCHANGED <<type, argv, i, seen, config, status, routine, counting, packet, truth>>

SweepEnd ==
    /\ stage = "cases" /\ case = end
    /\ stage' = "exit" /\ status' = 0
    /\ UNCHANGED <<type, argv, i, seen, config, svars>>

Init ==
    /\ CInit
    /\ case = 0
    /\ routine = [t \in Workers |-> "done"]
    /\ counting = [t \in Workers |-> FALSE]
    /\ packet = [t \in Workers |-> [finished_branches |-> 0, exec_time |-> 0, cycles |-> 0,
                                    counter_error |-> ""]]
    /\ rows = <<>>
    /\ peak_rate = [t \in Workers |-> <<0, 1>>]
    /\ peak_per_cycle = [t \in Workers |-> <<0, 1>>]
    /\ warning = ""
    /\ truth = [t \in Workers |-> <<>>]

Next ==
    \/ parse_options /\ UNCHANGED svars
    \/ main
    \/ PrepareCase
    \/ \E t \in Workers : branch_tp(t)
    \/ Report
    \/ SweepEnd

Spec == Init /\ [][Next]_vars

(***************************************************************************)
(* Properties.                                                             *)
(***************************************************************************)
Swept == type = "BRANCH_THROUGHPUT" /\ status = 0
Selected == IF config.branch_case = 0 THEN branch_case_count ELSE 1

\* The row of worker t in the k-th selected case.
RowOf(k, t) == rows[(k - 1) * config.num_threads + t]

\* The largest quotient of worker t in the rows, <<0, 1>> if all are n/a.
IsBest(q, t, Of(_)) ==
    /\ \A k \in 1..Selected : ~Less(q, Of(RowOf(k, t)))
    /\ q = <<0, 1>> \/ \E k \in 1..Selected : q = Of(RowOf(k, t))

\* A finished sweep has one row per selected case and worker, in order, each with
\* the branches and time of this worker in this case; Br/cycle is there exactly if
\* the counter ran all through the case, and never from another case; the maxima
\* are those of the worker's own rows; and n/a comes with one warning and a cause.
SweepReport ==
    Swept =>
        /\ Len(rows) = Selected * config.num_threads
        /\ \A k \in 1..Selected : \A t \in Used :
              LET did == truth[t][k]
              IN /\ RowOf(k, t).thread = t
                 /\ RowOf(k, t).case = (IF config.branch_case = 0 THEN k ELSE config.branch_case) - 1
                 /\ did.time > 0 /\ RowOf(k, t).rate = <<did.branches, did.time>>
                 /\ RowOf(k, t).per_cycle =
                       IF did.cycles > 0 THEN <<did.branches, did.cycles>> ELSE <<0, 1>>
        /\ \A t \in Used : /\ IsBest(peak_rate[t], t, LAMBDA row : row.rate)
                           /\ IsBest(peak_per_cycle[t], t, LAMBDA row : row.per_cycle)
        /\ (warning # "") <=> \E k \in 1..Len(rows) : rows[k].per_cycle = <<0, 1>>

\* The time worker t has measured for.
Spent(t) ==
    LET sum[k \in 0..Len(truth[t])] == IF k = 0 THEN 0 ELSE sum[k - 1] + truth[t][k].time
    IN sum[Len(truth[t])]

\* README, "-t is the total measurement budget per worker, split equally among
\* selected cases": every worker measures for the budget, and for less than one
\* batch per case beyond it.
SweepLastsTarget ==
    Swept => \A t \in Used :
        LET budget == config.target_duration * Second
        IN budget <= Spent(t) /\ Spent(t) < budget + Selected * Max(Costs)
=============================================================================
