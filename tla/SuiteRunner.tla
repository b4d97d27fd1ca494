---------------------------- MODULE SuiteRunner -----------------------------
(***************************************************************************)
(* scripts/run_cpu_micro.py: the suite runner changes host settings, runs  *)
(* the benchmarks and puts the settings back, while SIGINT and SIGTERM may *)
(* arrive between any two steps.  It has two KernelSettings objects:       *)
(* settings owns path 0, huge_settings the paths 1..NumNodes.              *)
(***************************************************************************)
EXTENDS KernelSettings, Sequences

CONSTANTS
    Args        \* the command lines considered, a subset of ArgsType

Tests == {"idle_latency", "bandwidth", "loaded_latency"}
Signals == {"SIGINT", "SIGTERM"}

ArgsType == [dry_run : BOOLEAN, no_system_config : BOOLEAN,
             hugepages : {"auto", "off", "existing"}, test : SUBSET Tests,
             one_shots : 0..2,      \* --drop-caches, --compact
             no_matrices : BOOLEAN]

ASSUME ArgsAssumption == Args \subseteq ArgsType

VARIABLES
    args,       \* the parsed command line
    stage,      \* where main() is
    huge_size,  \* a huge-page size was found (the size itself is abstracted)
    node,       \* setup_huge_pages: the node it is at
    todo,       \* setup_huge_pages: one-shot writes not yet made
    prefix,     \* main()'s local: benchmarks may run with privilege
    plan,       \* the benchmark commands still to run
    pending,    \* the exception that is leaving the try statement
    warned,     \* the paths named by the warnings of the final restoration
    failed,     \* main()'s local
    handler,    \* what each signal does
    signals,    \* signals delivered so far
    cut,        \* history: a signal ended the finally block before its inner try
    exit        \* exit status, -1 while running

rvars == <<args, stage, huge_size, node, todo, prefix, plan, pending, warned,
           failed, handler, signals, cut, exit>>
vars == <<kvars, rvars>>

Stages == {"validate", "autonuma", "autonuma_set", "autonuma_undo",
           "huge", "huge_prep", "huge_node", "huge_set", "huge_undo", "bench",
           "finally", "finally_term", "restore_huge", "restore_huge_call",
           "restore_settings", "restore_settings_call",
           "handler_int", "handler_term", "verdict", "exit"}

\* The stages inside the try statement: an exception there leads to finally.
TryStages == {"autonuma", "autonuma_set", "autonuma_undo", "huge", "huge_prep",
              "huge_node", "huge_set", "huge_undo", "bench"}

Commands == [name : {"cpu_idle_latency", "cpu_peak_bandwidth", "cpu_memcpy",
                     "cpu_loaded_latency"},
             huge : BOOLEAN, privileged : BOOLEAN]

\* Types of main()'s locals, of its plan of commands and of both KernelSettings.
TypeOK ==
    /\ KTypeOK
    /\ args \in Args
    /\ stage \in Stages
    /\ huge_size \in BOOLEAN
    /\ node \in 1..(NumNodes + 1)
    /\ todo \in 0..2
    /\ prefix \in BOOLEAN
    /\ plan \in Seq(Commands)
    /\ pending \in {"none", "os", "value", "interrupt"}
    /\ warned \in SUBSET Paths
    /\ failed \in BOOLEAN
    /\ handler \in [Signals -> {"raise", "ignore"}]
    /\ signals \in Nat
    /\ cut \in BOOLEAN
    /\ exit \in {-1, 0, 1, 130}

latency_requested == args.test \cap {"idle_latency", "loaded_latency"} # {}

Max2(a, b) == IF a < b THEN b ELSE a

(***************************************************************************)
(* run_tests(): the commands, in order.  run_benchmark() runs a command    *)
(* with privilege only where the last argument passes a prefix.            *)
(***************************************************************************)
Command(name) == [name |-> name, huge |-> FALSE, privileged |-> FALSE]
HugeCommand(name, pre) == [name |-> name, huge |-> TRUE, privileged |-> pre]
If(cond, seq) == IF cond THEN seq ELSE <<>>

run_tests(selected, matrices, huge, pre) ==
    If("idle_latency" \in selected,
       <<Command("cpu_idle_latency")>>
       \o If(huge, <<HugeCommand("cpu_idle_latency", pre)>>))
    \o If("bandwidth" \in selected,
          <<Command("cpu_peak_bandwidth")>>
          \o If(matrices, <<Command("cpu_peak_bandwidth"), Command("cpu_peak_bandwidth")>>)
          \o <<Command("cpu_memcpy"), Command("cpu_memcpy")>>)
    \o If("loaded_latency" \in selected,
          <<Command("cpu_loaded_latency")>>
          \o If(huge, <<HugeCommand("cpu_loaded_latency", pre)>>))

(***************************************************************************)
(* main(): validation.  Nothing is changed before the try statement.       *)
(***************************************************************************)
Goto(s) == stage' = s

\* An exception leaves the body of the try statement.
Raise(e) == Goto("finally") /\ pending' = e

OneShotsAllowed ==
    args.one_shots > 0 => /\ ~args.no_system_config
                          /\ args.hugepages = "auto"
                          /\ latency_requested

Validate ==
    /\ stage = "validate"
    /\ \/ /\ OneShotsAllowed
          /\ Goto("autonuma")
          /\ UNCHANGED exit
       \/ /\ Goto("exit") /\ exit' = 1     \* ValueError or RuntimeError
    /\ UNCHANGED <<kvars, args, huge_size, node, todo, prefix, plan, pending,
                   warned, failed, handler, signals, cut>>

(***************************************************************************)
(* Disable automatic NUMA balancing.                                       *)
(***************************************************************************)
KeepLocals == UNCHANGED <<args, warned, failed, handler, signals, cut, exit>>

\* Dry runs only look for a huge-page size; --no-system-config, or a host
\* without privilege, skips the writes.  check_autonuma() may have found no
\* readable setting.
AutonumaSkip ==
    /\ stage = "autonuma"
    /\ \/ /\ args.dry_run
          /\ \E found \in BOOLEAN :
                huge_size' = (found /\ latency_requested /\ args.hugepages # "off")
          /\ Goto("bench")
          /\ plan' = <<>>
       \/ /\ ~args.dry_run
          /\ Goto("huge")
          /\ UNCHANGED <<huge_size, plan>>
    /\ UNCHANGED <<kvars, node, todo, prefix, pending>> /\ KeepLocals

AutonumaSet ==
    /\ stage = "autonuma"
    /\ ~args.dry_run /\ priv /\ kernel[Autonuma] # 0
    /\ CallSet(Autonuma, 0)
    /\ Goto("autonuma_set")
    /\ UNCHANGED <<huge_size, node, todo, prefix, plan, pending>> /\ KeepLocals

\* The except clause of the call does not name ValueError.
AutonumaSetDone ==
    /\ stage = "autonuma_set" /\ pc = "returned"
    /\ \/ exc = "none" /\ EndCall /\ Goto("huge") /\ UNCHANGED pending
       \/ exc = "os" /\ CallRestore(Autonuma, Autonuma) /\ Goto("autonuma_undo")
                     /\ UNCHANGED pending
       \/ exc = "value" /\ EndCall /\ Raise("value")
    /\ UNCHANGED <<huge_size, node, todo, prefix, plan>> /\ KeepLocals

AutonumaUndoDone ==
    /\ stage = "autonuma_undo" /\ pc = "returned"
    /\ EndCall
    /\ \/ exc = "none" /\ Goto("huge") /\ UNCHANGED pending
       \/ exc # "none" /\ Raise(exc)
    /\ UNCHANGED <<huge_size, node, todo, prefix, plan>> /\ KeepLocals

(***************************************************************************)
(* Provision huge pages, or look for existing ones.                        *)
(***************************************************************************)
RunTests(h, pre) ==
    /\ Goto("bench")
    /\ \E matrices \in {FALSE, ~args.no_matrices} :
          plan' = run_tests(args.test, matrices, h, pre)

HugeSkip ==
    /\ stage = "huge"
    /\ ~(latency_requested /\ args.hugepages = "auto" /\ priv)
    /\ ~(latency_requested /\ args.hugepages = "existing")
    /\ RunTests(FALSE, prefix)
    /\ UNCHANGED <<kvars, huge_size, node, todo, prefix, pending>> /\ KeepLocals

\* Existing mode runs the benchmarks as the caller.
HugeExisting ==
    /\ stage = "huge"
    /\ latency_requested /\ args.hugepages = "existing"
    /\ \/ /\ huge_size' = TRUE /\ prefix' = FALSE
          /\ RunTests(TRUE, FALSE)
          /\ UNCHANGED pending
       \/ /\ Raise("os")
          /\ UNCHANGED <<huge_size, prefix, plan>>
    /\ UNCHANGED <<kvars, node, todo>> /\ KeepLocals

\* setup_huge_pages: no size on all eligible nodes raises RuntimeError.
HugeSetup ==
    /\ stage = "huge"
    /\ latency_requested /\ args.hugepages = "auto" /\ priv
    /\ \/ /\ Eligible # {}
          /\ Goto("huge_prep") /\ todo' = args.one_shots /\ node' = 1
          /\ UNCHANGED kvars
       \/ /\ CallRestore(NumNodes, 1) /\ Goto("huge_undo")
          /\ UNCHANGED <<todo, node>>
    /\ UNCHANGED <<huge_size, prefix, plan, pending>> /\ KeepLocals

\* drop_caches and compact_memory: write() only, nothing is recorded.
HugePrep ==
    /\ stage = "huge_prep"
    /\ \/ /\ todo > 0 /\ todo' = todo - 1
          /\ UNCHANGED <<kvars, stage>>
       \/ /\ todo > 0 /\ CallRestore(NumNodes, 1) /\ Goto("huge_undo")
          /\ UNCHANGED todo
       \/ /\ todo = 0 /\ Goto("huge_node")
          /\ UNCHANGED <<kvars, todo>>
    /\ UNCHANGED <<huge_size, node, prefix, plan, pending>> /\ KeepLocals

HugeNode ==
    /\ stage = "huge_node"
    /\ \/ /\ node \in Eligible
          /\ CallSet(node, Max2(kernel[node], Want))
          /\ Goto("huge_set")
          /\ UNCHANGED <<node, huge_size, plan>>
       \/ /\ node \in Eligible      \* the pool's size cannot be read
          /\ CallRestore(NumNodes, 1) /\ Goto("huge_undo")
          /\ UNCHANGED <<node, huge_size, plan>>
       \/ /\ node \in Nodes \ Eligible
          /\ node' = node + 1
          /\ UNCHANGED <<kvars, stage, huge_size, plan>>
       \/ /\ node > NumNodes
          /\ huge_size' = TRUE
          /\ RunTests(TRUE, prefix)
          /\ UNCHANGED <<kvars, node>>
    /\ UNCHANGED <<todo, prefix, pending>> /\ KeepLocals

HugeSetDone ==
    /\ stage = "huge_set" /\ pc = "returned"
    /\ \/ exc = "none" /\ EndCall /\ Goto("huge_node") /\ node' = node + 1
       \/ exc # "none" /\ CallRestore(NumNodes, 1) /\ Goto("huge_undo") /\ UNCHANGED node
    /\ UNCHANGED <<huge_size, todo, prefix, plan, pending>> /\ KeepLocals

\* Mutant: an undo that failed is only warned about.
HugeUndoDoneWarns ==
    /\ stage = "huge_undo" /\ pc = "returned"
    /\ EndCall
    /\ RunTests(FALSE, prefix) /\ UNCHANGED pending
    /\ UNCHANGED <<huge_size, node, todo, prefix>> /\ KeepLocals

HugeUndoDone ==
    /\ stage = "huge_undo" /\ pc = "returned"
    /\ EndCall
    /\ \/ exc = "none" /\ RunTests(FALSE, prefix) /\ UNCHANGED pending
       \/ exc # "none" /\ Raise(exc) /\ UNCHANGED plan
    /\ UNCHANGED <<huge_size, node, todo, prefix>> /\ KeepLocals

(***************************************************************************)
(* The benchmarks, one child process after the other.                      *)
(***************************************************************************)
run_benchmark ==
    /\ stage = "bench"
    /\ \/ /\ plan # <<>>
          /\ plan' = Tail(plan)
          /\ UNCHANGED <<stage, pending>>
       \/ /\ plan # <<>>            \* CalledProcessError
          /\ Raise("os") /\ UNCHANGED plan
       \/ /\ plan = <<>>
          /\ Goto("finally")
          /\ UNCHANGED <<pending, plan>>
    /\ UNCHANGED <<kvars, huge_size, node, todo, prefix>> /\ KeepLocals

(***************************************************************************)
(* The finally block.                                                      *)
(***************************************************************************)
KeepBody == UNCHANGED <<args, huge_size, node, todo, prefix, plan, signals, cut>>

\* Mutant: SIGINT keeps its handler.
FinallyKeepsInt ==
    /\ stage = "finally"
    /\ Goto(IF args.dry_run THEN "restore_huge" ELSE "finally_term")
    /\ UNCHANGED <<kvars, pending, warned, failed, handler, exit>> /\ KeepBody

Finally ==
    /\ stage = "finally"
    /\ \/ /\ ~args.dry_run
          /\ handler' = [handler EXCEPT !["SIGINT"] = "ignore"]
          /\ Goto("finally_term")
       \/ /\ args.dry_run
          /\ Goto("restore_huge")
          /\ UNCHANGED handler
    /\ UNCHANGED <<kvars, pending, warned, failed, exit>> /\ KeepBody

FinallyTerm ==
    /\ stage = "finally_term"
    /\ handler' = [handler EXCEPT !["SIGTERM"] = "ignore"]
    /\ Goto("restore_huge")
    /\ UNCHANGED <<kvars, pending, warned, failed, exit>> /\ KeepBody

RestoreHuge ==
    /\ stage = "restore_huge"
    /\ CallRestore(NumNodes, 1)
    /\ Goto("restore_huge_call")
    /\ UNCHANGED <<pending, warned, failed, handler, exit>> /\ KeepBody

\* Mutant: the warning does not name the settings.
CollectAnonymous ==
    /\ EndCall
    /\ UNCHANGED warned
    /\ failed' = (failed \/ exc # "none")

\* A failed restore() is warned about, and the next transaction still restored.
Collect ==
    /\ EndCall
    /\ IF exc = "none"
       THEN UNCHANGED <<warned, failed>>
       ELSE warned' = warned \cup errors /\ failed' = TRUE

RestoreHugeDone ==
    /\ stage = "restore_huge_call" /\ pc = "returned"
    /\ Collect
    /\ Goto("restore_settings")
    /\ UNCHANGED <<pending, handler, exit>> /\ KeepBody

RestoreSettings ==
    /\ stage = "restore_settings"
    /\ CallRestore(Autonuma, Autonuma)
    /\ Goto("restore_settings_call")
    /\ UNCHANGED <<pending, warned, failed, handler, exit>> /\ KeepBody

RestoreSettingsDone ==
    /\ stage = "restore_settings_call" /\ pc = "returned"
    /\ Collect
    /\ Goto("handler_int")
    /\ UNCHANGED <<pending, handler, exit>> /\ KeepBody

HandlerInt ==
    /\ stage = "handler_int"
    /\ handler' = [handler EXCEPT !["SIGINT"] = "raise"]
    /\ Goto("handler_term")
    /\ UNCHANGED <<kvars, pending, warned, failed, exit>> /\ KeepBody

HandlerTerm ==
    /\ stage = "handler_term"
    /\ handler' = [handler EXCEPT !["SIGTERM"] = "raise"]
    /\ Goto("verdict")
    /\ UNCHANGED <<kvars, pending, warned, failed, exit>> /\ KeepBody

\* The RuntimeError for failed replaces the pending exception.
ExitStatus ==
    IF failed THEN 1
    ELSE IF pending = "interrupt" THEN 130
    ELSE IF pending = "none" THEN 0 ELSE 1

Verdict ==
    /\ stage = "verdict"
    /\ exit' = ExitStatus
    /\ Goto("exit")
    /\ UNCHANGED <<kvars, pending, warned, failed, handler>> /\ KeepBody

(***************************************************************************)
(* A signal whose handler raises KeyboardInterrupt, between any two steps. *)
(***************************************************************************)
Interrupt(sig) ==
    /\ stage # "exit" /\ handler[sig] = "raise" /\ signals < MaxSignals
    /\ signals' = signals + 1
    /\ \/ /\ stage \in TryStages
          /\ Raise("interrupt") /\ EndCall
          /\ UNCHANGED <<exit, cut>>
       \/ /\ stage \in {"restore_huge", "restore_huge_call",
                        "restore_settings", "restore_settings_call"}
          /\ pending' = "interrupt" /\ Goto("handler_int") /\ EndCall
          /\ UNCHANGED <<exit, cut>>
       \/ /\ stage \in {"validate", "finally", "finally_term",
                        "handler_int", "handler_term", "verdict"}
          /\ Goto("exit") /\ exit' = 130
          /\ cut' = (cut \/ stage \in {"finally", "finally_term"})
          /\ UNCHANGED <<kvars, pending>>
    /\ UNCHANGED <<args, huge_size, node, todo, prefix, plan, warned, failed, handler>>

(***************************************************************************)
(* The specification.                                                      *)
(***************************************************************************)
Init ==
    /\ KInit
    /\ args \in Args
    /\ priv \in {FALSE, ~args.no_system_config /\ ~args.dry_run}
    /\ prefix = priv
    /\ stage = "validate" /\ huge_size = FALSE /\ node = 1 /\ todo = 0
    /\ plan = <<>> /\ pending = "none" /\ warned = {} /\ failed = FALSE
    /\ handler = [s \in Signals |-> "raise"]
    /\ signals = 0 /\ cut = FALSE /\ exit = -1

InCall == (set \/ restore) /\ UNCHANGED rvars

Main ==
    \/ Validate
    \/ AutonumaSkip \/ AutonumaSet \/ AutonumaSetDone \/ AutonumaUndoDone
    \/ HugeSkip \/ HugeExisting \/ HugeSetup \/ HugePrep \/ HugeNode
    \/ HugeSetDone \/ HugeUndoDone
    \/ run_benchmark
    \/ Finally \/ FinallyTerm \/ RestoreHuge \/ RestoreHugeDone
    \/ RestoreSettings \/ RestoreSettingsDone
    \/ HandlerInt \/ HandlerTerm \/ Verdict

Signal == \E sig \in Signals : Interrupt(sig)

Terminated == stage = "exit" /\ UNCHANGED vars

Next == InCall \/ Main \/ Signal \/ Terminated

Spec == Init /\ [][Next]_vars

(***************************************************************************)
(* Python executes main() step by step, reads and writes of settings end   *)
(* (subprocess.run waits for tee), and benchmarks end: each has a watchdog *)
(* of its own.  Signals need not arrive.                                   *)
(***************************************************************************)
Fairness == WF_vars(InCall \/ Main)

FairSpec == Spec /\ Fairness

(***************************************************************************)
(* Properties.                                                             *)
(***************************************************************************)
Unrestored == {p \in Paths : kernel[p] # initial[p]}
Ended == exit # -1

\* Every setting that differs from its value at the start has that value
\* recorded, and no other value is ever recorded: whatever step an exception
\* or a signal interrupts, restore() can still put everything back.
ChangesAreRecorded ==
    \A p \in Paths : /\ kernel[p] # initial[p] => original[p] = initial[p]
                     /\ original[p] \in {Unrecorded, initial[p]}

\* A run that ends, except through a signal in the first two steps of the
\* finally block, has put every setting back or has named it in a warning and
\* ends with a failure status; one transaction or one path that cannot be
\* restored does not keep another from being tried.
UnrestoredIsReported ==
    Ended /\ ~cut => /\ Unrestored \subseteq warned
                     /\ warned # {} => exit # 0

\* Exit status 0 means that every command ran, no signal arrived and the host
\* is as it was.
SuccessMeansClean ==
    exit = 0 => Unrestored = {} /\ signals = 0 /\ plan = <<>>

\* Whenever a benchmark runs, NUMA balancing is off or untouched, and the pools
\* are either all provisioned to the verified size or all as they were: a
\* half-made configuration is never measured.
BenchmarksSeeWholeConfiguration ==
    stage = "bench" /\ plan # <<>> =>
        /\ kernel[Autonuma] \in {0, initial[Autonuma]}
        /\ \A n \in Nodes :
              kernel[n] = IF huge_size /\ args.hugepages = "auto" /\ n \in Eligible
                          THEN Max2(initial[n], Want)
                          ELSE initial[n]

\* Once the inner try of the finally block is entered, no signal makes the
\* runner leave it before both transactions have been restored.
RestorationIsNotInterrupted ==
    [][/\ ~args.dry_run
       /\ stage \in {"restore_huge", "restore_huge_call",
                     "restore_settings", "restore_settings_call"}
       => /\ signals' = signals
          /\ stage' \in {"restore_huge", "restore_huge_call", "restore_settings",
                         "restore_settings_call", "handler_int"}]_vars

\* The runner ends whatever fails and whichever signals arrive.
RunnerEnds == <>Ended

(***************************************************************************)
(* The promise to the host.                                                *)
(***************************************************************************)
TransactionPhase ==
    IF Ended THEN "over"
    ELSE IF stage \in {"finally", "finally_term"} THEN "window"
    ELSE IF stage \in TryStages \cup {"validate"} THEN "changing" ELSE "restoring"

Transaction ==
    INSTANCE HostTransaction WITH
        Settings <- Paths, phase <- TransactionPhase,
        dirty <- Unrestored, named <- warned

\* The runner implements the abstract transaction: it changes settings only
\* inside the try statement, never makes a setting differ once the restoration
\* has begun, and ends after that only with all of them restored or named.
KeepsTransaction == Transaction!Spec

\* README: "It restores settings it changed on normal completion, benchmark
\* failure, Ctrl-C, or SIGTERM" and "reports any settings it could not restore".
RestoresOrReports == Ended => Unrestored \subseteq warned
=============================================================================
