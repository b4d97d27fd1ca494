-------------------------- MODULE StatsCollectors ---------------------------
(***************************************************************************)
(* scripts/measure_stats.py: main() starts a counter collector (perf stat) *)
(* for every selected process and mpstat after them, waits for mpstat,     *)
(* prints the reports in order and cleans up what is still running.        *)
(* Collector c is the c-th child started, so the list processes is         *)
(* 1..processes, and mpstat is collector count + 1.                        *)
(***************************************************************************)
EXTENDS Integers

CONSTANTS
    MaxPids,    \* bound: processes selected by --pids or --pgrep
    MaxSignals  \* bound: Ctrl-C in one run

ASSUME MaxPidsAssumption == MaxPids \in Nat \ {0}
ASSUME MaxSignalsAssumption == MaxSignals \in Nat

Collectors == 1..(MaxPids + 1)

VARIABLES
    count,      \* number of counter collectors, 0 until they are selected
    pc,         \* where main() is
    idx,        \* loop variable over reports, and over processes in finally
    processes,  \* length of the list processes
    child,      \* state of each child process
    reaped,     \* children whose return code has been collected
    printed,    \* reports printed
    failed,     \* main()'s local
    result,     \* what main() returns when the finally block is done
    signals,    \* KeyboardInterrupts so far
    cut,        \* history: one of them came before a child was on the list, or
                \* left the finally block
    exit        \* exit status, -1 while running

children == <<child, reaped>>
vars == <<count, pc, idx, processes, child, reaped, printed, failed, result,
          signals, cut, exit>>

Finished == {"ok", "bad"}

\* Types; main() has at most one child per selected process, and mpstat.
TypeOK ==
    /\ count \in 0..MaxPids
    /\ pc \in {"select", "launch", "track", "wait", "report", "terminate", "reap", "exit"}
    /\ idx \in 1..(MaxPids + 2)
    /\ processes \in 0..(count + 1)
    /\ child \in [Collectors -> {"none", "running"} \cup Finished]
    /\ reaped \in SUBSET Collectors
    /\ printed \in 0..count
    /\ failed \in BOOLEAN
    /\ result \in {0, 1, 130}
    /\ signals \in Nat
    /\ cut \in BOOLEAN
    /\ exit \in {-1, 0, 1, 130}

Init ==
    /\ count = 0 /\ pc = "select" /\ idx = 1 /\ processes = 0
    /\ child = [c \in Collectors |-> "none"] /\ reaped = {}
    /\ printed = 0 /\ failed = FALSE /\ result = 0
    /\ signals = 0 /\ cut = FALSE /\ exit = -1

\* A return statement or an exception leads to the finally block.
Leave(status) == pc' = "terminate" /\ idx' = 1 /\ result' = status

(***************************************************************************)
(* get_pids(): a selection, or ValueError.  No selector selects one        *)
(* system-wide collector.                                                  *)
(***************************************************************************)
get_pids ==
    /\ pc = "select"
    /\ \/ /\ count' \in 1..MaxPids
          /\ pc' = "launch"
          /\ UNCHANGED <<idx, result>>
       \/ /\ Leave(1)
          /\ UNCHANGED count
    /\ UNCHANGED <<processes, children, printed, failed, signals, cut, exit>>

(***************************************************************************)
(* Start every collector before waiting for any report.                    *)
(***************************************************************************)
Popen ==
    /\ pc = "launch"
    /\ \/ /\ child' = [child EXCEPT ![processes + 1] = "running"]
          /\ pc' = "track"
          /\ UNCHANGED <<idx, result>>
       \/ /\ Leave(1)       \* OSError
          /\ UNCHANGED child
    /\ UNCHANGED <<count, processes, reaped, printed, failed, signals, cut, exit>>

\* Mutant: one collector too many.
TrackPast ==
    /\ pc = "track"
    /\ processes' = processes + 1
    /\ pc' = IF processes > count THEN "wait" ELSE "launch"
    /\ UNCHANGED <<count, idx, children, printed, failed, result, signals, cut, exit>>

\* Mutant: mpstat is not put on the list.
TrackCountersOnly ==
    /\ pc = "track"
    /\ processes' = IF processes < count THEN processes + 1 ELSE processes
    /\ pc' = IF processes = count THEN "wait" ELSE "launch"
    /\ UNCHANGED <<count, idx, children, printed, failed, result, signals, cut, exit>>

\* processes.append()
Track ==
    /\ pc = "track"
    /\ processes' = processes + 1
    /\ pc' = IF processes = count THEN "wait" ELSE "launch"
    /\ UNCHANGED <<count, idx, children, printed, failed, result, signals, cut, exit>>

(***************************************************************************)
(* Wait for mpstat, then for each report.                                  *)
(***************************************************************************)
WaitMpstat ==
    /\ pc = "wait"
    /\ child[count + 1] \in Finished
    /\ reaped' = reaped \cup {count + 1}
    /\ failed' = (child[count + 1] = "bad")
    /\ pc' = "report" /\ idx' = 1
    /\ UNCHANGED <<count, processes, child, printed, result, signals, cut, exit>>

\* Mutant: the last return code decides.
ReportForgets ==
    /\ pc = "report" /\ idx <= count
    /\ child[idx] \in Finished
    /\ reaped' = reaped \cup {idx}
    /\ printed' = idx
    /\ failed' = (child[idx] = "bad")
    /\ idx' = idx + 1
    /\ UNCHANGED <<count, pc, processes, child, result, signals, cut, exit>>

Report ==
    /\ pc = "report" /\ idx <= count
    /\ child[idx] \in Finished
    /\ reaped' = reaped \cup {idx}
    /\ printed' = idx
    /\ failed' = (failed \/ child[idx] = "bad")
    /\ idx' = idx + 1
    /\ UNCHANGED <<count, pc, processes, child, result, signals, cut, exit>>

Return ==
    /\ pc = "report" /\ idx > count
    /\ Leave(IF failed THEN 1 ELSE 0)
    /\ UNCHANGED <<count, processes, children, printed, failed, signals, cut, exit>>

(***************************************************************************)
(* finally: poll() each child and terminate() those that run, then wait    *)
(* for each, at most two seconds before kill().  A terminated child may    *)
(* still take its time, or ignore the signal.                              *)
(***************************************************************************)
Terminate ==
    /\ pc = "terminate" /\ idx <= processes
    /\ reaped' = IF child[idx] \in Finished THEN reaped \cup {idx} ELSE reaped
    /\ idx' = idx + 1
    /\ UNCHANGED <<count, pc, processes, child, printed, failed, result, signals, cut, exit>>

TerminateDone ==
    /\ pc = "terminate" /\ idx > processes
    /\ pc' = "reap" /\ idx' = 1
    /\ UNCHANGED <<count, processes, children, printed, failed, result, signals, cut, exit>>

Reap ==
    /\ pc = "reap" /\ idx <= processes
    /\ child[idx] \in Finished
    /\ reaped' = reaped \cup {idx}
    /\ idx' = idx + 1
    /\ UNCHANGED <<count, pc, processes, child, printed, failed, result, signals, cut, exit>>

\* Mutant: a plain wait().
KillNever == FALSE /\ UNCHANGED vars

Kill ==
    /\ pc = "reap" /\ idx <= processes
    /\ child[idx] = "running"
    /\ child' = [child EXCEPT ![idx] = "bad"]
    /\ UNCHANGED <<count, pc, idx, processes, reaped, printed, failed, result, signals,
                   cut, exit>>

Exit ==
    /\ pc = "reap" /\ idx > processes
    /\ pc' = "exit" /\ exit' = result
    /\ UNCHANGED <<count, idx, processes, children, printed, failed, result, signals, cut>>

(***************************************************************************)
(* The environment: collectors end, and the user presses Ctrl-C.           *)
(***************************************************************************)
CollectorEnds(c) ==
    /\ child[c] = "running"
    /\ \E code \in Finished : child' = [child EXCEPT ![c] = code]
    /\ UNCHANGED <<count, pc, idx, processes, reaped, printed, failed, result, signals,
                   cut, exit>>

\* In the body of the try statement a KeyboardInterrupt is caught; in the finally
\* block it is not.
KeyboardInterrupt ==
    /\ signals < MaxSignals /\ signals' = signals + 1
    /\ \/ /\ pc \in {"select", "launch", "track", "wait", "report"}
          /\ Leave(130)
          /\ cut' = (cut \/ pc = "track")
          /\ UNCHANGED exit
       \/ /\ pc \in {"terminate", "reap"}
          /\ pc' = "exit" /\ exit' = 130 /\ cut' = TRUE
          /\ UNCHANGED <<idx, result>>
    /\ UNCHANGED <<count, processes, children, printed, failed>>

Main ==
    \/ get_pids \/ Popen \/ Track \/ WaitMpstat \/ Report \/ Return
    \/ Terminate \/ TerminateDone \/ Reap \/ Kill \/ Exit

Next == Main \/ KeyboardInterrupt \/ \E c \in Collectors : CollectorEnds(c)

Spec == Init /\ [][Next]_vars

(***************************************************************************)
(* Python executes main() and a killed child dies.  A collector need not   *)
(* end by itself, and nobody need press Ctrl-C.                            *)
(***************************************************************************)
FairSpec == Spec /\ WF_vars(Main)

(***************************************************************************)
(* Properties.                                                             *)
(***************************************************************************)
Ended == pc = "exit"

\* The run is complete: every collector was started, ended well and was waited
\* for, every report was printed, and nobody pressed Ctrl-C.
Complete ==
    /\ count > 0 /\ processes = count + 1 /\ printed = count /\ signals = 0
    /\ \A c \in 1..(count + 1) : child[c] = "ok" /\ c \in reaped

\* However main() ends, a collector that cannot be started and Ctrl-C included, it
\* leaves no child behind that runs or was not waited for; only a Ctrl-C between
\* Popen() and append(), or in the finally block, can cut the cleanup short.
NoneOutlives ==
    Ended /\ ~cut => \A c \in Collectors : child[c] = "none" \/ c \in reaped

\* The exit status is 0 exactly when the run is complete: no failure of one
\* collector is covered by the success of a later one.
StatusTellsOutcome == Ended => (exit = 0 <=> Complete)

\* The finally block ends even if a collector never ends and ignores SIGTERM.
CleanupEnds == (pc = "terminate") ~> Ended
=============================================================================
