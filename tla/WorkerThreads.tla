--------------------------- MODULE WorkerThreads ----------------------------
(***************************************************************************)
(* common/worker_thread_manager.h: WorkerThreadManager, together with the  *)
(* drivers that use it (measure_idle_latency and its siblings) and the     *)
(* worker routines.                                                        *)
(*                                                                         *)
(* A program is a sequence of phases: phase 0 allocates a memory region    *)
(* per worker, phase 1 is the warm-up, later phases are measurements.  In  *)
(* every phase main() writes the packets, sets the routines, calls         *)
(* create() and join() and reads the results from the packets.  Nothing    *)
(* but create() and join() orders the accesses of main() and the workers   *)
(* to a packet.                                                            *)
(*                                                                         *)
(* Time is kept relative: left is what remains until join()'s deadline,    *)
(* age[t] how long worker t has been running.                              *)
(***************************************************************************)
EXTENDS Integers

CONSTANTS
    NumThreads,     \* num_threads_
    NumPhases,      \* phases of the program, the allocation included
    Duration,       \* Duration[p]: the longest time a worker needs in phase p
    Timeouts        \* values MM_MEM_JOIN_TIMEOUT_S may have, 0 = no watchdog

ASSUME NumThreadsAssumption == NumThreads \in Nat
ASSUME NumPhasesAssumption == NumPhases \in Nat \ {0}
ASSUME DurationAssumption == Duration \in [0..(NumPhases - 1) -> Nat]
ASSUME TimeoutsAssumption == Timeouts \subseteq Nat

Threads == 1..NumThreads
PhaseIds == 0..(NumPhases - 1)
NoPhase == -1

VARIABLES
    timeout,    \* joinTimeoutSec_()
    phase,      \* the phase main() is in
    mpc,        \* where main() is
    idx,        \* loop variable i of create() and join()
    failed,     \* create(): threads that could not be started
    stuck,      \* join(): threads that did not finish
    created,    \* created_
    routine,    \* start_routines_: the phase a thread's routine belongs to
    worker,     \* state of the thread behind workers_[i]
    input,      \* packet: the phase its inputs were written for
    output,     \* packet: the phase its results belong to
    region,     \* packet: mem_region is allocated
    age,        \* time a running worker has run in this phase
    left,       \* time until the deadline of join()
    exit        \* why the process ended

packets == <<input, output, region>>
vars == <<timeout, phase, mpc, idx, failed, stuck, created, routine, worker,
          input, output, region, age, left, exit>>

\* A worker that is "hung" makes no progress (its cpu is owned by another
\* busy thread); "none" and "joined" threads do not run.
Live == {"running", "hung", "done"}

\* Types of the manager, its threads, the packets and the clock; main() never
\* goes past the last phase and the loops of create() and join() never past the
\* last thread.
TypeOK ==
    /\ timeout \in Timeouts
    /\ phase \in PhaseIds
    /\ mpc \in {"prepare", "create", "join", "collect", "exit"}
    /\ idx \in 1..(NumThreads + 1)
    /\ failed \in Nat
    /\ stuck \in Nat
    /\ created \in [Threads -> BOOLEAN]
    /\ routine \in [Threads -> PhaseIds \cup {NoPhase}]
    /\ worker \in [Threads -> Live \cup {"none", "joined"}]
    /\ input \in [Threads -> PhaseIds \cup {NoPhase}]
    /\ output \in [Threads -> PhaseIds \cup {NoPhase}]
    /\ region \in [Threads -> BOOLEAN]
    /\ age \in [Threads -> Nat]
    /\ left \in Nat
    /\ exit \in {"running", "ok", "create_failed", "stuck", "alloc_failed"}

Init ==
    /\ timeout \in Timeouts
    /\ phase = 0 /\ mpc = "prepare" /\ idx = 1 /\ failed = 0 /\ stuck = 0
    /\ created = [t \in Threads |-> FALSE]
    /\ routine = [t \in Threads |-> NoPhase]
    /\ worker = [t \in Threads |-> "none"]
    /\ input = [t \in Threads |-> NoPhase]
    /\ output = [t \in Threads |-> NoPhase]
    /\ region = [t \in Threads |-> FALSE]
    /\ age = [t \in Threads |-> 0]
    /\ left = 0
    /\ exit = "running"

Exit(why) == mpc' = "exit" /\ exit' = why

(***************************************************************************)
(* main(): write the packets and set the routine of every thread.          *)
(***************************************************************************)
Prepare ==
    /\ mpc = "prepare"
    /\ input' = [t \in Threads |-> phase]
    /\ routine' = [t \in Threads |-> phase]
    /\ mpc' = "create" /\ idx' = 1 /\ failed' = 0
    /\ UNCHANGED <<timeout, phase, stuck, created, worker, output, region, age, left, exit>>

(***************************************************************************)
(* create(): one iteration of the loop, and its end.                       *)
(***************************************************************************)
\* Mutant: the return code of pthread_create is ignored.
CreateIgnoresFailure ==
    /\ mpc = "create" /\ idx <= NumThreads
    /\ idx' = idx + 1
    /\ created' = [created EXCEPT ![idx] = TRUE]
    /\ \/ /\ worker' = [worker EXCEPT ![idx] = "running"]
          /\ age' = [age EXCEPT ![idx] = 0]
       \/ UNCHANGED <<worker, age>>
    /\ UNCHANGED <<timeout, phase, mpc, failed, stuck, routine, input, output, region,
                   left, exit>>

Create ==
    /\ mpc = "create" /\ idx <= NumThreads
    /\ idx' = idx + 1
    /\ \/ /\ routine[idx] # NoPhase                   \* pthread_create succeeds
          /\ created' = [created EXCEPT ![idx] = TRUE]
          /\ worker' = [worker EXCEPT ![idx] = "running"]
          /\ age' = [age EXCEPT ![idx] = 0]
          /\ UNCHANGED failed
       \/ /\ created' = [created EXCEPT ![idx] = FALSE]     \* it fails
          /\ failed' = IF routine[idx] # NoPhase THEN failed + 1 ELSE failed
          /\ UNCHANGED <<worker, age>>
    /\ UNCHANGED <<timeout, phase, mpc, stuck, routine, input, output, region, left, exit>>

\* Mutant: a thread that could not be started is only reported.
CreateDoneGoesOn ==
    /\ mpc = "create" /\ idx > NumThreads
    /\ mpc' = "join" /\ idx' = 1 /\ stuck' = 0 /\ left' = timeout
    /\ UNCHANGED <<timeout, phase, failed, created, routine, worker, input, output,
                   region, age, exit>>

\* Mutant: the deadline is computed once, for the first join().
CreateDoneOldDeadline ==
    /\ mpc = "create" /\ idx > NumThreads
    /\ IF failed > 0
       THEN Exit("create_failed") /\ UNCHANGED <<idx, stuck, left>>
       ELSE /\ mpc' = "join" /\ idx' = 1 /\ stuck' = 0
            /\ left' = IF phase = 0 THEN timeout ELSE left
            /\ UNCHANGED exit
    /\ UNCHANGED <<timeout, phase, failed, created, routine, worker, input, output,
                   region, age>>

\* The end of create() and the start of join(), which computes the deadline.
CreateDone ==
    /\ mpc = "create" /\ idx > NumThreads
    /\ \/ /\ failed > 0
          /\ Exit("create_failed")
          /\ UNCHANGED <<idx, stuck, left>>
       \/ /\ failed = 0
          /\ mpc' = "join" /\ idx' = 1 /\ stuck' = 0 /\ left' = timeout
          /\ UNCHANGED exit
    /\ UNCHANGED <<timeout, phase, failed, created, routine, worker, input, output,
                   region, age>>

(***************************************************************************)
(* join(): one iteration of the loop, and its end.  A thread that has      *)
(* ended is joined even after the deadline; with a watchdog a thread that  *)
(* has not is counted as stuck once the deadline, shared by all threads,   *)
(* has passed, and the loop goes on.                                       *)
(***************************************************************************)
\* Mutant: a plain join, whatever the timeout.
TimedOutNever(t) == FALSE

TimedOut(t) == timeout > 0 /\ left = 0 /\ worker[t] \in {"running", "hung"}

\* Mutant: without an answer at the deadline the thread is given up silently.
JoinForgets ==
    /\ mpc = "join" /\ idx <= NumThreads
    /\ idx' = idx + 1
    /\ \/ /\ created[idx] /\ worker[idx] = "done"
          /\ worker' = [worker EXCEPT ![idx] = "joined"]
       \/ /\ created[idx] /\ TimedOut(idx)
          /\ UNCHANGED worker
    /\ UNCHANGED <<timeout, phase, mpc, failed, stuck, created, routine, input, output,
                   region, age, left, exit>>

Join ==
    /\ mpc = "join" /\ idx <= NumThreads
    /\ idx' = idx + 1
    /\ IF ~created[idx]
       THEN UNCHANGED <<worker, stuck>>
       ELSE \/ /\ worker[idx] = "done"
               /\ worker' = [worker EXCEPT ![idx] = "joined"]
               /\ UNCHANGED stuck
            \/ /\ TimedOut(idx)
               /\ stuck' = stuck + 1
               /\ UNCHANGED worker
    /\ UNCHANGED <<timeout, phase, mpc, failed, created, routine, input, output,
                   region, age, left, exit>>

JoinDone ==
    /\ mpc = "join" /\ idx > NumThreads
    /\ \/ stuck > 0 /\ Exit("stuck")
       \/ stuck = 0 /\ mpc' = "collect" /\ UNCHANGED exit
    /\ UNCHANGED <<timeout, phase, idx, failed, stuck, created, routine, worker, input,
                   output, region, age, left>>

(***************************************************************************)
(* main(): read the results, then go on to the next phase or return 0.     *)
(***************************************************************************)
\* Mutant: one phase too many.
CollectPastEnd ==
    /\ mpc = "collect"
    /\ phase' = phase + 1 /\ mpc' = "prepare"
    /\ UNCHANGED <<timeout, idx, failed, stuck, created, routine, worker, input, output,
                   region, age, left, exit>>

Collect ==
    /\ mpc = "collect"
    /\ \/ /\ phase < NumPhases - 1
          /\ phase' = phase + 1 /\ mpc' = "prepare"
          /\ UNCHANGED exit
       \/ /\ phase = NumPhases - 1
          /\ Exit("ok")
          /\ UNCHANGED phase
    /\ UNCHANGED <<timeout, idx, failed, stuck, created, routine, worker, input, output,
                   region, age, left>>

(***************************************************************************)
(* The workers.  A routine works on its packet from its start to its end.  *)
(***************************************************************************)
Finish(t) ==
    /\ mpc # "exit" /\ worker[t] = "running"
    /\ worker' = [worker EXCEPT ![t] = "done"]
    /\ output' = [output EXCEPT ![t] = input[t]]
    /\ region' = [region EXCEPT ![t] = region[t] \/ routine[t] = 0]
    /\ UNCHANGED <<timeout, phase, mpc, idx, failed, stuck, created, routine, input,
                   age, left, exit>>

\* Mutant: error_ only returns, and so does the routine, without a region.
AllocationFailsUnnoticed(t) ==
    /\ mpc # "exit" /\ worker[t] = "running" /\ routine[t] = 0
    /\ worker' = [worker EXCEPT ![t] = "done"]
    /\ output' = [output EXCEPT ![t] = input[t]]
    /\ UNCHANGED <<timeout, phase, mpc, idx, failed, stuck, created, routine, input,
                   region, age, left, exit>>

\* MemRegion::error_ ends the process from the worker thread.
AllocationFails(t) ==
    /\ mpc # "exit" /\ worker[t] = "running" /\ routine[t] = 0
    /\ Exit("alloc_failed")
    /\ UNCHANGED <<timeout, phase, idx, failed, stuck, created, routine, worker, input,
                   output, region, age, left>>

\* The environment: the scheduler starves the thread, which makes no progress
\* any more.
Hang(t) ==
    /\ mpc # "exit" /\ worker[t] = "running"
    /\ worker' = [worker EXCEPT ![t] = "hung"]
    /\ UNCHANGED <<timeout, phase, mpc, idx, failed, stuck, created, routine, input,
                   output, region, age, left, exit>>

(***************************************************************************)
(* The environment: time passes; a worker that is not hung ends within its *)
(* duration.                                                               *)
(***************************************************************************)
Tick ==
    /\ mpc # "exit"
    /\ \A t \in Threads : worker[t] = "running" => age[t] < Duration[phase]
    /\ left > 0 \/ \E t \in Threads : worker[t] = "running"
    /\ age' = [t \in Threads |-> IF worker[t] = "running" THEN age[t] + 1 ELSE age[t]]
    /\ left' = IF left > 0 THEN left - 1 ELSE 0
    /\ UNCHANGED <<timeout, phase, mpc, idx, failed, stuck, created, routine, worker,
                   input, output, region, exit>>

Main == Prepare \/ Create \/ CreateDone \/ Join \/ JoinDone \/ Collect

Worker(t) == Finish(t) \/ AllocationFails(t) \/ Hang(t)

Next == Main \/ Tick \/ \E t \in Threads : Worker(t)

Spec == Init /\ [][Next]_vars

(***************************************************************************)
(* main() runs, time passes, and a running worker ends or hangs: no worker *)
(* is assumed to finish.                                                   *)
(***************************************************************************)
Fairness ==
    /\ WF_vars(Main) /\ WF_vars(Tick)
    /\ \A t \in Threads : WF_vars(Worker(t))

FairSpec == Spec /\ Fairness

(***************************************************************************)
(* Properties.                                                             *)
(***************************************************************************)

\* main() writes and reads the packets only while no worker runs, so the
\* unsynchronised accesses of main() and the workers never overlap.
NoPacketRace ==
    mpc \in {"prepare", "collect"} => \A t \in Threads : worker[t] \notin Live

\* The results main() reads in a phase were all produced in that phase.
ResultsAreFresh ==
    mpc = "collect" => \A t \in Threads : output[t] = phase

\* join() waits only for a thread that was started in this phase and has not
\* been joined yet: workers_[i] is never a stale or an unset handle.
JoinsValidHandle ==
    mpc = "join" /\ idx <= NumThreads /\ created[idx] => worker[idx] \in Live

\* A routine that measures finds the region that phase 0 allocated.
RegionBeforeUse ==
    \A t \in Threads : worker[t] = "running" /\ routine[t] > 0 => region[t]

\* A phase in which every thread makes progress is ended only if its routine needs
\* as long as the watchdog waits.
StuckHasACause == (\E t \in Threads : worker[t] = "hung") \/ Duration[phase] >= timeout

\* When the watchdog ends the process some thread was given up, and every thread
\* that was makes no progress or had the whole timeout to run, however late its
\* phase began and however long the loop waited for the threads before it.  No
\* watchdog ends a shorter phase (with the default of 300 s, one of -t 300 it may).
StuckHadTheTimeout ==
    exit = "stuck" =>
        /\ \E t \in Threads : worker[t] # "joined"
        /\ \A t \in Threads : worker[t] \in {"joined", "hung"} \/ age[t] >= timeout
        /\ StuckHasACause

(***************************************************************************)
(* The promise to the benchmarks.                                          *)
(***************************************************************************)
Busy == {t \in Threads : worker[t] \in {"running", "hung"}}
Delivered == {t \in Threads : output[t] = phase}
Outcome == IF exit = "running" THEN "running" ELSE IF exit = "ok" THEN "success" ELSE "failure"

Barrier == INSTANCE PhaseBarrier
           WITH Workers <- Threads, LastPhase <- NumPhases - 1,
                busy <- Busy, done <- Delivered, outcome <- Outcome

\* create() and join() implement the abstract barrier: a worker works once per
\* phase, on that phase's inputs, and no phase overlaps the next.
KeepsBarrier == Barrier!Spec

\* With a watchdog the process ends even if workers hang.
WatchdogEnds == timeout > 0 => <>(mpc = "exit")
=============================================================================
