----------------------------- MODULE TimedLoop ------------------------------
(***************************************************************************)
(* The measuring loop of the workers (lat_ptr, bw_sequential and           *)
(* copy_fragment; branch_tp is the instance with a checkpoint after every  *)
(* batch) with the Timer of common/timing.h.                               *)
(*                                                                         *)
(* A kernel call does work units of work (256 chases, 8 KiB, one copy) and *)
(* takes any time in Costs, preemption included.  A pass over the region   *)
(* makes loop_count calls.  At a checkpoint the timer adds the time since  *)
(* the previous one, and the loop ends when the target is reached.         *)
(***************************************************************************)
EXTENDS Integers

CONSTANTS
    Actives,    \* active sizes of the region, in units of work
    LoopWork,   \* work of a kernel call (loop_chases, loop_bytes)
    Chkpts,     \* work between two checkpoints, any value (0: after each call)
    Targets,    \* target durations
    Costs       \* durations of a kernel call

ASSUME ActivesAssumption == Actives \subseteq Nat
ASSUME LoopWorkAssumption == LoopWork \in Nat \ {0}
ASSUME ChkptsAssumption == Chkpts \subseteq Nat
ASSUME TargetsAssumption == Targets \subseteq Nat
ASSUME CostsAssumption == Costs \subseteq Nat \ {0}

VARIABLES
    active, chkpt, target,      \* the packet's inputs
    stage,      \* "for", "check" (the call has ended), "exit"
    i,          \* loop variable of the pass
    pass,       \* parity of the passes begun
    now,        \* steady_clock, 0 when startTimer() was called
    begin,      \* time_point_begin_
    elapsed,    \* elapsed_time_ns_
    finished,   \* work done (finished_chases, finished_bytes)
    due,        \* next_chkpt_chases, next_chkpt_bytes, next_chkpt_calls
    previous    \* history: elapsed before the last checkpoint

vars == <<active, chkpt, target, stage, i, pass, now, begin, elapsed, finished,
          due, previous>>
inputs == <<active, chkpt, target>>

loop_count == active \div LoopWork

\* Types; the loop variable of a pass never exceeds loop_count.
TypeOK ==
    /\ active \in Actives /\ chkpt \in Chkpts /\ target \in Targets
    /\ stage \in {"for", "check", "exit"}
    /\ i \in 0..loop_count /\ pass \in {0, 1}
    /\ now \in Nat /\ begin \in Nat /\ elapsed \in Nat
    /\ finished \in Nat /\ due \in Nat /\ previous \in Nat

Init ==
    /\ active \in Actives /\ chkpt \in Chkpts /\ target \in Targets
    /\ stage = "for" /\ i = 0 /\ pass = 0
    /\ now = 0 /\ begin = 0 /\ elapsed = 0 /\ finished = 0
    /\ due = chkpt /\ previous = 0

Kernel ==
    /\ stage = "for" /\ i < loop_count
    /\ \E c \in Costs : now' = now + c
    /\ finished' = finished + LoopWork
    /\ stage' = "check"
    /\ UNCHANGED <<inputs, i, pass, begin, elapsed, due, previous>>

(***************************************************************************)
(* endTimer() and resumeTimer() of the Timer.                              *)
(***************************************************************************)
endTimer == elapsed' = elapsed + (now - begin)

\* Mutant: the new interval begins where the old one began.
resumeTimerNot == UNCHANGED begin

resumeTimer == begin' = now

NoCheckpoint ==
    /\ stage = "check" /\ finished <= due
    /\ stage' = "for" /\ i' = i + 1
    /\ UNCHANGED <<inputs, pass, now, begin, elapsed, finished, due, previous>>

\* Mutant: the loop goes on past the target.
CheckpointLate ==
    /\ stage = "check" /\ finished > due
    /\ endTimer
    /\ due' = due + chkpt
    /\ previous' = elapsed
    /\ \/ /\ elapsed >= target
          /\ stage' = "exit"
          /\ UNCHANGED <<i, begin>>
       \/ /\ elapsed < target
          /\ resumeTimer
          /\ stage' = "for" /\ i' = i + 1
    /\ UNCHANGED <<inputs, pass, now, finished>>

\* Mutant: the next checkpoint is not set.
CheckpointStaysDue ==
    /\ stage = "check" /\ finished > due
    /\ endTimer
    /\ previous' = elapsed
    /\ \/ /\ elapsed' >= target
          /\ stage' = "exit"
          /\ UNCHANGED <<i, begin>>
       \/ /\ elapsed' < target
          /\ resumeTimer
          /\ stage' = "for" /\ i' = i + 1
    /\ UNCHANGED <<inputs, pass, now, finished, due>>

Checkpoint ==
    /\ stage = "check" /\ finished > due
    /\ endTimer
    /\ due' = due + chkpt
    /\ previous' = elapsed
    /\ \/ /\ elapsed' >= target
          /\ stage' = "exit"
          /\ UNCHANGED <<i, begin>>
       \/ /\ elapsed' < target
          /\ resumeTimer
          /\ stage' = "for" /\ i' = i + 1
    /\ UNCHANGED <<inputs, pass, now, finished>>

\* Mutant: the loop variable is not reset.
NextPassKeepsIndex ==
    /\ stage = "for" /\ i = loop_count
    /\ pass' = 1 - pass
    /\ UNCHANGED <<inputs, stage, i, now, begin, elapsed, finished, due, previous>>

\* The pass is over: start again at the beginning of the region.
NextPass ==
    /\ stage = "for" /\ i = loop_count
    /\ i' = 0 /\ pass' = 1 - pass
    /\ UNCHANGED <<inputs, stage, now, begin, elapsed, finished, due, previous>>

Next == Kernel \/ NoCheckpoint \/ Checkpoint \/ NextPass

Spec == Init /\ [][Next]_vars

\* The worker's thread is scheduled.
FairSpec == Spec /\ WF_vars(Next)

(***************************************************************************)
(* Properties.                                                             *)
(***************************************************************************)

\* The reported time is the whole time from startTimer() to the end of the last
\* call: nothing is lost or counted twice at a checkpoint, so time and work
\* belong together.
TimeCoversWork ==
    stage = "exit" => elapsed = now

\* The loop ends at the first checkpoint at or after the target.
EndsAtTarget ==
    stage = "exit" => elapsed >= target /\ (previous < target \/ target = 0)

\* At most one checkpoint's work is done between two looks at the clock: a call
\* never leaves the loop more than a call behind the checkpoint that is due.
CheckpointsKeepUp ==
    chkpt >= LoopWork => finished <= due + LoopWork

\* The loop ends; the region must hold the work of a call.
LoopEnds == <>(stage = "exit")
=============================================================================
