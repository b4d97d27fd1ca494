-------------------------- MODULE TimedLoopProofs ---------------------------
(***************************************************************************)
(* Proofs about TimedLoop, for regions, checkpoints, targets and kernel    *)
(* durations of any size.                                                  *)
(***************************************************************************)
EXTENDS TimedLoop, TLAPS

USE ActivesAssumption, LoopWorkAssumption, ChkptsAssumption, TargetsAssumption, CostsAssumption

\* The length of a pass is a natural number.
LEMMA LoopCountType ==
    ASSUME NEW a \in Nat, NEW w \in Nat \ {0} PROVE a \div w \in Nat
  OBVIOUS

\* Between checkpoints the time added up so far ends where the interval that is
\* running began; the loop is still short of its target, and what is done is
\* behind the checkpoint that is due.
LoopInv ==
    /\ TypeOK
    /\ stage # "exit" => elapsed = begin /\ (elapsed < target \/ target = 0)
    /\ stage = "check" => i < loop_count
    /\ stage = "for" /\ chkpt >= LoopWork => finished <= due
    /\ TimeCoversWork
    /\ EndsAtTarget
    /\ CheckpointsKeepUp

\* Every step of the loop preserves the invariant.
LEMMA LoopStep == LoopInv /\ [Next]_vars => LoopInv'
<1> SUFFICES ASSUME LoopInv, [Next]_vars PROVE LoopInv'
  OBVIOUS
<1>0. loop_count \in Nat /\ active \in Nat /\ chkpt \in Nat /\ target \in Nat
  BY LoopCountType DEF LoopInv, TypeOK, loop_count
<1>a. UNCHANGED active => loop_count' = loop_count
  BY DEF loop_count
<1> USE <1>0, <1>a DEF LoopInv, TypeOK, TimeCoversWork, EndsAtTarget, CheckpointsKeepUp, inputs
<1>1. CASE Kernel
  BY <1>1 DEF Kernel
<1>2. CASE NoCheckpoint
  <2>1. i + 1 \in 0..loop_count
    BY <1>2 DEF NoCheckpoint
  <2> QED
    BY <1>2, <2>1 DEF NoCheckpoint
<1>3. CASE Checkpoint
  <2>1. /\ elapsed' = now /\ previous' = elapsed /\ due' = due + chkpt
        /\ UNCHANGED <<active, chkpt, target, pass, now, finished>>
        /\ elapsed < target \/ target = 0
    BY <1>3 DEF Checkpoint, endTimer
  <2>2. chkpt >= LoopWork => finished <= due'
    BY <1>3, <2>1 DEF Checkpoint
  <2>3. CASE elapsed' >= target /\ stage' = "exit" /\ UNCHANGED <<i, begin>>
    BY <2>1, <2>2, <2>3
  <2>4. CASE elapsed' < target /\ resumeTimer /\ stage' = "for" /\ i' = i + 1
    <3>1. i' \in 0..loop_count /\ begin' = now
      BY <1>3, <2>4 DEF Checkpoint, resumeTimer
    <3> QED
      BY <2>1, <2>2, <2>4, <3>1
  <2> QED
    BY <1>3, <2>3, <2>4 DEF Checkpoint
<1>4. CASE NextPass
  BY <1>4 DEF NextPass
<1>5. CASE UNCHANGED vars
  BY <1>5 DEF vars
<1> QED
  BY <1>1, <1>2, <1>3, <1>4, <1>5 DEF Next

\* The invariant holds whenever the loop is at a step.
LEMMA LoopInvHolds == Spec => []LoopInv
<1>1. Init => LoopInv
  <2> SUFFICES ASSUME Init PROVE LoopInv
    OBVIOUS
  <2>1. loop_count \in Nat /\ target \in Nat /\ chkpt \in Nat
    BY LoopCountType DEF Init, loop_count
  <2> QED
    BY <2>1 DEF Init, LoopInv, TypeOK, TimeCoversWork, EndsAtTarget, CheckpointsKeepUp
<1> QED
  BY <1>1, LoopStep, PTL DEF Spec

\* The variables of the loop keep their types; i stays within the pass.
THEOREM TypeCorrect == Spec => []TypeOK
<1>1. LoopInv => TypeOK
  BY DEF LoopInv
<1> QED
  BY <1>1, LoopInvHolds, PTL

\* The time reported is all the time of the work reported, however many
\* checkpoints there were.
THEOREM TimeIsComplete == Spec => []TimeCoversWork
<1>1. LoopInv => TimeCoversWork
  BY DEF LoopInv
<1> QED
  BY <1>1, LoopInvHolds, PTL

\* The loop ends at the first checkpoint that finds the target reached.
THEOREM EndsOnTarget == Spec => []EndsAtTarget
<1>1. LoopInv => EndsAtTarget
  BY DEF LoopInv
<1> QED
  BY <1>1, LoopInvHolds, PTL

\* With a checkpoint at least a call long, the work done is never more than a
\* call past the checkpoint that is due.
THEOREM ClockIsRead == Spec => []CheckpointsKeepUp
<1>1. LoopInv => CheckpointsKeepUp
  BY DEF LoopInv
<1> QED
  BY <1>1, LoopInvHolds, PTL
=============================================================================
