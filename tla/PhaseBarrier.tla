---------------------------- MODULE PhaseBarrier ----------------------------
(***************************************************************************)
(* What create() and join() of WorkerThreadManager promise a benchmark:    *)
(* in every phase each worker works exactly once, on the inputs of that    *)
(* phase, and no phase begins before all workers have ended the one before *)
(* it.  The program may fail in any phase, but it succeeds only after the  *)
(* last.  WorkerThreads implements this.                                   *)
(***************************************************************************)
EXTENDS Integers

CONSTANTS Workers, LastPhase

VARIABLES
    phase,      \* the current phase
    busy,       \* the workers at work
    done,       \* the workers whose results of this phase are there
    outcome     \* "running", "success", "failure"

bvars == <<phase, busy, done, outcome>>

Init == phase = 0 /\ busy = {} /\ done = {} /\ outcome = "running"

Begin(w) ==
    /\ outcome = "running" /\ w \notin busy \cup done
    /\ busy' = busy \cup {w}
    /\ UNCHANGED <<phase, done, outcome>>

Finish(w) ==
    /\ outcome = "running" /\ w \in busy
    /\ busy' = busy \ {w} /\ done' = done \cup {w}
    /\ UNCHANGED <<phase, outcome>>

Advance ==
    /\ outcome = "running" /\ done = Workers /\ busy = {}
    /\ phase < LastPhase /\ phase' = phase + 1
    /\ done' = {}
    /\ UNCHANGED <<busy, outcome>>

Succeed ==
    /\ outcome = "running" /\ done = Workers /\ phase = LastPhase
    /\ outcome' = "success"
    /\ UNCHANGED <<phase, busy, done>>

Fail ==
    /\ outcome = "running" /\ outcome' = "failure"
    /\ UNCHANGED <<phase, busy, done>>

Next ==
    \/ \E w \in Workers : Begin(w) \/ Finish(w)
    \/ Advance \/ Succeed \/ Fail

Spec == Init /\ [][Next]_bvars
=============================================================================
