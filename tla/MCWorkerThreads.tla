-------------------------- MODULE MCWorkerThreads ---------------------------
(* Instances of WorkerThreads for TLC: allocation, warm-up, measurement. *)
EXTENDS WorkerThreads

\* The allocation takes one time unit, the warm-up two, the measurement four.
MCDuration == [p \in 0..2 |-> CASE p = 0 -> 1 [] p = 1 -> 2 [] p = 2 -> 4]

\* No watchdog, or one longer than the warm-up and shorter than the measurement.
MCTimeouts == {0, 3}

=============================================================================
