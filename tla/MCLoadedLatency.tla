-------------------------- MODULE MCLoadedLatency ---------------------------
(* Instances of LoadedLatency for TLC. *)
EXTENDS LoadedLatency

MCMixes == 0..3

\* The sweep; the smallest delays; a delay listed, between two, past the last.
MCDelays == {0, 1, 2, 4, 5, 20, 40, 56, 256, 320, 1280, 2048, 5000}

\* Below and above the 1 GB/s that truncation makes 0.
MCBandwidths == {5, 120}
=============================================================================
