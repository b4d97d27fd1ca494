---------------------------- MODULE MCNumaMatrix ----------------------------
(* Machines for TLC. *)
EXTENDS NumaMatrix

\* Three nodes and three cpus, in all ways: nodes without cpus, nodes with too
\* little memory, cpus outside the affinity mask.
Machines ==
    [nodes : {3},
     cpus : {[n \in 1..3 |-> {c \in 0..2 : home[c] = n}] : home \in [0..2 -> 1..3]},
     allowed : SUBSET (0..2),
     mem : [1..3 -> {0, 2}],
     threads : {1, 3}]

\* Node 1 has no memory of its own.
GapMachine ==
    {[nodes |-> 3, cpus |-> <<{0}, {1}, {2}>>, allowed |-> {0, 1, 2},
      mem |-> <<4, 0, 4>>, threads |-> 1]}

\* A result below one printed unit, and one above.
AnyResults == {5, 15}

FastResults == {15}
=============================================================================
