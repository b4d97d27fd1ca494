-------------------------- MODULE NumaMatrixProofs --------------------------
(***************************************************************************)
(* Proofs about NumaMatrix: on which cpus the workers of a cell run, and   *)
(* on the memory of which node a printed cell was measured.                *)
(***************************************************************************)
EXTENDS NumaMatrix, FiniteSetTheorems, TLAPS

USE TopologiesAssumption, ResultsAssumption DEF NODE0, INTERLEAVE, NATIVE

InCell == {"alloc", "warmup", "measure"}

\* Where the loops are at each stage, and what a cell is about to allocate.
PlaceInv ==
    /\ TypeOK
    /\ stage \in {"cell"} \cup InCell =>
          row < topo.nodes /\ node_to_allowed_cpus(row) # <<>>
    /\ stage \in InCell => col < topo.nodes /\ mem_type = NODE0 + col
    /\ stage \in {"warmup", "measure"} => placed = Placement(mem_type)

LEMMA PlaceStep == PlaceInv /\ [Next]_vars => PlaceInv'
<1> SUFFICES ASSUME PlaceInv, [Next]_vars PROVE PlaceInv'
  OBVIOUS
<1>0. /\ topo \in Topologies /\ topo.nodes \in Nat \ {0} /\ topo' = topo
      /\ row \in 0..topo.nodes /\ col \in 0..topo.nodes /\ Nodes' = Nodes
      /\ \A n : node_to_allowed_cpus(n)' = node_to_allowed_cpus(n')
  <2>1. topo' = topo
    BY DEF Next, vars, RowStart, CellStart, Alloc, Warmup, Measure, RowEnd, Finish
  <2> QED
    BY <2>1 DEF PlaceInv, TypeOK, Topology, Nodes, node_to_allowed_cpus, UsableCpus
<1>1. CASE RowStart
  <2>1. /\ stage = "row" /\ row < topo.nodes /\ col' = 0 /\ UNCHANGED <<mem_type, placed, last, slow>>
        /\ \/ row' = row + 1 /\ stage' = "row"
           \/ node_to_allowed_cpus(row) # <<>> /\ stage' = "cell" /\ row' = row
    BY <1>1 DEF RowStart
  <2>2. TypeOK'
    BY <1>0, <2>1 DEF PlaceInv, TypeOK
  <2>3. stage' = "cell" => row' < topo'.nodes /\ (node_to_allowed_cpus(row) # <<>>)'
    BY <1>0, <2>1 DEF node_to_allowed_cpus, UsableCpus
  <2> QED
    BY <2>1, <2>2, <2>3 DEF PlaceInv, InCell
<1>2. CASE CellStart
  BY <1>0, <1>2 DEF CellStart, PlaceInv, TypeOK, InCell, node_to_allowed_cpus, UsableCpus
<1>3. CASE Alloc
  <2>1. Placement(mem_type) \subseteq Nodes
    BY <1>0, <1>3 DEF Alloc, PlaceInv, InCell, Placement, Nodes
  <2>2. Placement(mem_type)' = Placement(mem_type)
    BY <1>0, <1>3 DEF Alloc, Placement
  <2> QED
    BY <1>0, <1>3, <2>1, <2>2 DEF Alloc, PlaceInv, TypeOK, InCell, node_to_allowed_cpus, UsableCpus
<1>4. CASE Warmup
  <2>1. last' \in Nat /\ slow' \subseteq Nodes \X Nodes
    <3>1. last' \in Nat
      BY <1>4 DEF Warmup
    <3>2. <<row, col>> \in Nodes \X Nodes
      BY <1>0, <1>4 DEF Warmup, PlaceInv, InCell, Nodes
    <3> QED
      BY <1>4, <3>1, <3>2 DEF Warmup, PlaceInv, TypeOK
  <2>2. Placement(mem_type)' = Placement(mem_type)
    BY <1>0, <1>4 DEF Warmup, Placement
  <2> QED
    BY <1>0, <1>4, <2>1, <2>2 DEF Warmup, PlaceInv, TypeOK, InCell, node_to_allowed_cpus, UsableCpus
<1>5. CASE Measure
  BY <1>0, <1>5 DEF Measure, PlaceInv, TypeOK, InCell, node_to_allowed_cpus, UsableCpus
<1>6. CASE RowEnd
  BY <1>0, <1>6 DEF RowEnd, PlaceInv, TypeOK, InCell, node_to_allowed_cpus, UsableCpus
<1>7. CASE Finish
  BY <1>0, <1>7 DEF Finish, PlaceInv, TypeOK, InCell, node_to_allowed_cpus, UsableCpus
<1>8. CASE UNCHANGED vars
  BY <1>0, <1>8 DEF vars, PlaceInv, TypeOK, InCell, node_to_allowed_cpus, UsableCpus, Placement
<1> QED
  BY <1>1, <1>2, <1>3, <1>4, <1>5, <1>6, <1>7, <1>8 DEF Next

LEMMA PlaceInvHolds == Spec => []PlaceInv
<1>1. Init => PlaceInv
  BY DEF Init, PlaceInv, TypeOK, InCell, Topology, Nodes
<1> QED
  BY <1>1, PlaceStep, PTL DEF Spec

\* The loops stay on nodes that exist, and so does the memory.
THEOREM TypeCorrect == Spec => []TypeOK
BY PlaceInvHolds, PTL DEF PlaceInv

-----------------------------------------------------------------------------
(***************************************************************************)
(* The printed cells.                                                      *)
(***************************************************************************)
IsSequence(s) == s \in Seq({s[k] : k \in DOMAIN s})

LEMMA AppendElements ==
    ASSUME NEW s, IsSequence(s), NEW e
    PROVE  /\ IsSequence(Append(s, e))
           /\ Len(s) \in Nat /\ DOMAIN s = 1..Len(s)
           /\ Len(Append(s, e)) = Len(s) + 1 /\ DOMAIN Append(s, e) = 1..(Len(s) + 1)
           /\ \A k \in DOMAIN s : Append(s, e)[k] = s[k]
           /\ Append(s, e)[Len(s) + 1] = e
           /\ \A k \in DOMAIN Append(s, e) :
                 \/ k \in DOMAIN s /\ Append(s, e)[k] = s[k]
                 \/ Append(s, e)[k] = e
<1> DEFINE S == {s[k] : k \in DOMAIN s} \cup {e}
<1>1. s \in Seq(S)
  <2>1. s \in Seq({s[k] : k \in DOMAIN s})
    BY DEF IsSequence
  <2> QED
    BY <2>1
<1> DEFINE a == Append(s, e)
<1>2. /\ Len(s) \in Nat /\ DOMAIN s = 1..Len(s)
      /\ a \in Seq(S) /\ Len(a) = Len(s) + 1 /\ DOMAIN a = 1..(Len(s) + 1)
      /\ \A k \in 1..Len(s) : a[k] = s[k]
      /\ a[Len(s) + 1] = e
  BY <1>1
<1> HIDE DEF S, a
<1>3. a \in Seq({a[k] : k \in DOMAIN a})
  BY <1>2
<1> QED
  BY <1>2, <1>3 DEF IsSequence, a

Measured(s) == \A k \in DOMAIN s : s[k].placed = {s[k].col}

CellsInv ==
    /\ IsSequence(line) /\ Measured(line)
    /\ IsSequence(table) /\ \A r \in DOMAIN table : Measured(table[r])

LEMMA CellsStep ==
    ASSUME \A t \in Topologies : t.nodes <= INTERLEAVE - NODE0,
           PlaceInv, CellsInv, [Next]_vars
    PROVE  CellsInv'
<1>1. CASE Measure
  <2>1. Cell.placed = {Cell.col}
    <3>1. col \in Nat /\ col < topo.nodes /\ topo.nodes <= 8 /\ topo.nodes \in Nat
      BY <1>1 DEF Measure, PlaceInv, TypeOK, InCell, Topology
    <3>2. placed = Placement(NODE0 + col)
      BY <1>1 DEF Measure, PlaceInv, InCell
    <3>3. placed = {col}
      BY <3>1, <3>2 DEF Placement
    <3> QED
      BY <3>3 DEF Cell
  <2>2. IsSequence(line') /\ Measured(line')
    <3>1. CASE line' = Append(line, Cell)
      BY <2>1, <3>1, AppendElements DEF CellsInv, Measured
    <3>2. CASE line' = line
      BY <3>2 DEF CellsInv
    <3> QED
      BY <1>1, <3>1, <3>2 DEF Measure
  <2> QED
    BY <1>1, <2>2 DEF Measure, CellsInv
<1>2. CASE RowEnd
  <2>1. IsSequence(table') /\ \A r \in DOMAIN table' : Measured(table'[r])
    <3>1. table' = Append(table, line)
      BY <1>2 DEF RowEnd
    <3>2. \A r \in DOMAIN Append(table, line) :
             (r \in DOMAIN table /\ Append(table, line)[r] = table[r])
             \/ Append(table, line)[r] = line
      BY AppendElements DEF CellsInv
    <3>3. IsSequence(Append(table, line))
      BY AppendElements DEF CellsInv
    <3> QED
      BY <3>1, <3>2, <3>3 DEF CellsInv
  <2> QED
    BY <1>2, <2>1 DEF RowEnd, CellsInv
<1>3. CASE RowStart
  <2>1. IsSequence(<<>>) /\ Measured(<<>>)
    BY DEF IsSequence, Measured
  <2> QED
    BY <1>3, <2>1 DEF RowStart, CellsInv
<1>4. CASE UNCHANGED <<line, table>>
  BY <1>4 DEF CellsInv
<1> QED
  BY <1>1, <1>2, <1>3, <1>4 DEF Next, vars, CellStart, Alloc, Warmup, Finish

\* On a machine whose nodes all have a name in MemType every printed cell was
\* measured on memory of the node of its column.
THEOREM CellsMeasureTheirNode ==
    ASSUME \A t \in Topologies : t.nodes <= INTERLEAVE - NODE0
    PROVE  Spec => []CellMeasuresItsNode
<1>1. Init => CellsInv
  BY DEF Init, CellsInv, IsSequence, Measured
<1>2. CellsInv => CellMeasuresItsNode
  BY DEF CellsInv, CellMeasuresItsNode, Printed, Measured
<1>3. PlaceInv /\ CellsInv /\ [Next]_vars => CellsInv'
  BY CellsStep
<1> QED
  BY <1>1, <1>2, <1>3, PlaceInvHolds, PTL DEF Spec

-----------------------------------------------------------------------------
(***************************************************************************)
(* The cpus of the workers.                                                *)
(***************************************************************************)
\* Every number up to the size of a set is the rank of one of its elements.
LEMMA RanksAreNumbers ==
    ASSUME NEW cpus \in SUBSET Nat, IsFiniteSet(cpus)
    PROVE  /\ Cardinality(cpus) \in Nat
           /\ \A k \in 1..Cardinality(cpus) : \E cpu \in cpus : Rank(cpu, cpus) = k
<1> DEFINE n == Cardinality(cpus)
           upto(cpu) == {c \in cpus : c <= cpu}
           rank == [cpu \in cpus |-> Rank(cpu, cpus)]
<1>1. n \in Nat
  BY FS_CardinalityType
<1>2. \A cpu \in cpus : IsFiniteSet(upto(cpu)) /\ Cardinality(upto(cpu)) \in 1..n
  <2> SUFFICES ASSUME NEW cpu \in cpus
               PROVE  IsFiniteSet(upto(cpu)) /\ Cardinality(upto(cpu)) \in 1..n
    OBVIOUS
  <2>1. upto(cpu) \in SUBSET cpus
    OBVIOUS
  <2>2. IsFiniteSet(upto(cpu)) /\ Cardinality(upto(cpu)) <= n
    BY <2>1, FS_Subset
  <2>3. cpu \in upto(cpu)
    OBVIOUS
  <2>4. Cardinality(upto(cpu)) \in Nat /\ Cardinality(upto(cpu)) # 0
    <3> HIDE DEF upto
    <3>1. Cardinality(upto(cpu)) \in Nat
      BY <2>2, FS_CardinalityType
    <3>2. Cardinality(upto(cpu)) = 0 => upto(cpu) = {}
      BY <2>2, FS_EmptySet
    <3> QED
      BY <2>3, <3>1, <3>2
  <2> HIDE DEF upto
  <2> QED
    BY <1>1, <2>2, <2>4
<1>3. \A c, d \in cpus : c < d => Cardinality(upto(c)) # Cardinality(upto(d))
  <2> SUFFICES ASSUME NEW c \in cpus, NEW d \in cpus, c < d
               PROVE  Cardinality(upto(c)) # Cardinality(upto(d))
    OBVIOUS
  <2>1. c \in Nat /\ d \in Nat /\ \A x \in cpus : x \in Nat
    OBVIOUS
  <2>2. \A x \in cpus : x <= c => x <= d
    BY <2>1
  <2>3. upto(c) \in SUBSET upto(d) /\ d \in upto(d) /\ d \notin upto(c)
    <3>1. upto(c) \in SUBSET upto(d)
      BY <2>2
    <3>2. d <= d /\ ~(d <= c)
      BY <2>1
    <3> QED
      BY <3>1, <3>2
  <2> HIDE DEF upto
  <2> QED
    BY <1>2, <2>3, FS_Subset
<1>4. rank \in Injection(cpus, 1..n)
  <2>1. rank \in [cpus -> 1..n]
    BY <1>2 DEF Rank
  <2>2. \A c, d \in cpus : rank[c] = rank[d] => c = d
    <3> SUFFICES ASSUME NEW c \in cpus, NEW d \in cpus, rank[c] = rank[d]
                 PROVE  c = d
      OBVIOUS
    <3>1. Cardinality(upto(c)) = Cardinality(upto(d))
      BY DEF Rank
    <3>2. ~(c < d) /\ ~(d < c)
      BY <1>3, <3>1
    <3> QED
      BY <3>2
  <2> HIDE DEF rank
  <2> QED
    BY <2>1, <2>2 DEF Injection, IsInjective
<1>5. IsFiniteSet(1..n) /\ Cardinality(1..n) = n
  BY <1>1, FS_Interval
<1>6. rank \in Surjection(cpus, 1..n)
  <2> HIDE DEF rank, n
  <2> QED
    BY <1>4, <1>5, FS_Injection DEF n
<1>7. \A k \in 1..n : \E cpu \in cpus : rank[cpu] = k
  BY <1>6 DEF Surjection
<1> QED
  BY <1>1, <1>7

\* A finite set of cpus becomes a list of its elements without repetition.
LEMMA AscendingList ==
    ASSUME NEW cpus \in SUBSET Nat, IsFiniteSet(cpus)
    PROVE  /\ Ascending(cpus) \in Seq(cpus)
           /\ \A j, k \in DOMAIN Ascending(cpus) : Ascending(cpus)[j] = Ascending(cpus)[k] => j = k
<1> DEFINE n == Cardinality(cpus)
<1>1. /\ n \in Nat
      /\ \A k \in 1..n : Ascending(cpus)[k] \in cpus /\ Rank(Ascending(cpus)[k], cpus) = k
  BY RanksAreNumbers DEF Ascending
<1>2. DOMAIN Ascending(cpus) = 1..n /\ Ascending(cpus) = [k \in 1..n |-> Ascending(cpus)[k]]
  BY DEF Ascending
<1> HIDE DEF n
<1>3. Ascending(cpus) \in [1..n -> cpus]
  BY <1>1, <1>2
<1> QED
  BY <1>1, <1>2, <1>3

LEMMA Binding ==
    ASSUME NEW S, NEW list \in Seq(S), list # <<>>, NEW n \in 1..Len(list),
           \A j, k \in DOMAIN list : list[j] = list[k] => j = k
    PROVE  /\ Bind(n, list) # NoPins
           /\ Image(Bind(n, list)) \subseteq S
           /\ \A s, t \in DOMAIN Bind(n, list) : Bind(n, list)[s] = Bind(n, list)[t] => s = t
<1>1. /\ Len(list) \in Nat \ {0} /\ DOMAIN list = 1..Len(list)
      /\ n \in Nat \ {0} /\ n <= Len(list)
  OBVIOUS
<1> DEFINE pos(t) == IF n = 1 THEN Len(list) \div 4 ELSE t - 1
<1>2. /\ DOMAIN Bind(n, list) = 1..n
      /\ \A t \in 1..n : Bind(n, list)[t] = list[(pos(t) % Len(list)) + 1]
  BY DEF Bind
<1>a. \A a \in Nat, b \in Nat \ {0} : a % b \in 0..(b - 1) /\ (a < b => a % b = a)
  OBVIOUS
<1>b. ASSUME NEW i \in Nat PROVE (i % Len(list)) + 1 \in DOMAIN list
  <2>1. i % Len(list) \in 0..(Len(list) - 1)
    BY <1>1, <1>a
  <2> HIDE DEF pos
  <2> QED
    BY <1>1, <2>1
<1>3. ASSUME NEW t \in 1..n PROVE (pos(t) % Len(list)) + 1 \in DOMAIN list
  <2>1. pos(t) \in Nat
    BY <1>1
  <2> HIDE DEF pos
  <2> QED
    BY <1>b, <2>1
<1>4. n # 1 => \A t \in 1..n : (pos(t) % Len(list)) + 1 = t
  <2> SUFFICES ASSUME n # 1, NEW t \in 1..n
               PROVE  (pos(t) % Len(list)) + 1 = t
    OBVIOUS
  <2>1. pos(t) = t - 1 /\ t - 1 \in Nat /\ t - 1 < Len(list) /\ t \in Int
    BY <1>1
  <2> HIDE DEF pos
  <2>2. (t - 1) % Len(list) = t - 1
    BY <1>1, <1>a, <2>1
  <2> QED
    BY <2>1, <2>2
<1>5. \A s, t \in 1..n : Bind(n, list)[s] = Bind(n, list)[t] => s = t
  <2>1. CASE n = 1
    BY <2>1
  <2>2. CASE n # 1
    <3> HIDE DEF pos
    <3>1. \A t \in 1..n : t \in DOMAIN list /\ Bind(n, list)[t] = list[t]
      BY <1>1, <1>2, <1>4, <2>2
    <3> QED
      BY <3>1
  <2> QED
    BY <2>1, <2>2
<1>6. \A t \in 1..n : Bind(n, list)[t] \in S
  <2>1. \A k \in DOMAIN list : list[k] \in S
    OBVIOUS
  <2> HIDE DEF pos
  <2> QED
    BY <1>2, <1>3, <2>1
<1>7. 1 \in DOMAIN Bind(n, list)
  BY <1>1, <1>2
<1> QED
  BY <1>2, <1>5, <1>6, <1>7 DEF Image, NoPins

PinsInv ==
    /\ stage \in InCell => pins # NoPins /\ Image(pins) \subseteq UsableCpus(row)
    /\ WorkersHaveOwnCpu

LEMMA PinsStep ==
    ASSUME PlaceInv, PinsInv, [Next]_vars
    PROVE  PinsInv'
<1>0. topo' = topo
  BY DEF Next, vars, RowStart, CellStart, Alloc, Warmup, Measure, RowEnd, Finish
<1>1. CASE /\ CellStart /\ UNCHANGED row
           /\ pins' = Bind(CellThreads(row), node_to_allowed_cpus(row))
  <2> DEFINE list == node_to_allowed_cpus(row)
  <2>1. pins' = Bind(CellThreads(row), list) /\ UNCHANGED row
    BY <1>1
  <2>2. row \in 0..(topo.nodes - 1) /\ list # <<>> /\ topo \in Topologies /\ topo.threads \in Nat \ {0}
    BY <1>1 DEF CellStart, PlaceInv, TypeOK, Topology
  <2>3. UsableCpus(row) \in SUBSET Nat /\ IsFiniteSet(UsableCpus(row))
    <3>1. /\ row + 1 \in 1..topo.nodes /\ Len(topo.cpus) = topo.nodes
          /\ topo.cpus \in Seq(SUBSET Nat) /\ IsFiniteSet(topo.cpus[row + 1])
      BY <2>2 DEF Topology
    <3>2. topo.cpus[row + 1] \in SUBSET Nat
      BY <3>1
    <3> QED
      BY <3>1, <3>2, FS_Subset DEF UsableCpus
  <2>4. /\ list \in Seq(UsableCpus(row))
        /\ \A j, k \in DOMAIN list : list[j] = list[k] => j = k
    BY <2>3, AscendingList DEF node_to_allowed_cpus
  <2>5. CellThreads(row) \in 1..Len(list)
    <3> HIDE DEF list
    <3>1. Len(list) \in Nat \ {0}
      BY <2>2, <2>4
    <3> QED
      BY <2>2, <3>1 DEF CellThreads, list
  <2>6. /\ pins' # NoPins /\ Image(pins') \subseteq UsableCpus(row)
        /\ \A s, t \in DOMAIN pins' : pins'[s] = pins'[t] => s = t
    <3> HIDE DEF list
    <3> QED
      BY <2>1, <2>2, <2>4, <2>5, Binding
  <2>7. UsableCpus(row)' = UsableCpus(row)
    BY <1>0, <2>1 DEF UsableCpus
  <2> QED
    BY <2>6, <2>7 DEF PinsInv, WorkersHaveOwnCpu, Image, NoPins
<1>2. CASE UNCHANGED pins /\ (stage' \in InCell => stage \in InCell /\ UNCHANGED row)
  BY <1>0, <1>2 DEF PinsInv, WorkersHaveOwnCpu, UsableCpus, Image, NoPins
<1> QED
  BY <1>1, <1>2 DEF Next, vars, RowStart, CellStart, Alloc, Warmup, Measure, RowEnd, Finish, InCell

LEMMA PinsInvHolds == Spec => []PinsInv
<1>1. Init => PinsInv
  BY DEF Init, PinsInv, InCell, WorkersHaveOwnCpu, NoPins
<1>2. PlaceInv /\ PinsInv /\ [Next]_vars => PinsInv'
  BY PinsStep
<1> QED
  BY <1>1, <1>2, PlaceInvHolds, PTL DEF Spec

\* Whatever the topology and the affinity mask, workers are pinned, and only to
\* cpus of the row's node that the process may use.
THEOREM PinnedToUsableCpus == Spec => []PinnedWhereAllowed
<1>1. PinsInv => PinnedWhereAllowed
  BY DEF PinsInv, PinnedWhereAllowed, InCell, UsableCpus
<1> QED
  BY <1>1, PinsInvHolds, PTL

\* However many workers are asked for, no two of a cell share a cpu.
THEOREM OneWorkerPerCpu == Spec => []WorkersHaveOwnCpu
BY PinsInvHolds, PTL DEF PinsInv

-----------------------------------------------------------------------------
(***************************************************************************)
(* The rows and columns of the matrix.  A loop over the nodes has passed   *)
(* those below its variable; the entry of a node stands at its rank.       *)
(***************************************************************************)
Below(S, n) == {c \in S : c < n}

LEMMA RankBelow ==
    ASSUME NEW S \in SUBSET Nat, IsFiniteSet(S), NEW n \in Nat
    PROVE  /\ Cardinality(Below(S, n)) \in Nat
           /\ \A c \in Below(S, n) : Rank(c, S) \in 1..Cardinality(Below(S, n))
           /\ n \notin S => Below(S, n + 1) = Below(S, n)
           /\ n \in S => /\ Rank(n, S) = Cardinality(Below(S, n)) + 1
                         /\ Cardinality(Below(S, n + 1)) = Cardinality(Below(S, n)) + 1
                         /\ Below(S, n + 1) = Below(S, n) \cup {n}
<1>1. IsFiniteSet(Below(S, n)) /\ Cardinality(Below(S, n)) \in Nat
  <2>1. Below(S, n) \in SUBSET S
    BY DEF Below
  <2> QED
    BY <2>1, FS_Subset, FS_CardinalityType
<1>2. ASSUME NEW c \in Below(S, n) PROVE Rank(c, S) \in 1..Cardinality(Below(S, n))
  <2> DEFINE upto == {d \in S : d <= c}
  <2>1. upto \in SUBSET Below(S, n) /\ c \in upto
    <3>1. c \in S /\ c < n /\ c \in Nat
      BY DEF Below
    <3>2. \A d \in S : d <= c => d < n
      <4> SUFFICES ASSUME NEW d \in S, d <= c PROVE d < n
        OBVIOUS
      <4>1. d \in Nat
        OBVIOUS
      <4> QED
        BY <3>1, <4>1
    <3>3. \A d \in upto : d \in Below(S, n)
      BY <3>2 DEF Below
    <3>4. c <= c
      BY <3>1
    <3> QED
      BY <3>1, <3>3, <3>4
  <2> HIDE DEF upto
  <2>2. IsFiniteSet(upto) /\ Cardinality(upto) <= Cardinality(Below(S, n))
    BY <1>1, <2>1, FS_Subset
  <2>3. Cardinality(upto) \in Nat /\ Cardinality(upto) # 0
    BY <2>1, <2>2, FS_CardinalityType, FS_EmptySet
  <2> QED
    BY <1>1, <2>2, <2>3 DEF Rank, upto
<1>3. n \notin S => Below(S, n + 1) = Below(S, n)
  <2> SUFFICES ASSUME n \notin S PROVE Below(S, n + 1) = Below(S, n)
    OBVIOUS
  <2>1. \A c \in S : c < n + 1 <=> c < n
    <3> SUFFICES ASSUME NEW c \in S PROVE c < n + 1 <=> c < n
      OBVIOUS
    <3>1. c # n /\ c \in Nat
      OBVIOUS
    <3> QED
      BY <3>1
  <2> QED
    BY <2>1 DEF Below
<1>4. ASSUME n \in S
      PROVE  /\ Rank(n, S) = Cardinality(Below(S, n)) + 1
             /\ Cardinality(Below(S, n + 1)) = Cardinality(Below(S, n)) + 1
             /\ Below(S, n + 1) = Below(S, n) \cup {n}
  <2>1. \A c \in S : (c < n + 1 <=> c < n \/ c = n) /\ (c <= n <=> c < n \/ c = n)
    <3> SUFFICES ASSUME NEW c \in S
                 PROVE  (c < n + 1 <=> c < n \/ c = n) /\ (c <= n <=> c < n \/ c = n)
      OBVIOUS
    <3>1. c \in Nat
      OBVIOUS
    <3> QED
      BY <3>1
  <2>2. Below(S, n + 1) = Below(S, n) \cup {n}
    BY <1>4, <2>1 DEF Below
  <2>3. {c \in S : c <= n} = Below(S, n) \cup {n}
    BY <1>4, <2>1 DEF Below
  <2>4. n \notin Below(S, n)
    BY DEF Below
  <2>5. Cardinality(Below(S, n) \cup {n}) = Cardinality(Below(S, n)) + 1
    BY <1>1, <2>4, FS_AddElement
  <2> QED
    BY <2>2, <2>3, <2>5 DEF Rank
<1> QED
  BY <1>1, <1>2, <1>3, <1>4

LEMMA MatrixNodes ==
    ASSUME topo \in Topologies
    PROVE  /\ CpuNodes \in SUBSET Nat /\ IsFiniteSet(CpuNodes)
           /\ MemNodes \in SUBSET Nat /\ IsFiniteSet(MemNodes)
           /\ Below(CpuNodes, topo.nodes) = CpuNodes /\ Below(MemNodes, topo.nodes) = MemNodes
           /\ Below(CpuNodes, 0) = {} /\ Below(MemNodes, 0) = {}
           /\ \A n \in Nodes : n \in CpuNodes <=> node_to_allowed_cpus(n) # <<>>
<1>1. topo.nodes \in Nat /\ Nodes = 0..(topo.nodes - 1)
  BY DEF Topology, Nodes
<1>2. IsFiniteSet(Nodes) /\ Nodes \in SUBSET Nat
  BY <1>1, FS_Interval
<1>3. CpuNodes \in SUBSET Nodes /\ MemNodes \in SUBSET Nodes
  BY DEF CpuNodes, MemNodes
<1>4. IsFiniteSet(CpuNodes) /\ IsFiniteSet(MemNodes)
  BY <1>2, <1>3, FS_Subset
<1>5. ASSUME NEW n \in Nodes PROVE n \in CpuNodes <=> node_to_allowed_cpus(n) # <<>>
  <2>1. n + 1 \in 1..topo.nodes
    BY <1>1
  <2>2. IsFiniteSet(topo.cpus[n + 1])
    BY <2>1
  <2>3. IsFiniteSet(UsableCpus(n))
    BY <2>2, FS_Subset DEF UsableCpus
  <2>4. Cardinality(UsableCpus(n)) \in Nat /\ (Cardinality(UsableCpus(n)) = 0 <=> UsableCpus(n) = {})
    BY <2>3, FS_CardinalityType, FS_EmptySet
  <2>5. DOMAIN node_to_allowed_cpus(n) = 1..Cardinality(UsableCpus(n))
    BY DEF node_to_allowed_cpus, Ascending
  <2>6. node_to_allowed_cpus(n) = <<>> <=> UsableCpus(n) = {}
    <3>1. CASE UsableCpus(n) = {}
      BY <2>4, <3>1 DEF node_to_allowed_cpus, Ascending
    <3>2. CASE UsableCpus(n) # {}
      <4>1. 1 \in DOMAIN node_to_allowed_cpus(n)
        BY <2>4, <2>5, <3>2
      <4> QED
        BY <3>2, <4>1
    <3> QED
      BY <3>1, <3>2
  <2> QED
    BY <2>6 DEF CpuNodes, UsableCpus
<1>6. \A n \in Nodes : n < topo.nodes /\ ~ (n < 0)
  BY <1>1
<1> QED
  BY <1>2, <1>3, <1>4, <1>5, <1>6 DEF Below

\* The cells of row n, in its columns below c; the rows below the row variable.
CellsBelow(l, n, c) ==
    /\ IsSequence(l) /\ Len(l) = Cardinality(Below(Columns(n), c))
    /\ \A d \in Below(Columns(n), c) :
          l[Rank(d, Columns(n))].row = n /\ l[Rank(d, Columns(n))].col = d

RowsBelow(n) ==
    /\ IsSequence(table) /\ Len(table) = Cardinality(Below(CpuNodes, n))
    /\ \A m \in Below(CpuNodes, n) : CellsBelow(table[Rank(m, CpuNodes)], m, topo.nodes)

\* Only cells that were warmed up are slow.
SlowIsPast ==
    \A p \in slow :
        \/ p[1] < row
        \/ /\ p[1] = row /\ stage \in {"cell"} \cup InCell
           /\ p[2] < col \/ (p[2] = col /\ stage = "measure")

MatrixInv ==
    /\ RowsBelow(row)
    /\ stage \in {"cell"} \cup InCell => CellsBelow(line, row, col)
    /\ stage \in InCell => col \in MemNodes
    /\ stage = "measure" => (last = 0 <=> <<row, col>> \in slow)
    /\ stage # "failed" => SlowIsPast
    /\ stage = "done" => row = topo.nodes

\* A row without one of its columns: the others below it keep their rank.
LEMMA WithoutColumn ==
    ASSUME NEW S \in SUBSET Nat, NEW c \in Nat
    PROVE  /\ Below(S \ {c}, c) = Below(S, c)
           /\ \A d \in Below(S, c) : Rank(d, S \ {c}) = Rank(d, S)
<1>1. Below(S \ {c}, c) = Below(S, c)
  BY DEF Below
<1>2. ASSUME NEW d \in Below(S, c) PROVE Rank(d, S \ {c}) = Rank(d, S)
  <2>1. d \in Nat /\ d < c
    BY DEF Below
  <2>2. {x \in S \ {c} : x <= d} = {x \in S : x <= d}
    BY <2>1
  <2> QED
    BY <2>2 DEF Rank
<1> QED
  BY <1>1, <1>2

LEMMA MatrixStep ==
    ASSUME PlaceInv, MatrixInv, [Next]_vars
    PROVE  MatrixInv'
<1>0. /\ topo \in Topologies /\ topo' = topo /\ topo.nodes \in Nat \ {0}
      /\ row \in 0..topo.nodes /\ col \in 0..topo.nodes
      /\ CpuNodes' = CpuNodes /\ MemNodes' = MemNodes
      /\ Nodes = 0..(topo.nodes - 1) /\ PlaceInv'
  <2>1. topo' = topo
    BY DEF Next, vars, RowStart, CellStart, Alloc, Warmup, Measure, RowEnd, Finish
  <2> QED
    BY <2>1, PlaceStep DEF PlaceInv, TypeOK, Topology, Nodes, CpuNodes, MemNodes
<1>c. ASSUME UNCHANGED slow, NEW n PROVE Columns(n)' = Columns(n)
  BY <1>0, <1>c DEF Columns
<1>p. ASSUME NEW p \in slow PROVE p[1] \in Nat /\ p[2] \in Nat
  BY <1>0 DEF PlaceInv, TypeOK
<1>1. ASSUME UNCHANGED <<row, table>>, slow' \in {slow, slow \cup {<<row, col>>}}
      PROVE  RowsBelow(row)'
  <2>1. ASSUME NEW m \in Below(CpuNodes, row)
        PROVE  CellsBelow(table[Rank(m, CpuNodes)], m, topo.nodes)'
    <3>1. m < row /\ m \in Nat
      BY <1>0, MatrixNodes DEF Below
    <3>2. \A d : <<m, d>> \in slow' <=> <<m, d>> \in slow
      BY <1>0, <1>1, <3>1
    <3>3. Columns(m)' = Columns(m)
      BY <1>0, <3>2 DEF Columns
    <3>4. CellsBelow(table[Rank(m, CpuNodes)], m, topo.nodes)
      BY <2>1 DEF MatrixInv, RowsBelow
    <3> QED
      BY <1>0, <1>1, <3>3, <3>4 DEF CellsBelow
  <2> QED
    BY <1>0, <1>1, <2>1 DEF MatrixInv, RowsBelow
<1>2. ASSUME UNCHANGED <<row, col, line, slow>>, CellsBelow(line, row, col)
      PROVE  CellsBelow(line, row, col)'
  BY <1>0, <1>2, <1>c DEF CellsBelow
<1>n. Columns(row) \in SUBSET Nat /\ IsFiniteSet(Columns(row))
  <2>1. Columns(row) \in SUBSET MemNodes
    BY DEF Columns
  <2> QED
    BY <1>0, <2>1, MatrixNodes, FS_Subset
<1>3. CASE RowStart
  <2>1. /\ stage = "row" /\ row < topo.nodes /\ col' = 0 /\ line' = <<>> /\ UNCHANGED <<table, slow>>
        /\ \/ row' = row + 1 /\ stage' = "row" /\ node_to_allowed_cpus(row) = <<>>
           \/ stage' = "cell" /\ row' = row
    BY <1>3 DEF RowStart
  <2>2. RowsBelow(row)'
    <3>1. CASE row' = row
      BY <1>1, <2>1, <3>1
    <3>2. CASE row' = row + 1 /\ node_to_allowed_cpus(row) = <<>>
      <4>1. row \notin CpuNodes
        BY <1>0, <2>1, <3>2, MatrixNodes
      <4>2. Below(CpuNodes, row + 1) = Below(CpuNodes, row)
        BY <1>0, <4>1, MatrixNodes, RankBelow
      <4> QED
        BY <1>0, <1>c, <2>1, <3>2, <4>2 DEF MatrixInv, RowsBelow, CellsBelow
    <3> QED
      BY <2>1, <3>1, <3>2
  <2>3. CellsBelow(line, row, col)'
    <3>1. Below(Columns(row'), 0) = {} /\ Cardinality({}) = 0
      <4>1. Below(MemNodes, 0) = {}
        BY <1>0, MatrixNodes
      <4>2. Below(Columns(row'), 0) = {}
        BY <4>1 DEF Below, Columns
      <4> QED
        BY <4>2, FS_EmptySet
    <3>2. IsSequence(<<>>) /\ Len(<<>>) = 0
      BY DEF IsSequence
    <3>3. Columns(row)' = Columns(row')
      BY <1>0, <2>1 DEF Columns
    <3> QED
      BY <1>0, <2>1, <3>1, <3>2, <3>3 DEF CellsBelow
  <2>4. \A p \in slow : p[1] < row
    BY <2>1 DEF MatrixInv, SlowIsPast, InCell
  <2>5. SlowIsPast'
    BY <1>0, <1>p, <2>1, <2>4 DEF SlowIsPast
  <2> QED
    BY <2>1, <2>2, <2>3, <2>5 DEF MatrixInv, InCell
<1>4. CASE CellStart
  <2>1. stage = "cell" /\ col < topo.nodes /\ col \in Nodes /\ UNCHANGED <<row, line, table, slow>>
    BY <1>0, <1>4 DEF CellStart
  <2>a. \A p \in slow : p[1] < row \/ (p[1] = row /\ p[2] < col)
    BY <2>1 DEF MatrixInv, SlowIsPast
  <2>2. CASE topo.mem[col + 1] < MinMem /\ col' = col + 1 /\ UNCHANGED stage
    <3>1. col \notin Columns(row)
      <4>1. topo.mem[col + 1] \in Nat
        <5>1. Len(topo.mem) = topo.nodes /\ topo.mem \in Seq(Nat) /\ col + 1 \in 1..topo.nodes
          BY <1>0, <2>1 DEF Topology
        <5> QED
          BY <5>1
      <4> QED
        BY <2>2, <4>1, MinMemAssumption DEF MemNodes, Columns
    <3>2. Below(Columns(row), col + 1) = Below(Columns(row), col)
      BY <1>0, <1>n, <3>1, RankBelow
    <3>3. CellsBelow(line, row, col)'
      BY <1>0, <1>c, <2>1, <2>2, <3>2 DEF MatrixInv, CellsBelow
    <3>4. SlowIsPast'
      BY <1>0, <1>p, <2>1, <2>a, <2>2 DEF SlowIsPast, InCell
    <3> QED
      BY <1>1, <2>1, <2>2, <3>3, <3>4 DEF MatrixInv, InCell
  <2>3. CASE topo.mem[col + 1] >= MinMem /\ stage' = "alloc" /\ UNCHANGED col
    <3>1. col \in MemNodes'
      BY <1>0, <2>1, <2>3 DEF MemNodes
    <3>2. SlowIsPast'
      BY <2>1, <2>a, <2>3 DEF SlowIsPast, InCell
    <3> QED
      BY <1>1, <1>2, <2>1, <2>3, <3>1, <3>2 DEF MatrixInv, InCell
  <2> QED
    BY <1>4, <2>2, <2>3 DEF CellStart
<1>5. CASE Alloc
  <2>1. stage' # "failed" => SlowIsPast'
    BY <1>5 DEF Alloc, MatrixInv, SlowIsPast, InCell
  <2> QED
    BY <1>0, <1>1, <1>2, <1>5, <2>1 DEF Alloc, MatrixInv, InCell
<1>6. CASE Warmup
  <2>1. /\ stage = "warmup" /\ stage' = "measure" /\ UNCHANGED <<row, col, line, table>>
        /\ slow' = IF last' = 0 THEN slow \cup {<<row, col>>} ELSE slow
        /\ CellsBelow(line, row, col) /\ col \in MemNodes
    BY <1>6 DEF Warmup, MatrixInv, InCell
  <2>2. \A p \in slow : p[1] < row \/ (p[1] = row /\ p[2] < col)
    BY <2>1 DEF MatrixInv, SlowIsPast
  <2>3. <<row, col>> \notin slow
    BY <1>0, <2>2
  <2>4. SlowIsPast'
    BY <2>1, <2>2 DEF SlowIsPast, InCell
  <2>5. CellsBelow(line, row, col)'
    <3>1. CASE slow' = slow
      BY <1>2, <2>1, <3>1
    <3>2. CASE slow' = slow \cup {<<row, col>>}
      <4>1. Columns(row)' = Columns(row) \ {col}
        BY <1>0, <2>1, <3>2 DEF Columns
      <4>2. /\ Below(Columns(row)', col) = Below(Columns(row), col)
            /\ \A d \in Below(Columns(row), col) : Rank(d, Columns(row)') = Rank(d, Columns(row))
        <5>1. col \in Nat
          BY <1>0
        <5>2. /\ Below(Columns(row) \ {col}, col) = Below(Columns(row), col)
              /\ \A d \in Below(Columns(row), col) :
                    Rank(d, Columns(row) \ {col}) = Rank(d, Columns(row))
          BY <1>n, <5>1, WithoutColumn
        <5> QED
          BY <4>1, <5>2
      <4> QED
        BY <2>1, <4>2 DEF CellsBelow
    <3> QED
      BY <2>1, <3>1, <3>2
  <2>6. RowsBelow(row)'
    BY <1>1, <2>1
  <2>7. last' = 0 <=> <<row, col>> \in slow'
    BY <2>1, <2>3
  <2> QED
    BY <1>0, <2>1, <2>4, <2>5, <2>6, <2>7 DEF MatrixInv, InCell
<1>7. CASE Measure
  <2>1. /\ stage = "measure" /\ line' = (IF last > 0 THEN Append(line, Cell) ELSE line)
        /\ stage' = "cell" /\ col' = col + 1 /\ UNCHANGED <<row, table, slow>>
        /\ col \in MemNodes /\ CellsBelow(line, row, col)
        /\ last = 0 <=> <<row, col>> \in slow
    BY <1>7 DEF Measure, MatrixInv, InCell
  <2>2. last > 0 <=> col \in Columns(row)
    <3>1. last \in Nat
      BY DEF PlaceInv, TypeOK
    <3> QED
      BY <2>1, <3>1 DEF Columns
  <2>3. ASSUME last > 0 PROVE CellsBelow(line, row, col)'
    <3>1. /\ Cardinality(Below(Columns(row), col)) \in Nat
          /\ \A c \in Below(Columns(row), col) :
                Rank(c, Columns(row)) \in 1..Cardinality(Below(Columns(row), col))
          /\ Rank(col, Columns(row)) = Cardinality(Below(Columns(row), col)) + 1
          /\ Cardinality(Below(Columns(row), col + 1)) = Cardinality(Below(Columns(row), col)) + 1
          /\ Below(Columns(row), col + 1) = Below(Columns(row), col) \cup {col}
      BY <1>0, <1>n, <2>2, <2>3, RankBelow
    <3>2. Cell.row = row /\ Cell.col = col
      BY DEF Cell
    <3> DEFINE l == Append(line, Cell)
    <3>3. /\ IsSequence(l) /\ Len(l) = Len(line) + 1 /\ DOMAIN line = 1..Len(line)
          /\ \A k \in DOMAIN line : l[k] = line[k]
          /\ l[Len(line) + 1] = Cell
      BY <2>1, AppendElements DEF CellsBelow
    <3> HIDE DEF l
    <3>4. CellsBelow(l, row, col + 1)
      BY <2>1, <3>1, <3>2, <3>3 DEF CellsBelow
    <3> QED
      BY <1>c, <2>1, <2>3, <3>4 DEF CellsBelow, l
  <2>4. ASSUME ~(last > 0) PROVE CellsBelow(line, row, col)'
    <3>1. Below(Columns(row), col + 1) = Below(Columns(row), col)
      BY <1>0, <1>n, <2>2, <2>4, RankBelow
    <3> QED
      BY <1>c, <2>1, <2>4, <3>1 DEF CellsBelow
  <2>5. SlowIsPast'
    <3>0. SlowIsPast
      BY <2>1 DEF MatrixInv
    <3>1. \A p \in slow : p[1] < row \/ (p[1] = row /\ p[2] <= col)
      <4> SUFFICES ASSUME NEW p \in slow PROVE p[1] < row \/ (p[1] = row /\ p[2] <= col)
        OBVIOUS
      <4>1. p[2] \in Nat /\ col \in Nat
        BY <1>0, <1>p
      <4> QED
        BY <3>0, <4>1 DEF SlowIsPast
    <3> QED
      BY <1>0, <1>p, <2>1, <3>1 DEF SlowIsPast, InCell
  <2> QED
    BY <1>1, <2>1, <2>3, <2>4, <2>5 DEF MatrixInv, InCell
<1>8. CASE RowEnd
  <2>1. /\ stage = "cell" /\ col = topo.nodes /\ table' = Append(table, line)
        /\ stage' = "row" /\ row' = row + 1 /\ UNCHANGED slow
        /\ CellsBelow(line, row, topo.nodes) /\ RowsBelow(row)
        /\ row < topo.nodes /\ node_to_allowed_cpus(row) # <<>>
    BY <1>8 DEF RowEnd, MatrixInv, PlaceInv
  <2>2. row \in CpuNodes
    BY <1>0, <2>1, MatrixNodes
  <2>3. /\ Cardinality(Below(CpuNodes, row)) \in Nat
        /\ \A c \in Below(CpuNodes, row) : Rank(c, CpuNodes) \in 1..Cardinality(Below(CpuNodes, row))
        /\ Rank(row, CpuNodes) = Cardinality(Below(CpuNodes, row)) + 1
        /\ Cardinality(Below(CpuNodes, row + 1)) = Cardinality(Below(CpuNodes, row)) + 1
        /\ Below(CpuNodes, row + 1) = Below(CpuNodes, row) \cup {row}
    BY <1>0, <2>2, MatrixNodes, RankBelow
  <2> DEFINE t == Append(table, line)
  <2>4. /\ IsSequence(t) /\ Len(t) = Len(table) + 1 /\ DOMAIN table = 1..Len(table)
        /\ \A k \in DOMAIN table : t[k] = table[k]
        /\ t[Len(table) + 1] = line
    BY <2>1, AppendElements DEF RowsBelow
  <2> HIDE DEF t
  <2>5. \A m \in Below(CpuNodes, row + 1) : CellsBelow(t[Rank(m, CpuNodes)], m, topo.nodes)
    BY <2>1, <2>3, <2>4 DEF RowsBelow
  <2>6. RowsBelow(row)'
    BY <1>0, <1>c, <2>1, <2>3, <2>4, <2>5 DEF RowsBelow, CellsBelow, t
  <2>7. SlowIsPast'
    BY <1>0, <1>p, <2>1 DEF MatrixInv, SlowIsPast
  <2> QED
    BY <2>1, <2>6, <2>7 DEF MatrixInv, InCell
<1>9. CASE Finish
  <2>1. SlowIsPast'
    BY <1>9 DEF Finish, MatrixInv, SlowIsPast, InCell
  <2> QED
    BY <1>0, <1>1, <1>9, <2>1 DEF Finish, MatrixInv, InCell
<1>10. CASE UNCHANGED vars
  <2>1. SlowIsPast' <=> SlowIsPast
    BY <1>10 DEF vars, SlowIsPast
  <2> QED
    BY <1>0, <1>1, <1>2, <1>10, <2>1 DEF vars, MatrixInv, InCell
<1> QED
  BY <1>3, <1>4, <1>5, <1>6, <1>7, <1>8, <1>9, <1>10 DEF Next

\* The list of a set of nodes holds every node at its rank.
LEMMA AscendingRanks ==
    ASSUME NEW S \in SUBSET Nat, IsFiniteSet(S)
    PROVE  /\ DOMAIN Ascending(S) = 1..Cardinality(S)
           /\ \A k \in 1..Cardinality(S) :
                 Ascending(S)[k] \in S /\ Rank(Ascending(S)[k], S) = k
  BY RanksAreNumbers DEF Ascending

LEMMA CompleteRow ==
    ASSUME topo \in Topologies, NEW l, NEW n, CellsBelow(l, n, topo.nodes)
    PROVE  [k \in DOMAIN l |-> <<l[k].row, l[k].col>>]
           = [k \in DOMAIN Ascending(Columns(n)) |-> <<n, Ascending(Columns(n))[k]>>]
<1> DEFINE S == Columns(n)
<1>1. S \in SUBSET Nat /\ IsFiniteSet(S) /\ Below(S, topo.nodes) = S
  <2>1. MemNodes \in SUBSET Nat /\ IsFiniteSet(MemNodes) /\ Below(MemNodes, topo.nodes) = MemNodes
    BY MatrixNodes
  <2>2. S \in SUBSET MemNodes
    BY DEF Columns
  <2>3. Below(S, topo.nodes) = S
    BY <2>1, <2>2 DEF Below
  <2> QED
    BY <2>1, <2>2, <2>3, FS_Subset
<1>2. DOMAIN l = 1..Cardinality(S)
  BY <1>1 DEF CellsBelow, IsSequence
<1>3. /\ DOMAIN Ascending(S) = 1..Cardinality(S)
      /\ \A k \in 1..Cardinality(S) : Ascending(S)[k] \in S /\ Rank(Ascending(S)[k], S) = k
  BY <1>1, AscendingRanks
<1>4. \A k \in 1..Cardinality(S) : l[k].row = n /\ l[k].col = Ascending(S)[k]
  BY <1>1, <1>3 DEF CellsBelow
<1> HIDE DEF S
<1>5. [k \in DOMAIN l |-> <<l[k].row, l[k].col>>] = [k \in DOMAIN Ascending(S) |-> <<n, Ascending(S)[k]>>]
  BY <1>2, <1>3, <1>4
<1> QED
  BY <1>5 DEF S

LEMMA CompleteTable ==
    ASSUME topo \in Topologies, RowsBelow(topo.nodes)
    PROVE  [r \in DOMAIN table |-> [k \in DOMAIN table[r] |->
                                        <<table[r][k].row, table[r][k].col>>]]
            = [r \in DOMAIN Ascending(CpuNodes) |->
                 [k \in DOMAIN Ascending(Columns(Ascending(CpuNodes)[r])) |->
                     <<Ascending(CpuNodes)[r], Ascending(Columns(Ascending(CpuNodes)[r]))[k]>>]]
<1>1. CpuNodes \in SUBSET Nat /\ IsFiniteSet(CpuNodes) /\ Below(CpuNodes, topo.nodes) = CpuNodes
  BY MatrixNodes
<1>2. DOMAIN table = 1..Cardinality(CpuNodes)
  BY <1>1 DEF RowsBelow, IsSequence
<1>3. /\ DOMAIN Ascending(CpuNodes) = 1..Cardinality(CpuNodes)
      /\ \A k \in 1..Cardinality(CpuNodes) :
            Ascending(CpuNodes)[k] \in CpuNodes /\ Rank(Ascending(CpuNodes)[k], CpuNodes) = k
  BY <1>1, AscendingRanks
<1>4. \A r \in 1..Cardinality(CpuNodes) : CellsBelow(table[r], Ascending(CpuNodes)[r], topo.nodes)
  BY <1>1, <1>3 DEF RowsBelow
<1>5. ASSUME NEW r \in 1..Cardinality(CpuNodes)
      PROVE  [k \in DOMAIN table[r] |-> <<table[r][k].row, table[r][k].col>>]
             = [k \in DOMAIN Ascending(Columns(Ascending(CpuNodes)[r])) |->
                   <<Ascending(CpuNodes)[r], Ascending(Columns(Ascending(CpuNodes)[r]))[k]>>]
  BY <1>4, CompleteRow
<1> QED
  BY <1>2, <1>3, <1>5

\* A finished matrix has a row for every node with usable cpus and in it a cell
\* for every node with enough memory, in order, except the cells whose warm-up
\* was truncated to 0.
THEOREM MatrixComplete == Spec => []MatrixIsComplete
<1>1. Init => MatrixInv
  <2> SUFFICES ASSUME Init PROVE MatrixInv
    OBVIOUS
  <2>1. topo \in Topologies /\ stage = "row" /\ row = 0 /\ table = <<>> /\ slow = {}
    BY DEF Init
  <2>2. Below(CpuNodes, 0) = {} /\ Cardinality({}) = 0
    BY <2>1, MatrixNodes, FS_EmptySet
  <2>3. IsSequence(<<>>) /\ Len(<<>>) = 0
    BY DEF IsSequence
  <2> QED
    BY <2>1, <2>2, <2>3 DEF MatrixInv, InCell, RowsBelow, SlowIsPast
<1>2. PlaceInv /\ MatrixInv /\ [Next]_vars => MatrixInv'
  BY MatrixStep
<1>3. PlaceInv /\ MatrixInv => MatrixIsComplete
  <2> SUFFICES ASSUME PlaceInv, MatrixInv, stage = "done" PROVE MatrixIsComplete
    BY DEF MatrixIsComplete
  <2>1. topo \in Topologies /\ RowsBelow(topo.nodes)
    BY DEF PlaceInv, TypeOK, MatrixInv
  <2> QED
    BY <2>1, CompleteTable, Zenon DEF MatrixIsComplete
<1> QED
  BY <1>1, <1>2, <1>3, PlaceInvHolds, PTL DEF Spec
=============================================================================
