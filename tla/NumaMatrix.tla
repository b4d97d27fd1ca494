----------------------------- MODULE NumaMatrix -----------------------------
(***************************************************************************)
(* cpu_micro/cpu_idle_latency.cc and cpu_peak_bandwidth.cc: setup_and_run  *)
(* in matrix mode.  For every pair of a cpu node and a memory node it      *)
(* builds a WorkerThreadManager, lets the workers allocate their regions   *)
(* under a NUMA policy, warms up, measures and prints a cell.              *)
(***************************************************************************)
EXTENDS Integers, Sequences, FiniteSets

CONSTANTS
    Topologies,     \* the machines considered, a subset of Topology
    MinMem,         \* GiB a node needs to be measured: 1 (latency), 2 (bandwidth)
    Results         \* what a measurement may return, in tenths of the printed unit

Topology == [nodes : Nat \ {0},             \* num_numa_nodes
             cpus : Seq(SUBSET Nat),        \* cpus[n+1]: the cpus of node n
             allowed : SUBSET Nat,          \* numa_all_cpus_ptr
             mem : Seq(Nat),                \* mem[n+1]: GiB of node n
             threads : Nat \ {0}]           \* config.num_threads

\* MemType
NATIVE == 0
NODE0 == 1
INTERLEAVE == 9

ASSUME TopologiesAssumption ==
    \A t \in Topologies : /\ t \in Topology
                          /\ Len(t.cpus) = t.nodes /\ Len(t.mem) = t.nodes
                          /\ \A n \in 1..t.nodes : IsFiniteSet(t.cpus[n])
ASSUME MinMemAssumption == MinMem \in Nat
ASSUME ResultsAssumption == Results \subseteq Nat

VARIABLES
    topo,       \* the machine, as NumaConfig finds it
    stage,      \* where setup_and_run is
    row, col,   \* its loop variables i and j
    pins,       \* bound_cpu_ of the manager of this cell
    mem_type,   \* packet: where the regions are to be allocated
    placed,     \* the nodes the pages of the regions may lie on
    last,       \* result of the warm-up, truncated to the printed unit
    slow,       \* history: the cells whose warm-up took less than one unit
    line,       \* cells printed on the current row
    table       \* the rows printed before

vars == <<topo, stage, row, col, pins, mem_type, placed, last, slow, line, table>>

Nodes == 0..(topo.nodes - 1)
NoPins == <<>>

(***************************************************************************)
(* NumaConfig: node_to_allowed_cpus, in ascending order: entry k is the    *)
(* cpu that has k - 1 smaller ones.                                        *)
(***************************************************************************)
Rank(cpu, cpus) == Cardinality({c \in cpus : c <= cpu})
Ascending(cpus) ==
    [k \in 1..Cardinality(cpus) |-> CHOOSE cpu \in cpus : Rank(cpu, cpus) = k]

\* Mutant: the raw topology.
RawCpus(n) == Ascending(topo.cpus[n + 1])

UsableCpus(n) == topo.cpus[n + 1] \cap topo.allowed
node_to_allowed_cpus(n) == Ascending(UsableCpus(n))

(***************************************************************************)
(* WorkerThreadManager's constructor: thread t runs on one cpu of the      *)
(* list; a single thread takes the one a quarter into it.                  *)
(***************************************************************************)
Bind(num_threads, cpu_core_id) ==
    [t \in 1..num_threads |->
        LET i == IF num_threads = 1 THEN Len(cpu_core_id) \div 4 ELSE t - 1
        IN  cpu_core_id[(i % Len(cpu_core_id)) + 1]]

\* Mutant: config.num_threads workers whatever the node has.
AllThreads(n) == topo.threads

\* A node never gets more workers than it has cpus for.
CellThreads(n) ==
    LET node_cpu_count == Len(node_to_allowed_cpus(n))
    IN  IF topo.threads < node_cpu_count THEN topo.threads ELSE node_cpu_count

Init ==
    /\ topo \in Topologies
    /\ stage = "row" /\ row = 0 /\ col = 0
    /\ pins = NoPins /\ mem_type = NATIVE /\ placed = {} /\ last = 0 /\ slow = {}
    /\ line = <<>> /\ table = <<>>

RowStart ==
    /\ stage = "row" /\ row < topo.nodes
    /\ \/ /\ node_to_allowed_cpus(row) = <<>>
          /\ row' = row + 1
          /\ UNCHANGED stage
       \/ /\ node_to_allowed_cpus(row) # <<>>
          /\ stage' = "cell"
          /\ UNCHANGED row
    /\ col' = 0 /\ line' = <<>>
    /\ UNCHANGED <<topo, pins, mem_type, placed, last, slow, table>>

CellStart ==
    /\ stage = "cell" /\ col < topo.nodes
    /\ \/ /\ topo.mem[col + 1] < MinMem
          /\ col' = col + 1
          /\ UNCHANGED <<stage, pins, mem_type>>
       \/ /\ topo.mem[col + 1] >= MinMem
          /\ pins' = Bind(CellThreads(row), node_to_allowed_cpus(row))
          /\ mem_type' = NODE0 + col
          /\ stage' = "alloc"
          /\ UNCHANGED col
    /\ UNCHANGED <<topo, row, placed, last, slow, line, table>>

(***************************************************************************)
(* MemRegion::allocNative_, in every worker: MPOL_BIND to one node,        *)
(* MPOL_INTERLEAVE over all, or the policy of the host.                    *)
(***************************************************************************)
\* Mutant: node numbers start at one.
PlacementShifted(type) ==
    IF NODE0 <= type /\ type < INTERLEAVE THEN {type} ELSE Nodes

Placement(type) ==
    IF NODE0 <= type /\ type < INTERLEAVE THEN {type - NODE0} ELSE Nodes

\* set_mempolicy or the allocation may fail: the process ends with status 1.
Alloc ==
    /\ stage = "alloc"
    /\ \/ stage' = "warmup" /\ placed' = Placement(mem_type)
       \/ stage' = "failed" /\ UNCHANGED placed
    /\ UNCHANGED <<topo, row, col, pins, mem_type, last, slow, line, table>>

\* The warm-up is not printed; static_cast<uint32_t> drops the fraction.
Warmup ==
    /\ stage = "warmup"
    /\ \E r \in Results : last' = r \div 10
    /\ slow' = IF last' = 0 THEN slow \cup {<<row, col>>} ELSE slow
    /\ stage' = "measure"
    /\ UNCHANGED <<topo, row, col, pins, mem_type, placed, line, table>>

Cell == [row |-> row, col |-> col, pins |-> pins, placed |-> placed]

\* Mutant: the cell is printed for the warm-up as well.
MeasureTwice ==
    /\ stage = "measure"
    /\ line' = line \o <<Cell, Cell>>
    /\ stage' = "cell" /\ col' = col + 1
    /\ UNCHANGED <<topo, row, pins, mem_type, placed, last, slow, table>>

\* A result of 0 makes the measurement look like another warm-up.
Measure ==
    /\ stage = "measure"
    /\ line' = IF last > 0 THEN Append(line, Cell) ELSE line
    /\ stage' = "cell" /\ col' = col + 1
    /\ UNCHANGED <<topo, row, pins, mem_type, placed, last, slow, table>>

RowEnd ==
    /\ stage = "cell" /\ col = topo.nodes
    /\ table' = Append(table, line)
    /\ stage' = "row" /\ row' = row + 1
    /\ UNCHANGED <<topo, col, pins, mem_type, placed, last, slow, line>>

Finish ==
    /\ stage = "row" /\ row = topo.nodes
    /\ stage' = "done"
    /\ UNCHANGED <<topo, row, col, pins, mem_type, placed, last, slow, line, table>>

Next == RowStart \/ CellStart \/ Alloc \/ Warmup \/ Measure \/ RowEnd \/ Finish

Spec == Init /\ [][Next]_vars

(***************************************************************************)
(* Properties.                                                             *)
(***************************************************************************)
\* Types; memory is bound to nodes that exist, or interleaved.
TypeOK ==
    /\ topo \in Topologies
    /\ stage \in {"row", "cell", "alloc", "warmup", "measure", "done", "failed"}
    /\ row \in 0..topo.nodes /\ col \in 0..topo.nodes
    /\ mem_type \in NATIVE..(NODE0 + topo.nodes)
    /\ placed \subseteq Nodes /\ last \in Nat /\ slow \subseteq Nodes \X Nodes

Printed == {line[k] : k \in DOMAIN line}
           \cup UNION {{table[r][k] : k \in DOMAIN table[r]} : r \in DOMAIN table}

Image(f) == {f[x] : x \in DOMAIN f}

\* Workers run only on cpus of the row's node that the process may use: a
\* worker pinned elsewhere may never be scheduled and join() would hang.
PinnedWhereAllowed ==
    stage \in {"alloc", "warmup", "measure"} =>
        /\ pins # NoPins
        /\ Image(pins) \subseteq topo.cpus[row + 1] \cap topo.allowed

\* No two workers of a cell share a cpu.
WorkersHaveOwnCpu ==
    \A s, t \in DOMAIN pins : pins[s] = pins[t] => s = t

\* A printed cell was measured on memory of the node it stands for.
CellMeasuresItsNode ==
    \A c \in Printed : c.placed = {c.col}

\* The nodes the matrix has rows and columns for.
CpuNodes == {n \in Nodes : topo.cpus[n + 1] \cap topo.allowed # {}}
MemNodes == {n \in Nodes : topo.mem[n + 1] >= MinMem}

\* The columns a row has a cell for.
Columns(n) == {c \in MemNodes : <<n, c>> \notin slow}

\* A finished matrix has a row for every usable cpu node and in it one cell for
\* every large enough memory node, in order: a warm-up truncated to 0, which
\* last_measured_bw_gbps > 0 takes for no warm-up, costs the cell it was for
\* and no other.
MatrixIsComplete ==
    stage = "done" =>
        LET rows == Ascending(CpuNodes)
            cols(n) == Ascending(Columns(n))
        IN  [r \in DOMAIN table |-> [k \in DOMAIN table[r] |->
                                        <<table[r][k].row, table[r][k].col>>]]
            = [r \in DOMAIN rows |->
                 [k \in DOMAIN cols(rows[r]) |-> <<rows[r], cols(rows[r])[k]>>]]

\* The header line names every node and cells have the width of its columns, so
\* the k-th cell of a row reads as that of node k-1 (the change log: "Fix
\* handling of sparse NUMA nodes").
CellsUnderTheirHeader ==
    \A r \in DOMAIN table : \A k \in DOMAIN table[r] : table[r][k].col = k - 1
=============================================================================
