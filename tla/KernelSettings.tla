--------------------------- MODULE KernelSettings ---------------------------
(***************************************************************************)
(* scripts/host_config.py: class KernelSettings, the reversible writes to  *)
(* integer kernel settings that the suite runner makes before a benchmark. *)
(*                                                                         *)
(* A path is a number.  Path 0 is /proc/sys/kernel/numa_balancing, path i  *)
(* in 1..NumNodes is the nr_hugepages file of the i-th memory node, in the *)
(* order in which setup_huge_pages visits the nodes.  A KernelSettings     *)
(* object owns a range of paths, so one function original stands for the   *)
(* dictionaries of both objects of the runner, and because set() is called *)
(* in ascending order, reversed(list(original.items())) is the descending  *)
(* order of the recorded paths.                                            *)
(*                                                                         *)
(* set() and restore() are called by a client module: CallSet, CallRestore *)
(* start a call, pc = "returned" with exc tells how it ended, and a client *)
(* may abandon a call between any two steps (KeyboardInterrupt).           *)
(***************************************************************************)
EXTENDS Integers

CONSTANTS
    NumNodes,   \* memory nodes with a pool of huge pages
    Eligible,   \* those with at least 1 GiB of memory
    Want,       \* pages that reach the 2 GiB goal of a node (count)
    MaxValue,   \* bound: settings hold integers 0..MaxValue
    MaxSignals  \* bound: signals delivered in one run of a client

ASSUME NumNodesAssumption == NumNodes \in Nat
ASSUME MaxValueAssumption == MaxValue \in Nat

Autonuma == 0
Nodes == 1..NumNodes
Paths == 0..NumNodes
Values == 0..MaxValue

ASSUME EligibleAssumption == Eligible \subseteq Nodes
ASSUME WantAssumption == Want \in Values
ASSUME MaxSignalsAssumption == MaxSignals \in Nat

\* numa_balancing is 0 or 1.
ASSUME SwitchAssumption == {0, 1} \subseteq Values

Unrecorded == -1    \* the path is not a key of self.original

VARIABLES
    kernel,     \* the value each setting has now
    initial,    \* history: the value each setting had when the program started
    original,   \* self.original
    priv,       \* self.prefix is not None
    pc,         \* where the current call of set() or restore() is
    cur,        \* the path the call is working on
    low,        \* restore(): the lowest path its object owns
    tgt,        \* set(): the value to write
    prev,       \* set(): the local variable previous
    errors,     \* restore(): the paths with an entry in the list errors
    exc         \* how the finished call ended

settings == <<kernel, initial, original, priv>>
locals == <<pc, cur, low, tgt, prev, errors, exc>>
kvars == <<kernel, initial, original, priv, pc, cur, low, tgt, prev, errors, exc>>

PCs == {"idle", "set_read", "set_record", "set_write", "set_check",
        "restore", "restore_read", "restore_write", "restore_check", "returned"}

\* "os" stands for OSError, SubprocessError and RuntimeError.
Exceptions == {"none", "os", "value"}

\* Types of the settings, of the record original that restore() works from, and
\* of the locals of set() and restore(): a call stays on the paths that exist.
KTypeOK ==
    /\ kernel \in [Paths -> Values]
    /\ initial \in [Paths -> Values]
    /\ original \in [Paths -> Values \cup {Unrecorded}]
    /\ priv \in BOOLEAN
    /\ pc \in PCs
    /\ cur \in -1..NumNodes
    /\ low \in 0..(NumNodes + 1)
    /\ tgt \in Values
    /\ prev \in Values
    /\ errors \in SUBSET Paths
    /\ exc \in Exceptions

(***************************************************************************)
(* The kernel.  numa_balancing takes the value written.  nr_hugepages goes *)
(* as far towards it as free memory (or pages in use) allows.              *)
(***************************************************************************)
KernelApplies(p, v) ==
    IF p = Autonuma
    THEN {v}
    ELSE {w \in Values : \/ kernel[p] <= w /\ w <= v
                         \/ v <= w /\ w <= kernel[p]}

(***************************************************************************)
(* Outcomes of a call.                                                     *)
(***************************************************************************)
Finish(e) == pc' = "returned" /\ exc' = e

CallSet(p, v) ==
    /\ pc' = "set_read" /\ cur' = p /\ tgt' = v /\ exc' = "none"
    /\ UNCHANGED <<settings, low, prev, errors>>

CallRestore(from, to) ==
    /\ pc' = "restore" /\ cur' = from /\ low' = to
    /\ errors' = {} /\ exc' = "none"
    /\ UNCHANGED <<settings, tgt, prev>>

EndCall ==
    /\ pc' = "idle"
    /\ UNCHANGED <<settings, cur, low, tgt, prev, errors, exc>>

(***************************************************************************)
(* write(): without privilege it raises; the write may fail; or the kernel *)
(* takes the value as far as it can.                                       *)
(***************************************************************************)
write(p, v) ==
    /\ priv
    /\ \E w \in KernelApplies(p, v) : kernel' = [kernel EXCEPT ![p] = w]

(***************************************************************************)
(* set(path, value)                                                        *)
(***************************************************************************)
SetRead ==
    /\ pc = "set_read"
    /\ \/ /\ \E e \in {"os", "value"} : Finish(e)
          /\ UNCHANGED prev
       \/ /\ kernel[cur] = tgt
          /\ Finish("none")
          /\ UNCHANGED prev
       \/ /\ kernel[cur] # tgt
          /\ prev' = kernel[cur]
          /\ pc' = "set_record"
          /\ UNCHANGED exc
    /\ UNCHANGED <<settings, cur, low, tgt, errors>>

\* Mutant: nothing is recorded before the write.
SetRecordMissing ==
    /\ pc = "set_record"
    /\ pc' = "set_write"
    /\ UNCHANGED <<settings, cur, low, tgt, prev, errors, exc>>

SetRecord ==
    /\ pc = "set_record"
    /\ original' = IF original[cur] = Unrecorded
                   THEN [original EXCEPT ![cur] = prev]
                   ELSE original
    /\ pc' = "set_write"
    /\ UNCHANGED <<kernel, initial, priv, cur, low, tgt, prev, errors, exc>>

SetWrite ==
    /\ pc = "set_write"
    /\ \/ /\ Finish("os")
          /\ UNCHANGED kernel
       \/ /\ write(cur, tgt)
          /\ pc' = "set_check"
          /\ UNCHANGED exc
    /\ UNCHANGED <<initial, original, priv, cur, low, tgt, prev, errors>>

SetCheck ==
    /\ pc = "set_check"
    /\ \/ \E e \in {"os", "value"} : Finish(e)
       \/ kernel[cur] = tgt /\ Finish("none")
       \/ kernel[cur] # tgt /\ Finish("os")
    /\ UNCHANGED <<settings, cur, low, tgt, prev, errors>>

(***************************************************************************)
(* restore()                                                               *)
(***************************************************************************)
Forget(p) == original' = [original EXCEPT ![p] = Unrecorded]

\* Mutant: the loop skips a path.
NextPathSkips == pc' = "restore" /\ cur' = cur - 2

\* Mutant: the loop does not advance.
NextPathStays == pc' = "restore" /\ cur' = cur

\* The path is done: go on with the next one, whatever happened to this one.
NextPath == pc' = "restore" /\ cur' = cur - 1

RestoreNext ==
    /\ pc = "restore"
    /\ \/ /\ cur >= low /\ original[cur] = Unrecorded
          /\ NextPath
          /\ UNCHANGED exc
       \/ /\ cur >= low /\ original[cur] # Unrecorded
          /\ pc' = "restore_read"
          /\ UNCHANGED <<cur, exc>>
       \/ /\ cur < low
          /\ Finish(IF errors # {} THEN "os" ELSE "none")
          /\ UNCHANGED cur
    /\ UNCHANGED <<settings, low, tgt, prev, errors>>

\* Mutant: the first error ends the loop.
RestoreErrorStops ==
    /\ errors' = errors \cup {cur}
    /\ pc' = "restore" /\ cur' = low - 1
    /\ UNCHANGED original

RestoreError == errors' = errors \cup {cur} /\ NextPath /\ UNCHANGED original

RestoreRead ==
    /\ pc = "restore_read"
    /\ \/ RestoreError
       \/ /\ kernel[cur] = original[cur]
          /\ Forget(cur) /\ NextPath
          /\ UNCHANGED errors
       \/ /\ kernel[cur] # original[cur]
          /\ pc' = "restore_write"
          /\ UNCHANGED <<cur, original, errors>>
    /\ UNCHANGED <<kernel, initial, priv, low, tgt, prev, exc>>

RestoreWrite ==
    /\ pc = "restore_write"
    /\ \/ /\ RestoreError
          /\ UNCHANGED kernel
       \/ /\ write(cur, original[cur])
          /\ pc' = "restore_check"
          /\ UNCHANGED <<cur, original, errors>>
    /\ UNCHANGED <<initial, priv, low, tgt, prev, exc>>

\* Mutant: the entry is deleted without a readback.
RestoreCheckTrustsWrite ==
    /\ pc = "restore_check"
    /\ Forget(cur) /\ NextPath
    /\ UNCHANGED <<kernel, initial, priv, low, tgt, prev, errors, exc>>

RestoreCheck ==
    /\ pc = "restore_check"
    /\ \/ RestoreError
       \/ /\ kernel[cur] = original[cur]
          /\ Forget(cur) /\ NextPath
          /\ UNCHANGED errors
    /\ UNCHANGED <<kernel, initial, priv, low, tgt, prev, exc>>

set == SetRead \/ SetRecord \/ SetWrite \/ SetCheck
restore == RestoreNext \/ RestoreRead \/ RestoreWrite \/ RestoreCheck

KInit ==
    /\ kernel \in [Paths -> Values]
    /\ initial = kernel
    /\ original = [p \in Paths |-> Unrecorded]
    /\ pc = "idle" /\ cur = 0 /\ low = 0
    /\ tgt = 0 /\ prev = 0 /\ errors = {} /\ exc = "none"
=============================================================================
