-------------------------- MODULE SuiteRunnerProofs --------------------------
(***************************************************************************)
(* Proofs about KernelSettings and its clients, SuiteRunner and            *)
(* StandaloneHelpers, for any number of nodes, any values of the settings, *)
(* any command line and any number of signals: the runner knows at every   *)
(* step what it has changed; what its finally block promises about the     *)
(* settings, the warnings and the exit status; the runner as a whole is a  *)
(* host transaction; the configuration in which its benchmarks run; and    *)
(* the helpers do all or nothing.                                          *)
(***************************************************************************)
EXTENDS SuiteRunner, StandaloneHelpers, TLAPS

USE NumNodesAssumption, MaxValueAssumption

(***************************************************************************)
(* The invariant of a KernelSettings object: what holds at each step of a  *)
(* call, and must hold there, since the call may be abandoned at any step. *)
(***************************************************************************)

\* set() has read the current value into previous before it records it.
PreviousIsCurrent == pc = "set_record" => prev = kernel[cur]

\* Between the record and the end of a write the path has its entry.
RecordedBeforeWrite ==
    pc \in {"set_write", "set_check", "restore_read", "restore_write", "restore_check"}
        => original[cur] = initial[cur]

\* A call that is at work on a path is at a path of the host.
WorksOnPath == pc \notin {"idle", "restore", "returned"} => cur \in Paths

KInv ==
    /\ KTypeOK
    /\ ChangesAreRecorded
    /\ PreviousIsCurrent
    /\ RecordedBeforeWrite
    /\ WorksOnPath

\* A write leaves the other settings alone and gives this one some value.
LEMMA WriteEffect ==
    ASSUME KTypeOK, NEW p \in Paths, NEW v \in Values, write(p, v)
    PROVE  /\ kernel' \in [Paths -> Values]
           /\ \A q \in Paths : q # p => kernel'[q] = kernel[q]
<1>1. PICK w \in KernelApplies(p, v) : kernel' = [kernel EXCEPT ![p] = w]
  BY DEF write
<1>2. w \in Values
  BY <1>1 DEF KernelApplies
<1> QED
  BY <1>1, <1>2 DEF KTypeOK

\* Every step of set() preserves the invariant of the object.
LEMMA SetStep == KInv /\ set => KInv'
<1> SUFFICES ASSUME KInv, set PROVE KInv'
  OBVIOUS
<1> USE DEF KInv, KTypeOK, ChangesAreRecorded, PreviousIsCurrent, RecordedBeforeWrite,
            WorksOnPath, PCs, Exceptions, settings
<1>1. CASE SetRead
  BY <1>1 DEF SetRead, Finish
<1>2. CASE SetRecord
  <2>1. cur \in Paths /\ prev = kernel[cur] /\ initial[cur] \in Values
    BY <1>2 DEF SetRecord
  <2>2. Unrecorded \notin Values
    BY DEF Unrecorded, Values
  <2>3. original[cur] = Unrecorded => prev = initial[cur]
    BY <2>1, <2>2
  <2>4. original' \in [Paths -> Values \cup {Unrecorded}] /\ original'[cur] = initial[cur]
    BY <1>2, <2>1, <2>3 DEF SetRecord
  <2>5. \A p \in Paths : p # cur => original'[p] = original[p]
    BY <1>2 DEF SetRecord
  <2>6. UNCHANGED <<kernel, initial>>
    BY <1>2 DEF SetRecord
  <2>7. ChangesAreRecorded'
    BY <2>4, <2>5, <2>6
  <2> QED
    BY <1>2, <2>1, <2>4, <2>7 DEF SetRecord
<1>3. CASE SetWrite
  <2>1. cur \in Paths /\ original[cur] = initial[cur] /\ tgt \in Values
    BY <1>3 DEF SetWrite
  <2>2. CASE Finish("os") /\ UNCHANGED kernel
    BY <1>3, <2>2 DEF SetWrite, Finish
  <2>3. CASE write(cur, tgt) /\ pc' = "set_check" /\ UNCHANGED exc
    <3>1. /\ kernel' \in [Paths -> Values]
          /\ \A q \in Paths : q # cur => kernel'[q] = kernel[q]
      BY <2>1, <2>3, WriteEffect
    <3>2. UNCHANGED <<initial, original, priv, cur, low, tgt, prev, errors>>
      BY <1>3 DEF SetWrite
    <3>3. ChangesAreRecorded'
      BY <2>1, <3>1, <3>2
    <3> QED
      BY <2>1, <2>3, <3>1, <3>2, <3>3
  <2> QED
    BY <1>3, <2>2, <2>3 DEF SetWrite
<1>4. CASE SetCheck
  BY <1>4 DEF SetCheck, Finish
<1> QED
  BY <1>1, <1>2, <1>3, <1>4 DEF set

\* A path whose setting has its initial value again may be forgotten.
LEMMA ForgetKeeps ==
    ASSUME KInv, NEW p \in Paths, kernel[p] = initial[p], Forget(p), UNCHANGED <<kernel, initial>>
    PROVE  /\ original' \in [Paths -> Values \cup {Unrecorded}]
           /\ ChangesAreRecorded'
BY DEF KInv, KTypeOK, ChangesAreRecorded, Forget

\* Every step of restore() preserves the invariant of the object.
LEMMA RestoreStep == KInv /\ restore => KInv'
<1> SUFFICES ASSUME KInv, restore PROVE KInv'
  OBVIOUS
<1> USE DEF KInv, KTypeOK, PreviousIsCurrent, RecordedBeforeWrite,
            WorksOnPath, PCs, Exceptions, settings, NextPath
<1>1. CASE RestoreNext
  <2>1. UNCHANGED <<kernel, initial, original, priv, low, tgt, prev, errors>>
    BY <1>1 DEF RestoreNext
  <2>2. ChangesAreRecorded'
    BY <2>1 DEF ChangesAreRecorded
  <2>3. CASE cur >= low /\ original[cur] = Unrecorded /\ NextPath /\ UNCHANGED exc
    <3>1. cur' \in -1..NumNodes
      BY <2>3
    <3> QED
      BY <2>1, <2>2, <2>3, <3>1
  <2>4. CASE cur >= low /\ original[cur] # Unrecorded /\ pc' = "restore_read"
             /\ UNCHANGED <<cur, exc>>
    <3>1. cur \in Paths
      BY <2>4 DEF Paths
    <3>2. original[cur] = initial[cur]
      BY <2>4, <3>1 DEF ChangesAreRecorded
    <3> QED
      BY <2>1, <2>2, <2>4, <3>1, <3>2
  <2>5. CASE Finish(IF errors # {} THEN "os" ELSE "none") /\ UNCHANGED cur
    BY <2>1, <2>2, <2>5 DEF Finish
  <2> QED
    BY <1>1, <2>3, <2>4, <2>5 DEF RestoreNext
<1>2. ASSUME pc \in {"restore_read", "restore_write", "restore_check"}, RestoreError,
             UNCHANGED <<kernel, initial, priv, low, tgt, prev, exc>>
      PROVE  KInv'
  <2>1. cur \in Paths
    BY <1>2
  <2> QED
    BY <1>2, <2>1 DEF RestoreError, ChangesAreRecorded, Paths
<1>3. ASSUME pc \in {"restore_read", "restore_check"}, kernel[cur] = original[cur],
             Forget(cur), NextPath, UNCHANGED errors,
             UNCHANGED <<kernel, initial, priv, low, tgt, prev, exc>>
      PROVE  KInv'
  <2>1. cur \in Paths /\ kernel[cur] = initial[cur]
    BY <1>3
  <2>2. original' \in [Paths -> Values \cup {Unrecorded}] /\ ChangesAreRecorded'
    BY <1>3, <2>1, ForgetKeeps
  <2> QED
    BY <1>3, <2>1, <2>2 DEF Paths
<1>4. CASE RestoreRead
  <2>1. CASE kernel[cur] # original[cur] /\ pc' = "restore_write"
             /\ UNCHANGED <<cur, original, errors>>
    BY <1>4, <2>1 DEF RestoreRead, ChangesAreRecorded
  <2> QED
    BY <1>2, <1>3, <1>4, <2>1 DEF RestoreRead
<1>5. CASE RestoreWrite
  <2>1. CASE write(cur, original[cur]) /\ pc' = "restore_check"
             /\ UNCHANGED <<cur, original, errors>>
    <3>1. cur \in Paths /\ original[cur] = initial[cur] /\ original[cur] \in Values
      BY <1>5 DEF RestoreWrite
    <3>2. /\ kernel' \in [Paths -> Values]
          /\ \A q \in Paths : q # cur => kernel'[q] = kernel[q]
      BY <2>1, <3>1, WriteEffect
    <3>3. UNCHANGED <<initial, priv, low, tgt, prev, exc>>
      BY <1>5 DEF RestoreWrite
    <3>4. ChangesAreRecorded'
      BY <2>1, <3>1, <3>2, <3>3 DEF ChangesAreRecorded
    <3> QED
      BY <2>1, <3>1, <3>2, <3>3, <3>4
  <2> QED
    BY <1>2, <1>5, <2>1 DEF RestoreWrite
<1>6. CASE RestoreCheck
  BY <1>2, <1>3, <1>6 DEF RestoreCheck
<1> QED
  BY <1>1, <1>4, <1>5, <1>6 DEF restore

\* A call may start, and be abandoned, at any moment.
LEMMA CallStep ==
    ASSUME KInv,
           \/ UNCHANGED kvars
           \/ EndCall
           \/ \E p \in Paths, v \in Values : CallSet(p, v)
           \/ \E from \in Paths, to \in {0, 1} : CallRestore(from, to)
    PROVE  KInv'
<1> USE DEF KInv, KTypeOK, ChangesAreRecorded, PreviousIsCurrent, RecordedBeforeWrite,
            WorksOnPath, PCs, Exceptions, settings
<1>1. CASE UNCHANGED kvars
  BY <1>1 DEF kvars
<1>2. CASE EndCall
  BY <1>2 DEF EndCall
<1>3. ASSUME NEW p \in Paths, NEW v \in Values, CallSet(p, v) PROVE KInv'
  BY <1>3 DEF CallSet, Paths
<1>4. ASSUME NEW from \in Paths, NEW to \in {0, 1}, CallRestore(from, to) PROVE KInv'
  BY <1>4 DEF CallRestore, Paths
<1> QED
  BY <1>1, <1>2, <1>3, <1>4

(***************************************************************************)
(* The runner.                                                             *)
(***************************************************************************)
USE EligibleAssumption, WantAssumption, ArgsAssumption, MaxSignalsAssumption

\* main() calls its KernelSettings objects with the host's paths and values only.
LEMMA RunnerCalls ==
    ASSUME TypeOK, Main \/ Signal \/ Terminated
    PROVE  \/ UNCHANGED kvars
           \/ EndCall
           \/ \E p \in Paths, v \in Values : CallSet(p, v)
           \/ \E from \in Paths, to \in {0, 1} : CallRestore(from, to)
<1>1. /\ Autonuma \in Paths /\ NumNodes \in Paths /\ Autonuma \in {0, 1}
      /\ 0 \in Values /\ Eligible \subseteq Paths
      /\ \A n \in Paths : Max2(kernel[n], Want) \in Values
  BY DEF TypeOK, KTypeOK, Autonuma, Paths, Nodes, Values, Max2
<1>2. CASE AutonumaSkip \/ AutonumaSet \/ AutonumaSetDone \/ AutonumaUndoDone
  BY <1>1, <1>2 DEF AutonumaSkip, AutonumaSet, AutonumaSetDone, AutonumaUndoDone
<1>3. CASE HugeSkip \/ HugeExisting \/ HugeSetup \/ HugePrep
  BY <1>1, <1>3 DEF HugeSkip, HugeExisting, HugeSetup, HugePrep
<1>4. CASE HugeNode
  BY <1>1, <1>4 DEF HugeNode
<1>5. CASE HugeSetDone \/ HugeUndoDone \/ run_benchmark
  BY <1>1, <1>5 DEF HugeSetDone, HugeUndoDone, run_benchmark
<1>6. CASE \/ Validate \/ Finally \/ FinallyTerm \/ HandlerInt \/ HandlerTerm \/ Verdict
           \/ Terminated
  BY <1>6 DEF Validate, Finally, FinallyTerm, HandlerInt, HandlerTerm, Verdict,
              Terminated, vars
<1>7. CASE RestoreHuge \/ RestoreHugeDone \/ RestoreSettings \/ RestoreSettingsDone
  BY <1>1, <1>7 DEF RestoreHuge, RestoreHugeDone, RestoreSettings, RestoreSettingsDone,
                    Collect
<1>8. CASE Signal
  BY <1>8 DEF Signal, Interrupt
<1> QED
  BY <1>2, <1>3, <1>4, <1>5, <1>6, <1>7, <1>8 DEF Main

\* The commands of a run are a sequence of commands.
LEMMA PlanType ==
    ASSUME NEW selected, NEW matrices \in BOOLEAN, NEW h \in BOOLEAN, NEW pre \in BOOLEAN
    PROVE  run_tests(selected, matrices, h, pre) \in Seq(Commands)
<1>1. \A name \in {"cpu_idle_latency", "cpu_peak_bandwidth", "cpu_memcpy",
                   "cpu_loaded_latency"} :
         Command(name) \in Commands /\ HugeCommand(name, pre) \in Commands
  BY DEF Command, HugeCommand, Commands
<1>2. \A b \in BOOLEAN, q \in Seq(Commands) : If(b, q) \in Seq(Commands)
  BY DEF If
<1>0. \A q, r \in Seq(Commands) : q \o r \in Seq(Commands)
  OBVIOUS
<1> DEFINE idle == "idle_latency" \in selected
           band == "bandwidth" \in selected
           load == "loaded_latency" \in selected
           B == <<Command("cpu_peak_bandwidth")>>
                \o If(matrices, <<Command("cpu_peak_bandwidth"), Command("cpu_peak_bandwidth")>>)
                \o <<Command("cpu_memcpy"), Command("cpu_memcpy")>>
           P(name) == <<Command(name)>> \o If(h, <<HugeCommand(name, pre)>>)
           I == P("cpu_idle_latency")
           L == P("cpu_loaded_latency")
<1>3. I \in Seq(Commands) /\ L \in Seq(Commands)
  <2>1. ASSUME NEW name \in {"cpu_idle_latency", "cpu_loaded_latency"}
        PROVE  P(name) \in Seq(Commands)
    <3>1. <<Command(name)>> \in Seq(Commands) /\ <<HugeCommand(name, pre)>> \in Seq(Commands)
      BY <1>1
    <3>2. If(h, <<HugeCommand(name, pre)>>) \in Seq(Commands)
      BY <1>2, <3>1
    <3> QED
      BY ONLY <1>0, <3>1, <3>2
  <2> QED
    BY <2>1
<1>4. /\ <<Command("cpu_peak_bandwidth")>> \in Seq(Commands)
      /\ <<Command("cpu_peak_bandwidth"), Command("cpu_peak_bandwidth")>> \in Seq(Commands)
      /\ <<Command("cpu_memcpy"), Command("cpu_memcpy")>> \in Seq(Commands)
  BY <1>1
<1>5. B \in Seq(Commands)
  <2>1. If(matrices, <<Command("cpu_peak_bandwidth"), Command("cpu_peak_bandwidth")>>)
          \in Seq(Commands)
    BY <1>2, <1>4
  <2>2. <<Command("cpu_peak_bandwidth")>>
        \o If(matrices, <<Command("cpu_peak_bandwidth"), Command("cpu_peak_bandwidth")>>)
          \in Seq(Commands)
    BY ONLY <1>0, <1>4, <2>1
  <2> QED
    BY ONLY <1>0, <1>4, <2>2
<1>6. idle \in BOOLEAN /\ band \in BOOLEAN /\ load \in BOOLEAN
  OBVIOUS
<1>7. If(idle, I) \in Seq(Commands) /\ If(band, B) \in Seq(Commands)
      /\ If(load, L) \in Seq(Commands)
  BY <1>2, <1>3, <1>5, <1>6
<1> HIDE DEF idle, band, load, I, B, L
<1>8. If(idle, I) \o If(band, B) \o If(load, L) \in Seq(Commands)
  BY ONLY <1>0, <1>7
<1> QED
  BY <1>8 DEF idle, band, load, I, B, L, run_tests

\* The part of TypeOK that is about the runner's own variables.
RTypeOK ==
    /\ args \in Args
    /\ stage \in Stages
    /\ huge_size \in BOOLEAN
    /\ node \in 1..(NumNodes + 1)
    /\ todo \in 0..2
    /\ prefix \in BOOLEAN
    /\ plan \in Seq(Commands)
    /\ pending \in {"none", "os", "value", "interrupt"}
    /\ warned \in SUBSET Paths
    /\ failed \in BOOLEAN
    /\ handler \in [Signals -> {"raise", "ignore"}]
    /\ signals \in Nat
    /\ cut \in BOOLEAN
    /\ exit \in {-1, 0, 1, 130}

\* setup_huge_pages calls set() for a node of the host.
SetsOnNode == stage = "huge_set" => node \in Nodes

\* Every step of main() keeps the types of the runner's variables.
LEMMA RTypeStep == TypeOK /\ SetsOnNode /\ [Next]_vars => RTypeOK'
<1> SUFFICES ASSUME TypeOK, SetsOnNode, [Next]_vars PROVE RTypeOK'
  OBVIOUS
<1>0. RTypeOK /\ KTypeOK
  BY DEF TypeOK, RTypeOK
<1> USE <1>0 DEF RTypeOK, KeepLocals, KeepBody, Goto, Raise
<1>a. args \in ArgsType
  OBVIOUS
<1>b. \A h \in BOOLEAN, pre \in BOOLEAN :
         RunTests(h, pre) => stage' = "bench" /\ plan' \in Seq(Commands)
  <2> SUFFICES ASSUME NEW h \in BOOLEAN, NEW pre \in BOOLEAN, RunTests(h, pre)
               PROVE  stage' = "bench" /\ plan' \in Seq(Commands)
    OBVIOUS
  <2>1. PICK m \in {FALSE, ~args.no_matrices} : plan' = run_tests(args.test, m, h, pre)
    BY DEF RunTests
  <2>2. m \in BOOLEAN
    BY <1>a, <2>1 DEF ArgsType
  <2> QED
    BY <2>1, <2>2, PlanType DEF RunTests
<1>c. prefix \in BOOLEAN /\ TRUE \in BOOLEAN /\ FALSE \in BOOLEAN
  OBVIOUS
<1>1. CASE InCall
  BY <1>1 DEF InCall, rvars
<1>2. CASE Validate
  BY <1>2 DEF Validate, Stages
<1>3. CASE AutonumaSkip
  <2>1. <<>> \in Seq(Commands)
    OBVIOUS
  <2>2. huge_size' \in BOOLEAN /\ plan' \in Seq(Commands) /\ stage' \in {"bench", "huge"}
    BY <1>3, <2>1 DEF AutonumaSkip, latency_requested
  <2> QED
    BY <1>3, <2>2 DEF AutonumaSkip, Stages
<1>4. CASE AutonumaSet \/ AutonumaSetDone \/ AutonumaUndoDone
  BY <1>4 DEF AutonumaSet, AutonumaSetDone, AutonumaUndoDone, Stages, Exceptions, KTypeOK
<1>5. CASE HugeSkip
  <2>1. RunTests(FALSE, prefix) => stage' = "bench" /\ plan' \in Seq(Commands)
    BY ONLY <1>b, <1>c, Zenon
  <2> QED
    BY <1>5, <2>1 DEF HugeSkip, Stages
<1>6. CASE HugeExisting
  BY <1>b, <1>6 DEF HugeExisting, Stages
<1>7. CASE HugeSetup
  BY <1>7, <1>a DEF HugeSetup, Stages, ArgsType
<1>8. CASE HugePrep
  BY <1>8 DEF HugePrep, Stages
<1>9. CASE HugeNode
  <2>1. node \in Nodes => node + 1 \in 1..(NumNodes + 1)
    BY DEF Nodes
  <2> QED
    <3>1. /\ UNCHANGED <<todo, prefix, pending>> /\ KeepLocals
          /\ \/ /\ stage' \in {"huge_set", "huge_undo", "huge_node"}
                /\ UNCHANGED <<huge_size, plan>>
                /\ node' = node \/ (node \in Nodes /\ node' = node + 1)
             \/ huge_size' = TRUE /\ RunTests(TRUE, prefix) /\ UNCHANGED node
      BY <1>9 DEF HugeNode
    <3>2. RunTests(TRUE, prefix) => stage' = "bench" /\ plan' \in Seq(Commands)
      BY ONLY <1>b, <1>c, Zenon
    <3>3. huge_size' \in BOOLEAN /\ plan' \in Seq(Commands)
      BY <3>1, <3>2
    <3>6. node' = node \/ (node \in Nodes /\ node' = node + 1)
      BY <1>9 DEF HugeNode
    <3>4. node' \in 1..(NumNodes + 1)
      BY <2>1, <3>6
    <3>5. stage' \in Stages
      BY <3>1, <3>2 DEF Stages
    <3> QED
      BY <3>1, <3>3, <3>4, <3>5
<1>10. CASE HugeSetDone
  <2>1. stage' \in {"huge_node", "huge_undo"} /\ stage = "huge_set"
    BY <1>10 DEF HugeSetDone
  <2>2. node' = node \/ node' = node + 1
    BY <1>10 DEF HugeSetDone
  <2>3. node' \in 1..(NumNodes + 1)
    BY <2>1, <2>2 DEF SetsOnNode, Nodes
  <2>4. stage' \in Stages
    BY ONLY <2>1 DEF Stages
  <2>5. UNCHANGED <<huge_size, todo, prefix, plan, pending>> /\ KeepLocals
    BY <1>10 DEF HugeSetDone
  <2> QED
    BY <2>3, <2>4, <2>5
<1>11. CASE HugeUndoDone
  <2>1. RunTests(FALSE, prefix) => stage' = "bench" /\ plan' \in Seq(Commands)
    BY ONLY <1>b, <1>c, Zenon
  <2>2. stage' \in {"bench", "finally"} /\ plan' \in Seq(Commands)
    BY <1>11, <2>1 DEF HugeUndoDone
  <2>3. pending' = pending \/ pending' = exc
    BY <1>11 DEF HugeUndoDone
  <2>4. stage' \in Stages
    BY ONLY <2>2 DEF Stages
  <2>5. pending' \in {"none", "os", "value", "interrupt"}
    BY <2>3 DEF Exceptions, KTypeOK
  <2>6. UNCHANGED <<huge_size, node, todo, prefix>> /\ KeepLocals
    BY <1>11 DEF HugeUndoDone
  <2> QED
    BY <2>2, <2>4, <2>5, <2>6
<1>12. CASE run_benchmark
  <2>1. plan # <<>> => Tail(plan) \in Seq(Commands)
    OBVIOUS
  <2> QED
    BY <1>12, <2>1 DEF run_benchmark, Stages
<1>13. CASE Finally \/ FinallyTerm \/ HandlerInt \/ HandlerTerm
  BY <1>13 DEF Finally, FinallyTerm, HandlerInt, HandlerTerm, Stages, Signals
<1>14. CASE RestoreHuge \/ RestoreHugeDone \/ RestoreSettings \/ RestoreSettingsDone
  <2>1. Collect => warned' \in SUBSET Paths /\ failed' \in BOOLEAN
    <3>1. errors \subseteq Paths /\ warned \subseteq Paths
      BY DEF KTypeOK
    <3>2. CASE exc = "none"
      BY <3>2 DEF Collect
    <3>3. CASE exc # "none"
      BY <3>1, <3>3 DEF Collect
    <3> QED
      BY <3>2, <3>3
  <2>2. stage' \in Stages
    BY <1>14 DEF RestoreHuge, RestoreHugeDone, RestoreSettings, RestoreSettingsDone, Stages
  <2>3. warned' \in SUBSET Paths /\ failed' \in BOOLEAN
    BY <1>14, <2>1 DEF RestoreHuge, RestoreHugeDone, RestoreSettings, RestoreSettingsDone
  <2>4. KeepBody /\ UNCHANGED <<pending, handler, exit>>
    BY <1>14 DEF RestoreHuge, RestoreHugeDone, RestoreSettings, RestoreSettingsDone
  <2> QED
    BY <2>2, <2>3, <2>4
<1>15. CASE Verdict
  BY <1>15 DEF Verdict, ExitStatus, Stages
<1>16. CASE Signal
  <2>1. /\ UNCHANGED <<args, huge_size, node, todo, prefix, plan, warned, failed, handler>>
        /\ signals' = signals + 1
        /\ stage' \in {"finally", "handler_int", "exit"}
        /\ pending' = "interrupt" \/ pending' = pending
        /\ exit' = exit \/ exit' = 130
    BY <1>16 DEF Signal, Interrupt
  <2>2. cut' = cut \/ cut' = (cut \/ stage \in {"finally", "finally_term"})
    BY <1>16, Zenon DEF Signal, Interrupt
  <2>3. cut' \in BOOLEAN
    BY <2>2
  <2> QED
    BY <2>1, <2>3 DEF Stages
<1>17. CASE UNCHANGED vars
  BY <1>17 DEF vars, rvars
<1> QED
  BY <1>1, <1>2, <1>3, <1>4, <1>5, <1>6, <1>7, <1>8, <1>9, <1>10, <1>11, <1>12, <1>13,
     <1>14, <1>15, <1>16, <1>17 DEF Next, Main, Terminated

\* Only HugeNode leads to a call of set() for a pool.
LEMMA SetsOnNodeStep == SetsOnNode /\ [Next]_vars => SetsOnNode'
<1> SUFFICES ASSUME SetsOnNode, [Next]_vars PROVE SetsOnNode'
  OBVIOUS
<1> USE DEF SetsOnNode, Goto, Raise
<1>1. CASE HugeNode
  BY <1>1 DEF HugeNode, RunTests
<1>2. CASE InCall \/ Terminated \/ UNCHANGED vars
  BY <1>2 DEF InCall, rvars, Terminated, vars
<1>3. CASE Validate \/ AutonumaSkip \/ AutonumaSet \/ AutonumaSetDone \/ AutonumaUndoDone
  BY <1>3 DEF Validate, AutonumaSkip, AutonumaSet, AutonumaSetDone, AutonumaUndoDone
<1>4. CASE HugeSkip \/ HugeExisting \/ HugeSetup \/ HugePrep \/ HugeSetDone \/ HugeUndoDone
  BY <1>4 DEF HugeSkip, HugeExisting, HugeSetup, HugePrep, HugeSetDone, HugeUndoDone, RunTests
<1>5. CASE run_benchmark \/ Finally \/ FinallyTerm \/ RestoreHuge \/ RestoreHugeDone
  BY <1>5 DEF run_benchmark, Finally, FinallyTerm, RestoreHuge, RestoreHugeDone
<1>6. CASE RestoreSettings \/ RestoreSettingsDone \/ HandlerInt \/ HandlerTerm \/ Verdict
  BY <1>6 DEF RestoreSettings, RestoreSettingsDone, HandlerInt, HandlerTerm, Verdict
<1>7. CASE Signal
  BY <1>7 DEF Signal, Interrupt
<1> QED
  BY <1>1, <1>2, <1>3, <1>4, <1>5, <1>6, <1>7 DEF Next, Main

RInv == KInv /\ RTypeOK /\ SetsOnNode

\* The invariant of the runner and its two objects is inductive.
LEMMA RInvHolds == Spec => []RInv
<1>1. Init => RInv
  <2> SUFFICES ASSUME Init PROVE RInv
    OBVIOUS
  <2>1. KInv
    BY DEF Init, KInit, KInv, KTypeOK, ChangesAreRecorded, PreviousIsCurrent,
           RecordedBeforeWrite, WorksOnPath, PCs, Exceptions, Paths, Values, Unrecorded
  <2>2. <<>> \in Seq(Commands)
    OBVIOUS
  <2>3. args \in Args /\ args \in ArgsType
    BY DEF Init
  <2>4. priv \in BOOLEAN
    BY <2>3 DEF Init, ArgsType
  <2>5. handler \in [Signals -> {"raise", "ignore"}]
    BY DEF Init
  <2>6. node \in 1..(NumNodes + 1)
    BY DEF Init
  <2>7. /\ prefix \in BOOLEAN /\ stage \in Stages /\ plan \in Seq(Commands)
        /\ stage # "huge_set"
    BY <2>2, <2>4 DEF Init, Stages
  <2>8. huge_size \in BOOLEAN /\ failed \in BOOLEAN /\ cut \in BOOLEAN
    BY DEF Init
  <2>10. todo \in 0..2 /\ signals \in Nat /\ exit \in {-1, 0, 1, 130}
    BY DEF Init
  <2>11. pending \in {"none", "os", "value", "interrupt"} /\ warned \in SUBSET Paths
    BY DEF Init
  <2>9. RTypeOK
    BY <2>3, <2>5, <2>6, <2>7, <2>8, <2>10, <2>11 DEF RTypeOK
  <2> QED
    BY <2>1, <2>7, <2>9 DEF RInv, SetsOnNode
<1>2. RInv /\ [Next]_vars => RInv'
  <2> SUFFICES ASSUME RInv, [Next]_vars PROVE RInv'
    OBVIOUS
  <2>1. TypeOK
    BY DEF RInv, KInv, RTypeOK, TypeOK
  <2>2. RTypeOK'
    BY <2>1, RTypeStep DEF RInv
  <2>4. SetsOnNode'
    BY SetsOnNodeStep DEF RInv
  <2>3. KInv'
    <3>1. CASE InCall
      BY <3>1, SetStep, RestoreStep DEF InCall, RInv
    <3>2. CASE Main \/ Signal \/ Terminated
      BY <2>1, <3>2, RunnerCalls, CallStep DEF RInv
    <3>3. CASE UNCHANGED vars
      BY <3>3, CallStep DEF vars, RInv
    <3> QED
      BY <3>1, <3>2, <3>3 DEF Next
  <2> QED
    BY <2>2, <2>3, <2>4 DEF RInv
<1> QED
  BY <1>1, <1>2, PTL DEF Spec

\* The variables of the runner and of its settings objects keep their types.
THEOREM TypeCorrect == Spec => []TypeOK
<1>1. RInv => TypeOK
  BY DEF RInv, KInv, RTypeOK, TypeOK
<1> QED
  BY <1>1, RInvHolds, PTL

\* Whatever fails and wherever a signal strikes, a setting that is not what it
\* was has its first value on record, and nothing else is ever on record.
THEOREM ChangesRecorded == Spec => []ChangesAreRecorded
<1>1. RInv => ChangesAreRecorded
  BY DEF RInv, KInv
<1> QED
  BY <1>1, RInvHolds, PTL

-----------------------------------------------------------------------------
(***************************************************************************)
(* The end of the runner: its finally block.                               *)
(***************************************************************************)
CallStages == {"autonuma_set", "autonuma_undo", "huge_set", "huge_undo",
               "restore_huge_call", "restore_settings_call"}

RestoreStages == {"restore_huge", "restore_huge_call",
                  "restore_settings", "restore_settings_call"}

LastStages == {"handler_int", "handler_term", "verdict"}

\* A settings object is in a call only where the runner waits for one.
IdleOutside == pc # "idle" => stage \in CallStages

\* Without privilege nothing is ever written, and a dry run has none.
Unprivileged ==
    /\ ~priv => kernel = initial
    /\ args.dry_run => ~priv
    /\ stage = "validate" => kernel = initial

\* While the transactions are restored both signals are ignored.
Ignoring ==
    /\ stage = "finally_term" => ~args.dry_run /\ handler["SIGINT"] = "ignore"
    /\ stage \in RestoreStages /\ ~args.dry_run =>
          handler["SIGINT"] = "ignore" /\ handler["SIGTERM"] = "ignore"

\* restore() of the object that owns from..to: what it has passed is put back or
\* is in errors.
Restoring(from, to) ==
    /\ low = from /\ cur <= to
    /\ pc \in {"restore_read", "restore_write", "restore_check"} => cur >= from
    /\ pc \in {"restore", "restore_read", "restore_write", "restore_check", "returned"}
    /\ \A p \in from..to : p > cur => kernel[p] = initial[p] \/ p \in errors
    /\ pc = "returned" => cur < from /\ (exc = "none" => errors = {})

Settled(p) == kernel[p] = initial[p] \/ p \in warned

\* What has been put back, or named, at each stage of the end.
Progress ==
    /\ stage = "restore_huge_call" => Restoring(1, NumNodes)
    /\ stage = "restore_settings_call" => Restoring(0, 0)
    /\ stage \in {"restore_settings", "restore_settings_call"} => \A p \in Nodes : Settled(p)
    /\ stage \in LastStages => \A p \in Paths : Settled(p)
    /\ stage = "exit" /\ ~cut => \A p \in Paths : Settled(p)

AfterTry == {"finally", "finally_term", "exit"} \cup RestoreStages \cup LastStages

\* What the exit status will be made of.
Outcome ==
    /\ warned # {} => failed
    /\ stage = "exit" <=> exit # -1
    /\ exit = 0 => ~failed /\ pending = "none" /\ ~cut
    /\ cut => stage = "exit"
    /\ signals > 0 => stage \in AfterTry /\ (pending = "interrupt" \/ exit = 130)
    /\ pending # "none" => stage \in AfterTry
    /\ stage \in AfterTry => pending # "none" \/ plan = <<>> \/ exit \in {1, 130}

EndInv == IdleOutside /\ Unprivileged /\ Ignoring /\ Progress /\ Outcome

\* A step of restore() brings it one path further, or leaves it where it is.
LEMMA RestoringStep ==
    ASSUME KInv, restore, NEW from \in {0, 1}, NEW to \in Paths, Restoring(from, to)
    PROVE  /\ Restoring(from, to)'
           /\ \A p \in Paths : p \notin from..to => kernel'[p] = kernel[p]
<1> USE DEF KInv, KTypeOK, Restoring, Finish, NextPath, settings
<1>1. /\ cur \in Int /\ low = from /\ cur <= to
      /\ pc \in {"restore_read", "restore_write", "restore_check"} => cur \in Paths
      /\ initial' = initial
  BY DEF WorksOnPath, restore, RestoreNext, RestoreRead, RestoreWrite, RestoreCheck
<1>2. CASE RestoreNext
  <2>1. UNCHANGED <<kernel, initial, original, low, errors>>
    BY <1>2 DEF RestoreNext
  <2>2. CASE cur >= low /\ original[cur] = Unrecorded /\ NextPath /\ UNCHANGED exc
    <3>1. cur \in Paths
      BY <1>1, <2>2 DEF Paths
    <3>2. kernel[cur] = initial[cur]
      BY <2>2, <3>1 DEF ChangesAreRecorded, Unrecorded, Values
    <3>3. cur' = cur - 1 /\ pc' = "restore"
      BY <2>2
    <3>4. \A p \in from..to : p > cur' => p = cur \/ p > cur
      BY <1>1, <3>3 DEF Paths
    <3> QED
      BY <1>1, <2>1, <3>2, <3>3, <3>4 DEF Paths
  <2>3. CASE cur >= low /\ pc' = "restore_read" /\ UNCHANGED <<cur, exc>>
    BY <2>1, <2>3
  <2>4. CASE cur < low /\ Finish(IF errors # {} THEN "os" ELSE "none") /\ UNCHANGED cur
    BY <2>1, <2>4
  <2> QED
    BY <1>2, <2>2, <2>3, <2>4 DEF RestoreNext
<1>3. ASSUME pc \in {"restore_read", "restore_write", "restore_check"}, RestoreError,
             UNCHANGED <<kernel, low>>
      PROVE  Restoring(from, to)'
  <2>1. cur \in Paths /\ cur' = cur - 1 /\ pc' = "restore" /\ errors' = errors \cup {cur}
    BY <1>1, <1>3 DEF RestoreError
  <2>2. \A p \in from..to : p > cur' => p = cur \/ p > cur
    BY <1>1, <2>1 DEF Paths
  <2> QED
    BY <1>1, <1>3, <2>1, <2>2 DEF Paths
<1>4. ASSUME pc \in {"restore_read", "restore_check"}, kernel[cur] = original[cur], NextPath,
             UNCHANGED <<kernel, low, errors>>
      PROVE  Restoring(from, to)'
  <2>1. cur \in Paths /\ cur' = cur - 1 /\ pc' = "restore" /\ kernel[cur] = initial[cur]
    BY <1>1, <1>4 DEF RecordedBeforeWrite
  <2>2. \A p \in from..to : p > cur' => p = cur \/ p > cur
    BY <1>1, <2>1 DEF Paths
  <2> QED
    BY <1>1, <1>4, <2>1, <2>2 DEF Paths
<1>5. CASE RestoreRead
  <2>1. UNCHANGED <<kernel, low>>
    BY <1>5 DEF RestoreRead
  <2>2. CASE pc' = "restore_write" /\ UNCHANGED <<cur, original, errors>>
    <3>1. cur >= from /\ cur \in Paths
      BY <1>1, <1>5 DEF RestoreRead
    <3> QED
      BY <1>1, <2>1, <2>2, <3>1
  <2> QED
    BY <1>3, <1>4, <1>5, <2>1, <2>2 DEF RestoreRead
<1>6. CASE RestoreWrite
  <2>1. CASE write(cur, original[cur]) /\ pc' = "restore_check"
             /\ UNCHANGED <<cur, original, errors>>
    <3>1. cur \in Paths /\ original[cur] \in Values
      BY <1>1, <1>6 DEF RestoreWrite, RecordedBeforeWrite
    <3>2. \A q \in Paths : q # cur => kernel'[q] = kernel[q]
      BY <2>1, <3>1, WriteEffect
    <3>3. low' = low
      BY <1>6 DEF RestoreWrite
    <3>4. \A p \in from..to : p \in Paths
      BY DEF Paths
    <3>5. cur >= from
      BY <1>1, <1>6 DEF RestoreWrite
    <3> QED
      BY <1>1, <2>1, <3>1, <3>2, <3>3, <3>4, <3>5
  <2> QED
    BY <1>3, <1>6, <2>1 DEF RestoreWrite
<1>7. CASE RestoreCheck
  BY <1>3, <1>4, <1>7 DEF RestoreCheck
<1> QED
  BY <1>2, <1>5, <1>6, <1>7 DEF restore

\* Every step of a call keeps the invariant of the end.
LEMMA CallEnd == RInv /\ EndInv /\ InCall => EndInv'
<1> SUFFICES ASSUME RInv, EndInv, InCall PROVE EndInv'
  OBVIOUS
<1> USE DEF EndInv
<1>1. /\ KInv /\ KTypeOK /\ (set \/ restore)
      /\ UNCHANGED <<args, stage, plan, pending, warned, failed, handler, signals, cut, exit>>
  BY DEF InCall, rvars, RInv, KInv
<1>2. /\ pc \notin {"idle", "returned"} /\ UNCHANGED <<initial, priv>>
      /\ kernel' = kernel \/ priv
  BY <1>1 DEF set, restore, SetRead, SetRecord, SetWrite, SetCheck, RestoreNext, RestoreRead,
              RestoreWrite, RestoreCheck, settings, write
<1>3. stage \in CallStages
  BY <1>2 DEF IdleOutside
<1>4. IdleOutside'
  BY <1>1, <1>3 DEF IdleOutside
<1>5. Unprivileged'
  BY <1>1, <1>2, <1>3 DEF Unprivileged, CallStages
<1>6. Ignoring' /\ Outcome'
  BY <1>1 DEF Ignoring, Outcome
<1>7. Progress'
  <2>1. stage \notin LastStages /\ stage # "exit" /\ stage # "restore_settings"
    BY <1>3 DEF CallStages, LastStages
  <2>2. CASE stage = "restore_huge_call"
    <3>1. Restoring(1, NumNodes)
      BY <2>2 DEF Progress
    <3>2. restore
      BY <1>1, <3>1 DEF Restoring, set, SetRead, SetRecord, SetWrite, SetCheck
    <3>3. Restoring(1, NumNodes)'
      BY <1>1, <3>1, <3>2, RestoringStep DEF Paths
    <3> QED
      BY <1>1, <2>1, <2>2, <3>3 DEF Progress
  <2>3. CASE stage = "restore_settings_call"
    <3>1. Restoring(0, 0) /\ \A p \in Nodes : Settled(p)
      BY <2>3 DEF Progress
    <3>2. restore
      BY <1>1, <3>1 DEF Restoring, set, SetRead, SetRecord, SetWrite, SetCheck
    <3>3. Restoring(0, 0)' /\ \A p \in Paths : p \notin 0..0 => kernel'[p] = kernel[p]
      BY <1>1, <3>1, <3>2, RestoringStep DEF Paths
    <3>4. \A p \in Nodes : p \in Paths /\ p \notin 0..0
      BY DEF Nodes, Paths
    <3>5. \A p \in Nodes : Settled(p)'
      BY <1>1, <1>2, <3>1, <3>3, <3>4 DEF Settled
    <3> QED
      BY <1>1, <2>1, <2>3, <3>3, <3>5 DEF Progress
  <2>4. CASE stage \notin {"restore_huge_call", "restore_settings_call"}
    BY <1>1, <2>1, <2>4 DEF Progress
  <2> QED
    BY <2>2, <2>3, <2>4
<1> QED
  BY <1>4, <1>5, <1>6, <1>7

\* A step of main() or a signal changes no setting.
LEMMA MainChangesNothing ==
    ASSUME RInv, Main \/ Signal \/ Terminated
    PROVE  UNCHANGED <<kernel, initial, original, priv>>
<1>1. TypeOK
  BY DEF RInv, KInv, RTypeOK, TypeOK
<1> QED
  BY <1>1, RunnerCalls DEF EndCall, CallSet, CallRestore, settings, kvars

Body == \/ Validate \/ AutonumaSkip \/ AutonumaSet \/ AutonumaSetDone \/ AutonumaUndoDone
        \/ HugeSkip \/ HugeExisting \/ HugeSetup \/ HugePrep \/ HugeNode
        \/ HugeSetDone \/ HugeUndoDone
        \/ run_benchmark

\* Where the steps before the finally block lead, and what they leave alone.
LEMMA BodySteps ==
    ASSUME RInv, EndInv, Body
    PROVE  /\ stage \in TryStages \cup {"validate"}
           /\ UNCHANGED <<args, warned, failed, handler, signals, cut>>
           /\ \/ stage' \in TryStages /\ UNCHANGED <<pending, exit>>
              \/ /\ stage' = "finally" /\ exit' = exit
                 /\ pending' \in {"os", "value"} \/ (UNCHANGED pending /\ plan' = <<>>)
              \/ stage = "validate" /\ stage' = "exit" /\ exit' = 1 /\ UNCHANGED pending
           /\ pc' # "idle" => stage' \in CallStages
<1> USE DEF TryStages, CallStages, Goto, Raise, KeepLocals, IdleOutside, EndInv, RunTests,
            EndCall, CallSet, CallRestore, settings
<1>0. pc # "idle" => stage \in CallStages
  OBVIOUS
<1>x. exc \in {"none", "os", "value"}
  BY DEF RInv, KInv, KTypeOK, Exceptions
<1>1. CASE Validate
  BY <1>1 DEF Validate, kvars
<1>2. CASE AutonumaSkip
  BY <1>2 DEF AutonumaSkip, kvars
<1>3. CASE AutonumaSet
  BY <1>3 DEF AutonumaSet
<1>4. CASE AutonumaSetDone \/ AutonumaUndoDone
  BY <1>4, <1>x DEF AutonumaSetDone, AutonumaUndoDone
<1>5. CASE HugeSkip \/ HugeExisting
  BY <1>5 DEF HugeSkip, HugeExisting, kvars
<1>6. CASE HugeSetup \/ HugePrep
  BY <1>6 DEF HugeSetup, HugePrep, kvars
<1>7. CASE HugeNode
  BY <1>7 DEF HugeNode, kvars
<1>8. CASE HugeSetDone
  BY <1>8 DEF HugeSetDone
<1>9. CASE HugeUndoDone
  BY <1>9, <1>x DEF HugeUndoDone
<1>10. CASE run_benchmark
  BY <1>10 DEF run_benchmark, kvars
<1> QED
  BY <1>1, <1>2, <1>3, <1>4, <1>5, <1>6, <1>7, <1>8, <1>9, <1>10 DEF Body

\* The steps before the finally block keep the invariant of the end.
LEMMA BodyEnd == RInv /\ EndInv /\ Body => EndInv'
<1> SUFFICES ASSUME RInv, EndInv, Body PROVE EndInv'
  OBVIOUS
<1>1. UNCHANGED <<kernel, initial, original, priv>>
  BY MainChangesNothing DEF Body, Main
<1>2. /\ stage \in TryStages \cup {"validate"}
      /\ UNCHANGED <<args, warned, failed, handler, signals, cut>>
      /\ \/ stage' \in TryStages /\ UNCHANGED <<pending, exit>>
         \/ /\ stage' = "finally" /\ exit' = exit
            /\ pending' \in {"os", "value"} \/ (UNCHANGED pending /\ plan' = <<>>)
         \/ stage = "validate" /\ stage' = "exit" /\ exit' = 1 /\ UNCHANGED pending
      /\ pc' # "idle" => stage' \in CallStages
  BY BodySteps
<1>3. IdleOutside'
  BY <1>2 DEF IdleOutside
<1>4. Unprivileged'
  BY <1>1, <1>2 DEF EndInv, Unprivileged, TryStages
<1>5. Ignoring'
  BY <1>2 DEF Ignoring, TryStages, RestoreStages
<1>6. Progress'
  <2>1. stage' = "exit" => \A p \in Paths : Settled(p)'
    BY <1>1, <1>2 DEF EndInv, Unprivileged, Settled, TryStages
  <2>2. stage' \in TryStages \cup {"finally", "exit"}
    BY <1>2
  <2> QED
    BY <2>1, <2>2 DEF Progress, TryStages, LastStages
<1>7. Outcome'
  <2>1. /\ exit = -1 /\ ~cut /\ signals = 0 /\ pending = "none" /\ (warned # {} => failed)
        /\ signals \in Nat
    BY <1>2 DEF EndInv, Outcome, TryStages, AfterTry, RestoreStages, LastStages, RInv, RTypeOK
  <2> QED
    BY <1>2, <2>1 DEF Outcome, TryStages, AfterTry, RestoreStages, LastStages
<1> QED
  BY <1>3, <1>4, <1>5, <1>6, <1>7 DEF EndInv

\* What Collect makes of a finished call of restore().
LEMMA CollectSettles ==
    ASSUME KTypeOK, pc = "returned", NEW from \in {0, 1}, NEW to \in Paths, Restoring(from, to),
           Collect, UNCHANGED <<kernel, initial>>
    PROVE  /\ \A p \in from..to : Settled(p)'
           /\ \A p : Settled(p) => Settled(p)'
<1>1. \A p \in from..to : kernel[p] = initial[p] \/ p \in errors
  BY DEF Restoring, KTypeOK
<1>2. CASE exc = "none"
  BY <1>1, <1>2 DEF Collect, Restoring, Settled
<1>3. CASE exc # "none"
  BY <1>1, <1>3 DEF Collect, Settled
<1> QED
  BY <1>2, <1>3

FinallyBlock == \/ Finally \/ FinallyTerm \/ RestoreHuge \/ RestoreHugeDone
                \/ RestoreSettings \/ RestoreSettingsDone
                \/ HandlerInt \/ HandlerTerm \/ Verdict

\* The steps of the finally block keep the invariant of the end.
LEMMA FinallyEnd == RInv /\ EndInv /\ FinallyBlock => EndInv'
<1> SUFFICES ASSUME RInv, EndInv, FinallyBlock PROVE EndInv'
  OBVIOUS
<1> USE DEF EndInv, Goto, KeepBody
<1>1. UNCHANGED <<kernel, initial, original, priv>>
  BY MainChangesNothing DEF FinallyBlock, Main
<1>2. UNCHANGED <<args, plan, signals, cut, pending>>
  BY DEF FinallyBlock, Finally, FinallyTerm, RestoreHuge, RestoreHugeDone, RestoreSettings,
         RestoreSettingsDone, HandlerInt, HandlerTerm, Verdict
<1>3. stage \in AfterTry /\ stage' \in AfterTry /\ stage # "exit"
  BY DEF FinallyBlock, Finally, FinallyTerm, RestoreHuge, RestoreHugeDone, RestoreSettings,
         RestoreSettingsDone, HandlerInt, HandlerTerm, Verdict, AfterTry, RestoreStages,
         LastStages
<1>4. KTypeOK /\ handler \in [Signals -> {"raise", "ignore"}] /\ signals \in Nat
  BY DEF RInv, KInv, RTypeOK
<1>5. IdleOutside'
  BY DEF FinallyBlock, Finally, FinallyTerm, RestoreHuge, RestoreHugeDone, RestoreSettings,
         RestoreSettingsDone, HandlerInt, HandlerTerm, Verdict, IdleOutside, CallStages,
         Collect, EndCall, CallRestore, kvars
<1>6. Unprivileged'
  BY <1>1, <1>2, <1>3 DEF Unprivileged, AfterTry, RestoreStages, LastStages
<1>7. Ignoring'
  BY <1>2, <1>4 DEF FinallyBlock, Finally, FinallyTerm, RestoreHuge, RestoreHugeDone,
         RestoreSettings, RestoreSettingsDone, HandlerInt, HandlerTerm, Verdict, Ignoring,
         RestoreStages, Signals
<1>8. (warned # {} => failed)'
  BY DEF FinallyBlock, Finally, FinallyTerm, RestoreHuge, RestoreHugeDone, RestoreSettings,
         RestoreSettingsDone, HandlerInt, HandlerTerm, Verdict, Outcome, Collect
<1>9. Outcome'
  <2>1. exit = -1 /\ ~cut
    BY <1>3 DEF Outcome
  <2>2. CASE Verdict
    <3>1. stage' = "exit" /\ exit' = ExitStatus /\ failed' = failed
      BY <2>2 DEF Verdict
    <3>2. exit' # -1 /\ (exit' = 0 => ~failed /\ pending = "none")
      BY <3>1 DEF ExitStatus
    <3>3. signals > 0 => pending = "interrupt"
      BY <2>1 DEF Outcome
    <3>4. pending # "none" \/ plan = <<>>
      BY <1>3, <2>1 DEF Outcome
    <3> QED
      BY <1>2, <1>3, <1>8, <2>1, <3>1, <3>2, <3>3, <3>4 DEF Outcome
  <2>3. CASE ~Verdict
    <3>1. exit' = exit /\ stage' # "exit"
      BY <2>3 DEF FinallyBlock, Finally, FinallyTerm, RestoreHuge, RestoreHugeDone,
                  RestoreSettings, RestoreSettingsDone, HandlerInt, HandlerTerm
    <3> QED
      BY <1>2, <1>3, <1>8, <2>1, <3>1 DEF Outcome
  <2> QED
    BY <2>2, <2>3
<1>10. Progress'
  <2> USE DEF LastStages
  <2>1. CASE Finally \/ FinallyTerm
    BY <2>1 DEF Finally, FinallyTerm, Progress
  <2>2. CASE RestoreHuge
    <3>1. Restoring(1, NumNodes)' /\ stage' = "restore_huge_call"
      BY <2>2 DEF RestoreHuge, CallRestore, Restoring
    <3> QED
      BY <3>1 DEF Progress
  <2>3. CASE RestoreHugeDone
    <3>1. pc = "returned" /\ Restoring(1, NumNodes) /\ Collect /\ stage' = "restore_settings"
      BY <2>3 DEF RestoreHugeDone, Progress
    <3>2. \A p \in 1..NumNodes : Settled(p)'
      BY <1>1, <1>4, <3>1, CollectSettles DEF Paths
    <3> QED
      BY <3>1, <3>2 DEF Progress, Nodes
  <2>4. CASE RestoreSettings
    <3>1. Restoring(0, 0)' /\ stage' = "restore_settings_call"
      BY <2>4 DEF RestoreSettings, CallRestore, Restoring, Autonuma
    <3>2. \A p \in Nodes : Settled(p)'
      BY <1>1, <2>4 DEF RestoreSettings, Progress, Settled
    <3> QED
      BY <3>1, <3>2 DEF Progress
  <2>5. CASE RestoreSettingsDone
    <3>1. /\ pc = "returned" /\ Restoring(0, 0) /\ Collect /\ stage' = "handler_int"
          /\ \A p \in Nodes : Settled(p)
      BY <2>5 DEF RestoreSettingsDone, Progress
    <3>2. /\ \A p \in 0..0 : Settled(p)'
          /\ \A p : Settled(p) => Settled(p)'
      BY <1>1, <1>4, <3>1, CollectSettles DEF Paths
    <3>3. \A p \in Paths : p \in 0..0 \/ p \in Nodes
      BY DEF Paths, Nodes
    <3>4. \A p \in Paths : Settled(p)'
      BY <3>1, <3>2, <3>3
    <3> QED
      BY <3>1, <3>4 DEF Progress
  <2>6. CASE HandlerInt \/ HandlerTerm \/ Verdict
    <3>1. /\ stage \in LastStages /\ stage' \in LastStages \cup {"exit"} /\ warned' = warned
      BY <2>6 DEF HandlerInt, HandlerTerm, Verdict
    <3>2. \A p \in Paths : Settled(p)'
      BY <1>1, <3>1 DEF Progress, Settled
    <3> QED
      BY <3>1, <3>2 DEF Progress
  <2> QED
    BY <2>1, <2>2, <2>3, <2>4, <2>5, <2>6 DEF FinallyBlock
<1> QED
  BY <1>5, <1>6, <1>7, <1>9, <1>10

\* A signal keeps the invariant of the end: before the finally block it leads
\* there, and once the transactions are being restored it is ignored.
LEMMA SignalEnd == RInv /\ EndInv /\ Signal => EndInv'
<1> SUFFICES ASSUME RInv, EndInv, NEW sig \in Signals, Interrupt(sig) PROVE EndInv'
  BY DEF Signal
<1> USE DEF EndInv, Goto, Raise
<1>1. UNCHANGED <<kernel, initial, original, priv>>
  BY MainChangesNothing DEF Signal
<1>2. /\ UNCHANGED <<args, huge_size, node, todo, prefix, plan, warned, failed, handler>>
      /\ stage # "exit" /\ signals' = signals + 1 /\ signals \in Nat
      /\ exit = -1 /\ ~cut
  BY DEF Interrupt, RInv, RTypeOK, Outcome
<1>3. CASE /\ stage \in TryStages /\ stage' = "finally" /\ pending' = "interrupt" /\ EndCall
           /\ UNCHANGED <<exit, cut>>
  <2>1. IdleOutside' /\ Ignoring' /\ Progress'
    BY <1>3 DEF IdleOutside, EndCall, Ignoring, RestoreStages, Progress, LastStages
  <2>2. Unprivileged'
    BY <1>1, <1>2, <1>3 DEF Unprivileged
  <2>3. Outcome'
    BY <1>2, <1>3 DEF Outcome, AfterTry
  <2> QED
    BY <2>1, <2>2, <2>3
<1>4. CASE /\ stage \in RestoreStages /\ pending' = "interrupt" /\ stage' = "handler_int"
           /\ EndCall /\ UNCHANGED <<exit, cut>>
  <2>1. IdleOutside' /\ Ignoring'
    BY <1>4 DEF IdleOutside, EndCall, Ignoring, RestoreStages
  <2>2. handler[sig] = "raise" /\ sig \in {"SIGINT", "SIGTERM"}
    BY DEF Interrupt, Signals
  <2>3. args.dry_run
    BY <1>4, <2>2 DEF Ignoring
  <2>4. kernel = initial
    BY <2>3 DEF Unprivileged
  <2>5. Unprivileged'
    BY <1>1, <1>2, <1>4 DEF Unprivileged
  <2>6. Progress'
    BY <1>1, <1>4, <2>4 DEF Progress, LastStages, Settled
  <2>7. Outcome'
    BY <1>2, <1>4 DEF Outcome, AfterTry, LastStages
  <2> QED
    BY <2>1, <2>5, <2>6, <2>7
<1>5. CASE /\ stage \in {"validate", "finally", "finally_term",
                         "handler_int", "handler_term", "verdict"}
           /\ stage' = "exit" /\ exit' = 130
           /\ cut' = (cut \/ stage \in {"finally", "finally_term"})
           /\ UNCHANGED <<kvars, pending>>
  <2>1. pc = "idle" /\ pc' = pc
    BY <1>5 DEF IdleOutside, CallStages, kvars
  <2>2. IdleOutside' /\ Ignoring'
    BY <1>5, <2>1 DEF IdleOutside, Ignoring, RestoreStages
  <2>3. Unprivileged'
    BY <1>1, <1>2, <1>5 DEF Unprivileged
  <2>4. ~cut' => stage \in {"validate"} \cup LastStages
    BY <1>5 DEF LastStages
  <2>5. ~cut' => \A p \in Paths : Settled(p)'
    BY <1>1, <1>2, <2>4 DEF Progress, Unprivileged, Settled
  <2>6. Progress'
    BY <1>5, <2>5 DEF Progress, LastStages
  <2>7. Outcome'
    BY <1>2, <1>5 DEF Outcome, AfterTry
  <2> QED
    BY <2>2, <2>3, <2>6, <2>7
<1> QED
  BY <1>3, <1>4, <1>5 DEF Interrupt, RestoreStages

\* The invariant of the end holds in every state of every run.
LEMMA EndInvHolds == Spec => [](RInv /\ EndInv)
<1>1. Init => EndInv
  <2> SUFFICES ASSUME Init PROVE EndInv
    OBVIOUS
  <2>1. args \in ArgsType
    BY ArgsAssumption DEF Init
  <2>2. args.dry_run => ~priv
    BY <2>1 DEF Init, ArgsType
  <2> QED
    BY <2>2 DEF Init, KInit, EndInv, IdleOutside, Unprivileged, Ignoring, Progress, Outcome,
                LastStages, RestoreStages, AfterTry
<1>2. RInv /\ EndInv /\ [Next]_vars => EndInv'
  <2> SUFFICES ASSUME RInv, EndInv, [Next]_vars PROVE EndInv'
    OBVIOUS
  <2>1. CASE Main
    BY <2>1, BodyEnd, FinallyEnd DEF Main, Body, FinallyBlock
  <2>2. CASE UNCHANGED vars
    BY <2>2 DEF vars, kvars, rvars, EndInv, IdleOutside, Unprivileged, Ignoring, Progress,
                Restoring, Settled, Outcome
  <2> QED
    BY <2>1, <2>2, CallEnd, SignalEnd DEF Next, Terminated
<1> QED
  BY <1>1, <1>2, RInvHolds, PTL DEF Spec

\* Whatever fails and whatever signals arrive, a run that ends has put every
\* setting back or names it in a warning and fails, unless a signal struck before
\* the restoration had begun to ignore them.
THEOREM UnrestoredReported == Spec => []UnrestoredIsReported
<1>1. RInv /\ EndInv => UnrestoredIsReported
  BY DEF EndInv, Progress, Outcome, Settled, UnrestoredIsReported, Unrestored, Ended
<1> QED
  BY <1>1, EndInvHolds, PTL

\* A run with exit status 0 ran every command, was not signalled, and leaves the
\* host as it was.
THEOREM SuccessIsClean == Spec => []SuccessMeansClean
<1>1. RInv /\ EndInv => SuccessMeansClean
  <2> SUFFICES ASSUME RInv, EndInv, exit = 0
               PROVE  Unrestored = {} /\ signals = 0 /\ plan = <<>>
    BY DEF SuccessMeansClean
  <2>1. stage = "exit" /\ ~cut /\ warned = {} /\ pending = "none"
    BY DEF EndInv, Outcome
  <2>2. Unrestored = {}
    BY <2>1 DEF EndInv, Progress, Settled, Unrestored
  <2>3. signals = 0 /\ plan = <<>>
    BY <2>1 DEF EndInv, Outcome, AfterTry, RInv, RTypeOK
  <2> QED
    BY <2>2, <2>3
<1> QED
  BY <1>1, EndInvHolds, PTL

\* Once both signals are ignored nothing interrupts the restoration.
THEOREM RestorationCompletes == Spec => RestorationIsNotInterrupted
<1> DEFINE A == ~args.dry_run /\ stage \in RestoreStages
                => /\ signals' = signals
                   /\ stage' \in RestoreStages \cup {"handler_int"}
<1>1. RInv /\ EndInv /\ [Next]_vars => A
  <2> SUFFICES ASSUME RInv, EndInv, [Next]_vars, ~args.dry_run, stage \in RestoreStages
               PROVE  signals' = signals /\ stage' \in RestoreStages \cup {"handler_int"}
    OBVIOUS
  <2>1. ~Signal
    BY DEF Signal, Interrupt, Signals, EndInv, Ignoring
  <2>2. ~Body
    BY BodySteps DEF RestoreStages, TryStages
  <2>3. CASE FinallyBlock
    BY <2>3 DEF FinallyBlock, Finally, FinallyTerm, RestoreHuge, RestoreHugeDone,
                RestoreSettings, RestoreSettingsDone, HandlerInt, HandlerTerm, Verdict,
                RestoreStages, Goto, KeepBody
  <2>4. CASE InCall \/ Terminated \/ UNCHANGED vars
    BY <2>4 DEF InCall, Terminated, vars, rvars
  <2> QED
    BY <2>1, <2>2, <2>3, <2>4 DEF Next, Main, Body, FinallyBlock
<1>2. A => [/\ ~args.dry_run
            /\ stage \in {"restore_huge", "restore_huge_call",
                          "restore_settings", "restore_settings_call"}
            => /\ signals' = signals
               /\ stage' \in {"restore_huge", "restore_huge_call", "restore_settings",
                              "restore_settings_call", "handler_int"}]_vars
  BY DEF RestoreStages
<1> QED
  BY <1>1, <1>2, EndInvHolds, PTL DEF Spec, RestorationIsNotInterrupted

(***************************************************************************)
(* The suite runner implements HostTransaction: the initial state is one   *)
(* of the abstract transaction, and every step of the runner and of its    *)
(* settings objects is an abstract step or leaves the transaction as it is.*)
(***************************************************************************)
AStep == [Transaction!Next]_(Transaction!tvars)

Changing == TryStages \cup {"validate"}
Window == {"finally", "finally_term"}
Closing == RestoreStages \cup LastStages

\* The abstract phase of each stage.
LEMMA PhaseOf ==
    ASSUME stage = "exit" <=> exit # -1
    PROVE  /\ stage \in Changing => TransactionPhase = "changing"
           /\ stage \in Window => TransactionPhase = "window"
           /\ stage \in Closing => TransactionPhase = "restoring"
           /\ stage = "exit" => TransactionPhase = "over"
BY DEF TransactionPhase, Ended, TryStages, Changing, Window, Closing, RestoreStages, LastStages

\* The same, after a step.
LEMMA PhaseAfter ==
    ASSUME (stage = "exit" <=> exit # -1)'
    PROVE  /\ stage' \in Changing => TransactionPhase' = "changing"
           /\ stage' \in Window => TransactionPhase' = "window"
           /\ stage' \in Closing => TransactionPhase' = "restoring"
           /\ stage' = "exit" => TransactionPhase' = "over"
BY DEF TransactionPhase, Ended, TryStages, Changing, Window, Closing, RestoreStages, LastStages

\* A step of restore() leaves every other path alone and brings none away from
\* its initial value.
LEMMA RestorePutsBack ==
    ASSUME KInv, restore
    PROVE  Unrestored' \subseteq Unrestored
<1>1. initial' = initial
  BY DEF restore, RestoreNext, RestoreRead, RestoreWrite, RestoreCheck, settings
<1>2. CASE UNCHANGED kernel
  BY <1>1, <1>2 DEF Unrestored
<1>3. CASE pc = "restore_write" /\ write(cur, original[cur])
  <2>1. cur \in Paths /\ original[cur] = initial[cur] /\ KTypeOK
    BY <1>3 DEF KInv, WorksOnPath, RecordedBeforeWrite
  <2>2. PICK w \in KernelApplies(cur, initial[cur]) : kernel' = [kernel EXCEPT ![cur] = w]
    BY <1>3, <2>1 DEF write
  <2>3. /\ kernel \in [Paths -> Values] /\ initial[cur] \in Values /\ kernel[cur] \in Values
        /\ Values \subseteq Int
    BY <2>1 DEF KTypeOK, Values
  <2>4. kernel[cur] = initial[cur] => w = initial[cur]
    BY <2>2, <2>3 DEF KernelApplies, Values
  <2>5. ASSUME NEW p \in Paths, kernel'[p] # initial[p] PROVE kernel[p] # initial[p]
    BY <2>1, <2>2, <2>3, <2>4, <2>5
  <2> QED
    BY <1>1, <2>5 DEF Unrestored
<1> QED
  BY <1>2, <1>3 DEF restore, RestoreNext, RestoreRead, RestoreWrite, RestoreCheck, settings

\* A step of a call is a change inside the try statement and a restoration after
\* it.
LEMMA CallAbstract == RInv /\ EndInv /\ InCall => AStep
<1> SUFFICES ASSUME RInv, EndInv, InCall PROVE AStep
  OBVIOUS
<1>1. /\ UNCHANGED <<stage, exit, warned>>
      /\ stage = "exit" <=> exit # -1
      /\ pc \notin {"idle", "returned"}
      /\ KInv
  BY DEF InCall, rvars, EndInv, Outcome, RInv, set, restore, SetRead, SetRecord, SetWrite,
         SetCheck, RestoreNext, RestoreRead, RestoreWrite, RestoreCheck
<1>2. UNCHANGED <<TransactionPhase, warned>>
  BY <1>1 DEF TransactionPhase, Ended
<1>3. Unrestored' \in SUBSET Paths
  BY DEF Unrestored
<1>4. CASE stage \in TryStages
  <2>1. TransactionPhase = "changing"
    BY <1>1, <1>4, PhaseOf DEF Changing
  <2> QED
    BY <1>2, <1>3, <2>1 DEF AStep, Transaction!Next, Transaction!Change
<1>5. CASE stage \in {"restore_huge_call", "restore_settings_call"}
  <2>1. TransactionPhase = "restoring"
    BY <1>1, <1>5, PhaseOf DEF Closing, RestoreStages
  <2>2. pc \in {"restore", "restore_read", "restore_write", "restore_check"}
    BY <1>1, <1>5 DEF EndInv, Progress, Restoring
  <2>3. restore
    BY <2>2 DEF InCall, set, SetRead, SetRecord, SetWrite, SetCheck
  <2>4. Unrestored' \subseteq Unrestored
    BY <1>1, <2>3, RestorePutsBack
  <2> QED
    BY <1>2, <2>1, <2>4 DEF AStep, Transaction!Next, Transaction!PutBack
<1>6. stage \in CallStages
  BY <1>1 DEF EndInv, IdleOutside
<1> QED
  BY <1>4, <1>5, <1>6 DEF CallStages, TryStages

\* The body of main(): the try statement, and the validation before it.
LEMMA BodyAbstract ==
    RInv /\ EndInv /\ EndInv' /\ UNCHANGED Unrestored /\ Body => AStep
<1> SUFFICES ASSUME RInv, EndInv, EndInv', UNCHANGED Unrestored, Body PROVE AStep
  OBVIOUS
<1>1. /\ stage = "exit" <=> exit # -1
      /\ (stage = "exit" <=> exit # -1)'
  BY DEF EndInv, Outcome
<1>2. /\ stage \in Changing /\ UNCHANGED warned
      /\ \/ stage' \in TryStages
         \/ stage' = "finally"
         \/ stage = "validate" /\ stage' = "exit"
  BY BodySteps DEF Changing
<1>3. TransactionPhase = "changing"
  BY <1>1, <1>2, PhaseOf
<1>4. CASE stage' \in TryStages
  <2>1. TransactionPhase' = "changing"
    BY <1>1, <1>4, PhaseAfter DEF Changing
  <2> QED
    BY <1>2, <1>3, <2>1 DEF AStep, Transaction!tvars
<1>5. CASE stage' = "finally"
  <2>1. TransactionPhase' = "window"
    BY <1>1, <1>5, PhaseAfter DEF Window
  <2> QED
    BY <1>2, <1>3, <2>1 DEF AStep, Transaction!Next, Transaction!StopChanging
<1>6. CASE stage = "validate" /\ stage' = "exit"
  <2>1. TransactionPhase' = "over"
    BY <1>1, <1>6, PhaseAfter
  <2>2. Unrestored = {}
    BY <1>6 DEF EndInv, Unprivileged, Unrestored
  <2> QED
    BY <1>2, <1>3, <2>1, <2>2 DEF AStep, Transaction!Next, Transaction!Refuse
<1> QED
  BY <1>2, <1>4, <1>5, <1>6

\* The finally block.
LEMMA FinallyAbstract ==
    RInv /\ EndInv /\ EndInv' /\ TypeOK' /\ UNCHANGED Unrestored /\ FinallyBlock => AStep
<1> SUFFICES ASSUME RInv, EndInv, EndInv', TypeOK', UNCHANGED Unrestored, FinallyBlock PROVE AStep
  OBVIOUS
<1>1. /\ stage = "exit" <=> exit # -1
      /\ (stage = "exit" <=> exit # -1)'
      /\ warned' \subseteq Paths
  BY DEF EndInv, Outcome, TypeOK
<1>2. CASE Finally \/ FinallyTerm
  <2>1. stage \in Window /\ stage' \in Window \cup {"restore_huge"} /\ UNCHANGED warned
    BY <1>2 DEF Finally, FinallyTerm, Goto, Window
  <2>2. TransactionPhase = "window" /\ TransactionPhase' \in {"window", "restoring"}
    BY <1>1, <2>1, PhaseOf, PhaseAfter DEF Closing, RestoreStages
  <2> QED
    BY <2>1, <2>2 DEF AStep, Transaction!Next, Transaction!BeginRestoring, Transaction!tvars
<1>3. CASE RestoreHuge \/ RestoreSettings \/ HandlerInt \/ HandlerTerm
  <2>1. stage \in Closing /\ stage' \in Closing /\ UNCHANGED warned
    BY <1>3 DEF RestoreHuge, RestoreSettings, HandlerInt, HandlerTerm, Goto, Closing,
                RestoreStages, LastStages
  <2>2. TransactionPhase = "restoring" /\ TransactionPhase' = "restoring"
    BY <1>1, <2>1, PhaseOf, PhaseAfter
  <2> QED
    BY <2>1, <2>2 DEF AStep, Transaction!tvars
<1>4. CASE RestoreHugeDone \/ RestoreSettingsDone
  <2>1. stage \in Closing /\ stage' \in Closing /\ warned \subseteq warned'
    BY <1>4 DEF RestoreHugeDone, RestoreSettingsDone, Collect, Goto, Closing, RestoreStages,
                LastStages
  <2>2. TransactionPhase = "restoring" /\ TransactionPhase' = "restoring"
    BY <1>1, <2>1, PhaseOf, PhaseAfter
  <2> QED
    BY <1>1, <2>1, <2>2 DEF AStep, Transaction!Next, Transaction!Name
<1>5. CASE Verdict
  <2>1. stage \in Closing /\ stage \in LastStages /\ stage' = "exit" /\ UNCHANGED warned
    BY <1>5 DEF Verdict, Goto, Closing, LastStages
  <2>2. TransactionPhase = "restoring" /\ TransactionPhase' = "over"
    BY <1>1, <2>1, PhaseOf, PhaseAfter
  <2>3. Unrestored \subseteq warned
    BY <2>1 DEF EndInv, Progress, Settled, Unrestored
  <2> QED
    BY <2>1, <2>2, <2>3 DEF AStep, Transaction!Next, Transaction!End
<1> QED
  BY <1>2, <1>3, <1>4, <1>5 DEF FinallyBlock

\* A signal.
LEMMA SignalAbstract ==
    RInv /\ EndInv /\ EndInv' /\ UNCHANGED Unrestored /\ Signal => AStep
<1> SUFFICES ASSUME RInv, EndInv, EndInv', UNCHANGED Unrestored, NEW sig \in Signals,
                    Interrupt(sig)
             PROVE  AStep
  BY DEF Signal
<1>1. /\ stage = "exit" <=> exit # -1
      /\ (stage = "exit" <=> exit # -1)'
      /\ UNCHANGED warned
  BY DEF EndInv, Outcome, Interrupt
<1>2. CASE stage \in TryStages
  <2>1. stage' = "finally"
    BY <1>2 DEF Interrupt, Raise, Goto, TryStages
  <2>2. TransactionPhase = "changing" /\ TransactionPhase' = "window"
    BY <1>1, <1>2, <2>1, PhaseOf, PhaseAfter DEF Changing, Window
  <2> QED
    BY <1>1, <2>2 DEF AStep, Transaction!Next, Transaction!StopChanging
<1>3. CASE stage \in RestoreStages
  <2>1. stage' = "handler_int"
    BY <1>3 DEF Interrupt, Goto, TryStages, RestoreStages
  <2>2. TransactionPhase = "restoring" /\ TransactionPhase' = "restoring"
    BY <1>1, <1>3, <2>1, PhaseOf, PhaseAfter DEF Closing, LastStages
  <2> QED
    BY <1>1, <2>2 DEF AStep, Transaction!tvars
<1>4. CASE stage \in {"validate"} \cup Window \cup LastStages
  <2>1. stage' = "exit"
    BY <1>4 DEF Interrupt, Goto, TryStages, Window, LastStages
  <2>2. TransactionPhase' = "over"
    BY <1>1, <2>1, PhaseAfter
  <2>3. CASE stage = "validate"
    <3>1. TransactionPhase = "changing" /\ Unrestored = {}
      BY <1>1, <2>3, PhaseOf DEF Changing, EndInv, Unprivileged, Unrestored
    <3> QED
      BY <1>1, <2>2, <3>1 DEF AStep, Transaction!Next, Transaction!Refuse
  <2>4. CASE stage \in Window
    <3>1. TransactionPhase = "window"
      BY <1>1, <2>4, PhaseOf
    <3> QED
      BY <1>1, <2>2, <3>1 DEF AStep, Transaction!Next, Transaction!Abandon
  <2>5. CASE stage \in LastStages
    <3>1. TransactionPhase = "restoring" /\ Unrestored \subseteq warned
      BY <1>1, <2>5, PhaseOf DEF Closing, EndInv, Progress, Settled, Unrestored
    <3> QED
      BY <1>1, <2>2, <3>1 DEF AStep, Transaction!Next, Transaction!End
  <2> QED
    BY <1>4, <2>3, <2>4, <2>5
<1> QED
  BY <1>2, <1>3, <1>4 DEF Interrupt, RestoreStages, Window, LastStages

\* The suite runner implements the abstract transaction, for any host, any
\* command lines and any number of signals.
THEOREM TransactionKept == Spec => KeepsTransaction
<1>1. Init => Transaction!Init
  <2> SUFFICES ASSUME Init PROVE Transaction!Init
    OBVIOUS
  <2>1. TransactionPhase = "changing" /\ Unrestored = {} /\ warned = {}
    BY DEF Init, KInit, TransactionPhase, Ended, Unrestored
  <2> QED
    BY <2>1 DEF Transaction!Init
<1>2. /\ RInv /\ EndInv /\ TypeOK
      /\ (RInv /\ EndInv /\ TypeOK)'
      /\ [Next]_vars
      => [Transaction!Next]_(Transaction!tvars)
  <2> SUFFICES ASSUME RInv, EndInv, EndInv', TypeOK', [Next]_vars PROVE AStep
    BY DEF AStep
  <2>1. CASE InCall
    BY <2>1, CallAbstract
  <2>2. CASE Main \/ Signal
    <3>1. UNCHANGED Unrestored
      BY <2>2, MainChangesNothing DEF Unrestored
    <3>2. CASE Body
      BY <3>1, <3>2, BodyAbstract
    <3>3. CASE FinallyBlock
      BY <3>1, <3>3, FinallyAbstract
    <3>4. CASE Signal
      BY <3>1, <3>4, SignalAbstract
    <3> QED
      BY <2>2, <3>2, <3>3, <3>4 DEF Main, Body, FinallyBlock
  <2>3. CASE UNCHANGED vars
    <3>1. UNCHANGED <<TransactionPhase, Unrestored, warned>>
      BY <2>3 DEF vars, kvars, rvars, TransactionPhase, Ended, Unrestored
    <3> QED
      BY <3>1 DEF AStep, Transaction!tvars
  <2> QED
    BY <2>1, <2>2, <2>3 DEF Next, Terminated
<1> QED
  BY <1>1, <1>2, EndInvHolds, TypeCorrect, PTL DEF Spec, KeepsTransaction, Transaction!Spec

(***************************************************************************)
(* The configuration in which the benchmarks run.                          *)
(***************************************************************************)
USE NumNodesAssumption, MaxValueAssumption, EligibleAssumption, WantAssumption

\* The size of a pool that setup_huge_pages has provisioned.
Goal(n) == IF n \in Eligible THEN Max2(initial[n], Want) ELSE initial[n]

PoolsUpTo(k) == \A n \in Nodes : kernel[n] = IF n < k THEN Goal(n) ELSE initial[n]

AutonumaKnown == kernel[Autonuma] \in {0, initial[Autonuma]}

\* set(p, v) is at work; when it returns without an exception the value is v.
Setting(p, v) ==
    /\ cur = p /\ tgt = v
    /\ pc \in {"set_read", "set_record", "set_write", "set_check", "returned"}
    /\ pc = "returned" /\ exc = "none" => kernel[p] = v

\* The configuration at each stage up to the benchmarks.
ConfInv ==
    /\ stage \in {"validate", "autonuma"} => kernel = initial
    /\ stage = "autonuma_set" => Setting(Autonuma, 0) /\ PoolsUpTo(1)
    /\ stage = "autonuma_undo" => Restoring(0, 0) /\ PoolsUpTo(1)
    /\ stage \in {"huge", "huge_prep"} => AutonumaKnown /\ PoolsUpTo(1)
    /\ stage = "huge_prep" => node = 1
    /\ stage = "huge_node" => AutonumaKnown /\ PoolsUpTo(node)
    /\ stage = "huge_set" =>
          /\ AutonumaKnown
          /\ node \in Eligible /\ Setting(node, Goal(node))
          /\ \A n \in Nodes \ {node} : kernel[n] = IF n < node THEN Goal(n) ELSE initial[n]
    /\ stage = "huge_undo" => AutonumaKnown /\ Restoring(1, NumNodes)
    /\ stage \in {"huge_prep", "huge_node", "huge_set"} => args.hugepages = "auto"
    /\ stage \in (TryStages \cup {"validate"}) \ {"bench"} => huge_size = FALSE
    /\ BenchmarksSeeWholeConfiguration

\* A step of set() touches only its path, and returns without an exception only
\* with the value set.
LEMMA SettingStep ==
    ASSUME KInv, set, NEW p \in Paths, NEW v \in Values, Setting(p, v)
    PROVE  /\ Setting(p, v)'
           /\ \A q \in Paths : q # p => kernel'[q] = kernel[q]
           /\ initial' = initial
<1> USE DEF Setting, Finish, settings
<1>1. CASE SetRead
  BY <1>1 DEF SetRead
<1>2. CASE SetRecord
  BY <1>2 DEF SetRecord
<1>3. CASE SetWrite
  <2>1. UNCHANGED <<initial, cur, tgt>> /\ KTypeOK
    BY <1>3 DEF SetWrite, KInv
  <2>2. CASE Finish("os") /\ UNCHANGED kernel
    BY <2>1, <2>2
  <2>3. CASE write(cur, tgt) /\ pc' = "set_check" /\ UNCHANGED exc
    BY <2>1, <2>3, WriteEffect
  <2> QED
    BY <1>3, <2>2, <2>3 DEF SetWrite
<1>4. CASE SetCheck
  BY <1>4 DEF SetCheck
<1> QED
  BY <1>1, <1>2, <1>3, <1>4 DEF set

\* In a call of set() a step is one of set(), in a call of restore() one of restore().
LEMMA StepOfCall ==
    /\ \A p, v : Setting(p, v) /\ (set \/ restore) => set
    /\ \A p, q : Restoring(p, q) /\ (set \/ restore) => restore
BY DEF Setting, Restoring, set, restore, SetRead, SetRecord, SetWrite, SetCheck, RestoreNext,
       RestoreRead, RestoreWrite, RestoreCheck

\* Every step of a call keeps the configuration of its stage.
LEMMA CallConf == RInv /\ EndInv /\ ConfInv /\ InCall => ConfInv'
<1> SUFFICES ASSUME RInv, EndInv, ConfInv, InCall PROVE ConfInv'
  OBVIOUS
<1>1. /\ KInv /\ (set \/ restore) /\ UNCHANGED <<args, stage, node, huge_size, plan>>
  BY DEF InCall, rvars, RInv
<1>2. stage \in CallStages
  <2>1. pc # "idle"
    BY <1>1 DEF set, restore, SetRead, SetRecord, SetWrite, SetCheck, RestoreNext,
                RestoreRead, RestoreWrite, RestoreCheck
  <2> QED
    BY <2>1 DEF EndInv, IdleOutside
<1>3. /\ Autonuma \in Paths /\ 0 \in Values /\ NumNodes \in Paths /\ Nodes \subseteq Paths
      /\ \A n \in Nodes : n # Autonuma /\ Goal(n) \in Values
  <2>1. initial \in [Paths -> Values]
    BY <1>1 DEF KInv, KTypeOK
  <2> QED
    BY <2>1 DEF Autonuma, Paths, Values, Nodes, Goal, Max2
<1>4. CASE stage = "autonuma_set"
  <2>1. Setting(Autonuma, 0) /\ PoolsUpTo(1)
    BY <1>4 DEF ConfInv
  <2>2. /\ Setting(Autonuma, 0)' /\ initial' = initial
        /\ \A q \in Paths : q # Autonuma => kernel'[q] = kernel[q]
    BY <1>1, <1>3, <2>1, StepOfCall, SettingStep
  <2>3. PoolsUpTo(1)'
    BY <1>3, <2>1, <2>2 DEF PoolsUpTo, Goal
  <2> QED
    BY <1>1, <1>4, <2>2, <2>3 DEF ConfInv, BenchmarksSeeWholeConfiguration
<1>5. CASE stage = "autonuma_undo"
  <2>1. Restoring(0, 0) /\ PoolsUpTo(1) /\ restore
    BY <1>1, <1>5, StepOfCall DEF ConfInv
  <2>2. /\ Restoring(0, 0)'
        /\ \A q \in Paths : q \notin 0..0 => kernel'[q] = kernel[q]
    BY <1>1, <1>3, <2>1, RestoringStep DEF Autonuma
  <2>3. initial' = initial
    BY <2>1 DEF restore, RestoreNext, RestoreRead, RestoreWrite, RestoreCheck, settings
  <2>4. \A n \in Nodes : n \in Paths /\ n \notin 0..0
    BY DEF Nodes, Paths
  <2>5. PoolsUpTo(1)'
    BY <2>1, <2>2, <2>3, <2>4 DEF PoolsUpTo, Goal
  <2> QED
    BY <1>1, <1>5, <2>2, <2>5 DEF ConfInv, BenchmarksSeeWholeConfiguration
<1>6. CASE stage = "huge_set"
  <2>1. /\ AutonumaKnown /\ node \in Eligible /\ Setting(node, Goal(node))
        /\ \A n \in Nodes \ {node} : kernel[n] = IF n < node THEN Goal(n) ELSE initial[n]
    BY <1>6 DEF ConfInv
  <2>2. node \in Paths /\ node # Autonuma /\ Goal(node) \in Values
    BY <1>3, <2>1
  <2>3. /\ Setting(node, Goal(node))' /\ initial' = initial
        /\ \A q \in Paths : q # node => kernel'[q] = kernel[q]
    <3>1. \A p \in Paths, v \in Values :
             Setting(p, v) => /\ cur' = p /\ tgt' = v
                              /\ pc' \in {"set_read", "set_record", "set_write", "set_check", "returned"}
                              /\ pc' = "returned" /\ exc' = "none" => kernel'[p] = v
                              /\ \A q \in Paths : q # p => kernel'[q] = kernel[q]
                              /\ initial' = initial
      BY <1>1, StepOfCall, SettingStep DEF Setting
    <3>2. initial' = initial /\ node' = node /\ Goal(node)' = Goal(node)
      BY <1>1, <2>1, <2>2, <3>1 DEF Goal
    <3> QED
      BY <2>1, <2>2, <3>1, <3>2 DEF Setting
  <2>4. AutonumaKnown'
    BY <1>3, <2>1, <2>2, <2>3 DEF AutonumaKnown
  <2>5. \A n \in Nodes \ {node} : kernel'[n] = IF n < node THEN Goal(n)' ELSE initial'[n]
    BY <1>3, <2>1, <2>3 DEF Goal
  <2> QED
    BY <1>1, <1>6, <2>1, <2>3, <2>4, <2>5 DEF ConfInv, BenchmarksSeeWholeConfiguration
<1>7. CASE stage = "huge_undo"
  <2>1. AutonumaKnown /\ Restoring(1, NumNodes) /\ restore
    BY <1>1, <1>7, StepOfCall DEF ConfInv
  <2>2. /\ Restoring(1, NumNodes)'
        /\ \A q \in Paths : q \notin 1..NumNodes => kernel'[q] = kernel[q]
    BY <1>1, <1>3, <2>1, RestoringStep
  <2>3. initial' = initial
    BY <2>1 DEF restore, RestoreNext, RestoreRead, RestoreWrite, RestoreCheck, settings
  <2>4. AutonumaKnown'
    BY <1>3, <2>1, <2>2, <2>3 DEF AutonumaKnown, Autonuma
  <2> QED
    BY <1>1, <1>7, <2>2, <2>4 DEF ConfInv, BenchmarksSeeWholeConfiguration
<1>8. CASE stage \in {"restore_huge_call", "restore_settings_call"}
  BY <1>1, <1>8 DEF ConfInv, TryStages, BenchmarksSeeWholeConfiguration
<1> QED
  BY <1>2, <1>4, <1>5, <1>6, <1>7, <1>8 DEF CallStages

\* In the configuration with all pools done, or with none, benchmarks may run.
LEMMA WholeConfiguration ==
    ASSUME AutonumaKnown,
           \/ PoolsUpTo(1) /\ ~(huge_size' /\ args.hugepages = "auto")
           \/ PoolsUpTo(NumNodes + 1) /\ huge_size' /\ args.hugepages = "auto",
           UNCHANGED <<kernel, initial, args>>
    PROVE  BenchmarksSeeWholeConfiguration'
BY DEF AutonumaKnown, PoolsUpTo, Goal, BenchmarksSeeWholeConfiguration, Nodes

\* Outside the try statement the invariant says nothing.
LEMMA ConfAfterTry == stage' \notin TryStages \cup {"validate"} => ConfInv'
BY DEF ConfInv, TryStages, BenchmarksSeeWholeConfiguration

\* Validation, and the calls that disable NUMA balancing.
LEMMA AutonumaConf ==
    RInv /\ ConfInv /\ (Validate \/ AutonumaSkip \/ AutonumaSet \/ AutonumaSetDone
                       \/ AutonumaUndoDone) => ConfInv'
<1> SUFFICES ASSUME RInv, ConfInv,
                    \/ Validate \/ AutonumaSkip \/ AutonumaSet \/ AutonumaSetDone
                    \/ AutonumaUndoDone
             PROVE  ConfInv'
  OBVIOUS
<1> USE DEF ConfInv, TryStages, Goto, KeepLocals
<1>1. UNCHANGED <<kernel, initial>>
  BY MainChangesNothing DEF Main
<1>2. kernel = initial => PoolsUpTo(1) /\ AutonumaKnown
  BY DEF PoolsUpTo, Nodes, AutonumaKnown
<1>3. PoolsUpTo(1) => PoolsUpTo(1)'
  BY <1>1 DEF PoolsUpTo, Goal
<1>4. AutonumaKnown => AutonumaKnown'
  BY <1>1 DEF AutonumaKnown
<1>5. CASE Validate
  BY <1>1, <1>5 DEF Validate, BenchmarksSeeWholeConfiguration
<1>6. CASE AutonumaSkip
  <2>1. kernel = initial /\ huge_size = FALSE
    BY <1>6 DEF AutonumaSkip
  <2>2. CASE stage' = "bench" /\ plan' = <<>>
    BY <2>2 DEF BenchmarksSeeWholeConfiguration
  <2>3. CASE stage' = "huge" /\ UNCHANGED <<huge_size, plan>>
    BY <1>2, <1>3, <1>4, <2>1, <2>3 DEF BenchmarksSeeWholeConfiguration
  <2> QED
    BY <1>6, <2>2, <2>3 DEF AutonumaSkip
<1>7. CASE AutonumaSet
  <2>1. stage' = "autonuma_set" /\ kernel = initial /\ huge_size' = FALSE
    BY <1>7 DEF AutonumaSet
  <2>2. Setting(Autonuma, 0)'
    BY <1>7 DEF AutonumaSet, CallSet, Setting
  <2> QED
    BY <1>2, <1>3, <2>1, <2>2 DEF BenchmarksSeeWholeConfiguration
<1>8. CASE AutonumaSetDone
  <2>1. Setting(Autonuma, 0) /\ PoolsUpTo(1) /\ pc = "returned" /\ huge_size' = FALSE
    BY <1>8 DEF AutonumaSetDone
  <2>2. CASE exc = "none" /\ stage' = "huge"
    <3>1. AutonumaKnown
      BY <2>1, <2>2 DEF Setting, AutonumaKnown
    <3> QED
      BY <1>3, <1>4, <2>1, <2>2, <3>1 DEF BenchmarksSeeWholeConfiguration
  <2>3. CASE CallRestore(Autonuma, Autonuma) /\ stage' = "autonuma_undo"
    <3>1. Restoring(0, 0)'
      BY <2>3 DEF CallRestore, Restoring, Autonuma
    <3> QED
      BY <1>3, <2>1, <2>3, <3>1 DEF BenchmarksSeeWholeConfiguration
  <2>4. CASE Raise("value")
    BY <2>4, ConfAfterTry DEF Raise
  <2> QED
    BY <1>8, <2>2, <2>3, <2>4 DEF AutonumaSetDone
<1>9. CASE AutonumaUndoDone
  <2>1. Restoring(0, 0) /\ PoolsUpTo(1) /\ pc = "returned" /\ huge_size' = FALSE
    BY <1>9 DEF AutonumaUndoDone
  <2>2. CASE exc = "none" /\ stage' = "huge"
    <3>1. kernel[0] = initial[0]
      BY <2>1, <2>2 DEF Restoring
    <3>2. AutonumaKnown
      BY <3>1 DEF AutonumaKnown, Autonuma
    <3> QED
      BY <1>3, <1>4, <2>1, <2>2, <3>2 DEF BenchmarksSeeWholeConfiguration
  <2>3. CASE stage' = "finally"
    BY <2>3, ConfAfterTry
  <2> QED
    BY <1>9, <2>2, <2>3 DEF AutonumaUndoDone, Raise
<1> QED
  BY <1>5, <1>6, <1>7, <1>8, <1>9

\* The decision about huge pages, and their provisioning up to a node's pool.
LEMMA HugeConf ==
    RInv /\ ConfInv /\ (HugeSkip \/ HugeExisting \/ HugeSetup \/ HugePrep \/ HugeNode) => ConfInv'
<1> SUFFICES ASSUME RInv, ConfInv,
                    HugeSkip \/ HugeExisting \/ HugeSetup \/ HugePrep \/ HugeNode
             PROVE  ConfInv'
  OBVIOUS
<1> USE DEF ConfInv, TryStages, Goto, KeepLocals
<1>1. UNCHANGED <<kernel, initial, args>>
  BY MainChangesNothing DEF Main, HugeSkip, HugeExisting, HugeSetup, HugePrep, HugeNode
<1>2. AutonumaKnown /\ AutonumaKnown' /\ huge_size = FALSE
  BY <1>1 DEF HugeSkip, HugeExisting, HugeSetup, HugePrep, HugeNode, AutonumaKnown
<1>3. \A k : PoolsUpTo(k) => PoolsUpTo(k)'
  BY <1>1 DEF PoolsUpTo, Goal
<1>4. ASSUME CallRestore(NumNodes, 1), stage' = "huge_undo", huge_size' = FALSE
      PROVE  ConfInv'
  <2>1. Restoring(1, NumNodes)'
    BY <1>4 DEF CallRestore, Restoring
  <2> QED
    BY <1>2, <1>4, <2>1 DEF BenchmarksSeeWholeConfiguration
<1>5. CASE HugeSkip
  <2>1. stage' = "bench" /\ PoolsUpTo(1) /\ huge_size' = FALSE
    BY <1>2, <1>5 DEF HugeSkip, RunTests
  <2> QED
    BY <1>1, <1>2, <2>1, WholeConfiguration
<1>6. CASE HugeExisting
  <2>1. PoolsUpTo(1) /\ args.hugepages # "auto"
    BY <1>6 DEF HugeExisting
  <2>2. stage' \in {"bench", "finally"}
    BY <1>6 DEF HugeExisting, RunTests, Raise
  <2> QED
    BY <1>1, <1>2, <2>1, <2>2, WholeConfiguration
<1>7. CASE HugeSetup
  <2>1. PoolsUpTo(1) /\ args.hugepages = "auto" /\ huge_size' = FALSE
    BY <1>2, <1>7 DEF HugeSetup
  <2>2. CASE stage' = "huge_prep" /\ node' = 1
    BY <1>1, <1>2, <1>3, <2>1, <2>2 DEF BenchmarksSeeWholeConfiguration
  <2> QED
    BY <1>4, <1>7, <2>1, <2>2 DEF HugeSetup
<1>8. CASE HugePrep
  <2>1. PoolsUpTo(1) /\ args.hugepages = "auto" /\ node = 1 /\ node' = 1 /\ huge_size' = FALSE
    BY <1>2, <1>8 DEF HugePrep
  <2>2. CASE stage' \in {"huge_prep", "huge_node"}
    BY <1>1, <1>2, <1>3, <2>1, <2>2 DEF BenchmarksSeeWholeConfiguration
  <2> QED
    BY <1>4, <1>8, <2>1, <2>2 DEF HugePrep
<1>9. CASE HugeNode
  <2>1. PoolsUpTo(node) /\ args.hugepages = "auto" /\ node \in Int
    BY <1>9 DEF HugeNode, RInv, RTypeOK
  <2>2. CASE /\ node \in Eligible /\ CallSet(node, Max2(kernel[node], Want))
             /\ stage' = "huge_set" /\ UNCHANGED <<node, huge_size, plan>>
    <3>1. node \in Nodes /\ kernel[node] = initial[node]
      BY <2>1, <2>2 DEF PoolsUpTo
    <3>2. Goal(node)' = Max2(kernel[node], Want)
      BY <1>1, <2>2, <3>1 DEF Goal
    <3>3. Setting(node, Goal(node))'
      BY <2>2, <3>2 DEF CallSet, Setting
    <3>4. \A n \in Nodes \ {node} : kernel'[n] = IF n < node THEN Goal(n)' ELSE initial'[n]
      BY <1>1, <2>1 DEF PoolsUpTo, Goal
    <3> QED
      BY <1>1, <1>2, <2>1, <2>2, <3>3, <3>4 DEF BenchmarksSeeWholeConfiguration
  <2>3. CASE /\ CallRestore(NumNodes, 1) /\ stage' = "huge_undo" /\ UNCHANGED huge_size
    BY <1>2, <1>4, <2>3
  <2>4. CASE /\ node \in Nodes \ Eligible /\ node' = node + 1
             /\ UNCHANGED <<kvars, stage, huge_size, plan>>
    <3>1. Goal(node) = initial[node] /\ node \in Int
      BY <2>1, <2>4 DEF Goal
    <3>2. \A n \in Nodes : n < node + 1 => n < node \/ n = node
      BY <3>1 DEF Nodes
    <3>3. \A n \in Nodes : n < node => n < node + 1
      BY <3>1 DEF Nodes
    <3>4. PoolsUpTo(node + 1)
      BY <2>1, <3>1, <3>2, <3>3 DEF PoolsUpTo
    <3>5. PoolsUpTo(node)'
      BY <1>1, <2>4, <3>4 DEF PoolsUpTo, Goal
    <3>6. stage' = "huge_node"
      BY <1>9, <2>4 DEF HugeNode
    <3> QED
      BY <1>1, <1>2, <2>1, <2>4, <3>5, <3>6 DEF BenchmarksSeeWholeConfiguration
  <2>5. CASE node > NumNodes /\ huge_size' = TRUE /\ RunTests(TRUE, prefix)
    <3>1. \A n \in Nodes : n < node /\ n < NumNodes + 1
      BY <2>1, <2>5 DEF Nodes
    <3>2. PoolsUpTo(NumNodes + 1) /\ stage' = "bench"
      BY <2>1, <2>5, <3>1 DEF PoolsUpTo, RunTests
    <3> QED
      BY <1>1, <1>2, <2>1, <2>5, <3>2, WholeConfiguration
  <2> QED
    BY <1>9, <2>2, <2>3, <2>4, <2>5 DEF HugeNode
<1> QED
  BY <1>5, <1>6, <1>7, <1>8, <1>9

\* The ends of the calls of the provisioning, and the benchmarks.
LEMMA HugeDoneConf ==
    RInv /\ ConfInv /\ (HugeSetDone \/ HugeUndoDone \/ run_benchmark) => ConfInv'
<1> SUFFICES ASSUME RInv, ConfInv, HugeSetDone \/ HugeUndoDone \/ run_benchmark
             PROVE  ConfInv'
  OBVIOUS
<1> USE DEF ConfInv, TryStages, Goto, KeepLocals
<1>1. UNCHANGED <<kernel, initial, args>>
  BY MainChangesNothing DEF Main, HugeSetDone, HugeUndoDone, run_benchmark
<1>2. AutonumaKnown => AutonumaKnown'
  BY <1>1 DEF AutonumaKnown
<1>3. CASE HugeSetDone
  <2>1. /\ AutonumaKnown /\ node \in Eligible /\ Setting(node, Goal(node))
        /\ \A n \in Nodes \ {node} : kernel[n] = IF n < node THEN Goal(n) ELSE initial[n]
        /\ pc = "returned" /\ huge_size' = FALSE /\ args.hugepages = "auto"
    BY <1>3 DEF HugeSetDone
  <2>2. CASE exc = "none" /\ stage' = "huge_node" /\ node' = node + 1
    <3>1. kernel[node] = Goal(node) /\ node \in Int
      BY <2>1, <2>2 DEF Setting, Nodes
    <3>2. \A n \in Nodes : n # node => (n < node + 1 <=> n < node)
      BY <3>1 DEF Nodes
    <3>3. node < node + 1
      BY <3>1
    <3>4. PoolsUpTo(node + 1)
      BY <2>1, <3>1, <3>2, <3>3 DEF PoolsUpTo
    <3>5. PoolsUpTo(node)'
      BY <1>1, <2>2, <3>4 DEF PoolsUpTo, Goal
    <3> QED
      BY <1>1, <1>2, <2>1, <2>2, <3>5 DEF BenchmarksSeeWholeConfiguration
  <2>3. CASE CallRestore(NumNodes, 1) /\ stage' = "huge_undo"
    <3>1. Restoring(1, NumNodes)'
      BY <2>3 DEF CallRestore, Restoring
    <3> QED
      BY <1>2, <2>1, <2>3, <3>1 DEF BenchmarksSeeWholeConfiguration
  <2> QED
    BY <1>3, <2>2, <2>3 DEF HugeSetDone
<1>4. CASE HugeUndoDone
  <2>1. AutonumaKnown /\ Restoring(1, NumNodes) /\ pc = "returned" /\ huge_size' = FALSE
    BY <1>4 DEF HugeUndoDone
  <2>2. CASE exc = "none" /\ stage' = "bench"
    <3>1. cur < 1 /\ errors = {} /\ cur \in Int
      BY <2>1, <2>2 DEF Restoring, RInv, KInv, KTypeOK
    <3>2. \A n \in Nodes : kernel[n] = initial[n] /\ ~(n < 1)
      BY <2>1, <3>1 DEF Restoring, Nodes
    <3>3. PoolsUpTo(1)
      BY <3>2 DEF PoolsUpTo
    <3> QED
      BY <1>1, <2>1, <2>2, <3>3, WholeConfiguration
  <2>3. CASE stage' = "finally"
    BY <2>3, ConfAfterTry
  <2> QED
    BY <1>4, <2>2, <2>3 DEF HugeUndoDone, RunTests, Raise
<1>5. CASE run_benchmark
  <2>1. CASE stage' = "bench" /\ plan # <<>> /\ stage = "bench"
    BY <1>1, <1>5, <2>1 DEF run_benchmark, BenchmarksSeeWholeConfiguration
  <2>2. CASE stage' = "finally"
    BY <2>2, ConfAfterTry
  <2> QED
    BY <1>5, <2>1, <2>2 DEF run_benchmark, Raise
<1> QED
  BY <1>3, <1>4, <1>5

\* The invariant of the configuration holds in every state of every run.
LEMMA ConfInvHolds == Spec => [](RInv /\ EndInv /\ ConfInv)
<1>1. Init => ConfInv
  BY DEF Init, KInit, ConfInv, BenchmarksSeeWholeConfiguration
<1>2. RInv /\ EndInv /\ ConfInv /\ [Next]_vars => ConfInv'
  <2> SUFFICES ASSUME RInv, EndInv, ConfInv, [Next]_vars PROVE ConfInv'
    OBVIOUS
  <2>1. CASE Body
    BY <2>1, AutonumaConf, HugeConf, HugeDoneConf DEF Body
  <2>2. CASE FinallyBlock
    BY <2>2, ConfAfterTry DEF FinallyBlock, Finally, FinallyTerm, RestoreHuge, RestoreHugeDone,
       RestoreSettings, RestoreSettingsDone, HandlerInt, HandlerTerm, Verdict, Goto, TryStages
  <2>3. CASE Signal
    BY <2>3, ConfAfterTry DEF Signal, Interrupt, Raise, Goto, TryStages
  <2>4. CASE UNCHANGED vars
    BY <2>4 DEF vars, kvars, rvars, ConfInv, Setting, Restoring, PoolsUpTo, Goal,
                AutonumaKnown, BenchmarksSeeWholeConfiguration
  <2> QED
    BY <2>1, <2>2, <2>3, <2>4, CallConf DEF Next, Main, Body, FinallyBlock, Terminated
<1> QED
  BY <1>1, <1>2, EndInvHolds, PTL DEF Spec

\* Whenever a benchmark runs, NUMA balancing is off or as it was found, and the
\* pools are all provisioned or all as they were.
THEOREM BenchmarksAreConfigured == Spec => []BenchmarksSeeWholeConfiguration
<1>1. ConfInv => BenchmarksSeeWholeConfiguration
  BY DEF ConfInv
<1> QED
  BY <1>1, ConfInvHolds, PTL

-----------------------------------------------------------------------------
(***************************************************************************)
(* The other clients of KernelSettings: the helper scripts run by hand.    *)
(***************************************************************************)
\* The value a path has when the helper is done with it.
Asked(p) == IF p \in Set THEN Target(p, initial[p]) ELSE initial[p]

DoneUpTo(k) == \A p \in Paths : kernel[p] = IF p < k THEN Asked(p) ELSE initial[p]

\* How far the helper is at each stage.
HelperInv ==
    /\ KInv
    /\ action \in PoolActions \cup AutonumaActions
    /\ path \in 0..(NumNodes + 1)
    /\ status # -1 => place = "exit"
    /\ place \in {"begin", "one_shots"} => path = 0
    /\ place \in {"begin", "one_shots", "paths"} => DoneUpTo(path)
    /\ place = "set" =>
          /\ path \in Set /\ Setting(path, Asked(path))
          /\ \A p \in Paths \ {path} : kernel[p] = IF p < path THEN Asked(p) ELSE initial[p]
    /\ place = "undo" =>
          /\ action \in PoolActions /\ leaving # 0
          /\ Restoring(1, NumNodes) /\ kernel[Autonuma] = initial[Autonuma]
    /\ place = "after" => DoneUpTo(NumNodes + 1)
    /\ AllOrNothing

\* The paths a helper sets are of the host; a pool action leaves NUMA balancing alone.
LEMMA AskedPaths ==
    ASSUME KTypeOK, action \in PoolActions \cup AutonumaActions
    PROVE  /\ Set \subseteq Paths
           /\ action \in PoolActions => Autonuma \notin Set
           /\ \A p \in Paths : Asked(p) \in Values
           /\ NumNodes \in Paths /\ Autonuma \in Paths
<1>1. /\ action = "setup" => Set = Eligible
      /\ action = "clear" => Set = Nodes
      /\ action \in {"enable", "disable"} => Set = {Autonuma}
  BY Zenon DEF Set
<1>2. action \in {"setup", "clear", "enable", "disable"}
  BY DEF PoolActions, AutonumaActions
<1>3. NumNodes \in Paths /\ Autonuma \in Paths /\ Eligible \subseteq Nodes /\ Nodes \subseteq Paths
      /\ Autonuma \notin Nodes
  BY NumNodesAssumption, EligibleAssumption DEF Paths, Nodes, Autonuma
<1>4. ASSUME NEW p \in Paths PROVE Asked(p) \in Values
  <2> DEFINE v == initial[p]
  <2>1. v \in Values /\ 0 \in Values /\ 1 \in Values /\ Want \in Values
    BY SwitchAssumption, WantAssumption DEF KTypeOK, Values
  <2>2. /\ action = "setup" => Target(p, v) = IF v < Want THEN Want ELSE v
        /\ action = "clear" => Target(p, v) = 0
        /\ action = "enable" => Target(p, v) = 1
        /\ action = "disable" => Target(p, v) = 0
    BY Zenon DEF Target
  <2> HIDE DEF v
  <2>3. Target(p, v) \in Values
    BY <1>2, <2>1, <2>2
  <2> QED
    BY <2>1, <2>3 DEF Asked, v
<1> QED
  BY <1>1, <1>2, <1>3, <1>4 DEF PoolActions

\* What is asked for is asked for by the action alone.
LEMMA AskedStays ==
    ASSUME action' = action, initial' = initial
    PROVE  Set' = Set /\ \A p : Asked(p)' = Asked(p)
BY DEF Asked, Set, Target

\* A step of set() or restore().
LEMMA HelperCall == HelperInv /\ Call => HelperInv'
<1> SUFFICES ASSUME HelperInv, Call PROVE HelperInv'
  OBVIOUS
<1>1. /\ place \in {"set", "undo"} /\ (set \/ restore)
      /\ UNCHANGED <<action, place, path, leaving, reported, killed, status>>
  BY DEF Call, hvars
<1>2. KInv' /\ KInv /\ KTypeOK
  BY <1>1, SetStep, RestoreStep DEF HelperInv, KInv
<1>3. status' = -1 /\ AllOrNothing'
  <2>1. status # -1 => place = "exit"
    BY Zenon DEF HelperInv
  <2>2. status' = -1
    BY <1>1, <2>1
  <2> QED
    BY <2>2, Zenon DEF AllOrNothing
<1>4. CASE place = "set"
  <2>1. path \in Paths /\ Asked(path) \in Values /\ Setting(path, Asked(path))
    BY <1>2, <1>4, AskedPaths DEF HelperInv
  <2>2. set
    BY <1>1, <2>1, StepOfCall
  <2>3. /\ Setting(path, Asked(path))' /\ initial' = initial
        /\ \A p \in Paths : p # path => kernel'[p] = kernel[p]
    <3> DEFINE n == path
               v == Asked(path)
    <3>1. n \in Paths /\ v \in Values /\ Setting(n, v)
      BY <2>1
    <3>2. n' = n /\ v' = v
      BY <1>1, <2>2, AskedStays DEF Asked, set, SetRead, SetRecord, SetWrite, SetCheck, settings,
             Set, Target
    <3> QED
      BY <1>2, <2>2, <3>1, <3>2, SettingStep DEF Setting
  <2>4. Set' = Set /\ \A p : Asked(p)' = Asked(p)
    BY <1>1, <2>3, AskedStays
  <2> QED
    BY <1>1, <1>2, <1>3, <1>4, <2>3, <2>4 DEF HelperInv
<1>5. CASE place = "undo"
  <2>1. Restoring(1, NumNodes) /\ kernel[Autonuma] = initial[Autonuma] /\ action \in PoolActions
    BY <1>5 DEF HelperInv
  <2>2. restore
    BY <1>1, <2>1, StepOfCall
  <2>3. NumNodes \in Paths /\ Autonuma \in Paths /\ Autonuma \notin 1..NumNodes
    BY NumNodesAssumption DEF Paths, Autonuma
  <2>4. Restoring(1, NumNodes)' /\ kernel'[Autonuma] = kernel[Autonuma]
    BY <1>2, <2>1, <2>2, <2>3, RestoringStep
  <2>5. initial' = initial
    BY <2>2 DEF restore, RestoreNext, RestoreRead, RestoreWrite, RestoreCheck, settings
  <2> QED
    <3>1. /\ place' = "undo" /\ action' \in PoolActions /\ status' = -1
          /\ path' \in 0..(NumNodes + 1) /\ leaving' # 0
          /\ kernel'[Autonuma] = initial'[Autonuma]
      BY <1>1, <1>3, <1>5, <2>1, <2>4, <2>5 DEF HelperInv
    <3>2. place' \notin {"begin", "one_shots", "paths", "set", "after", "exit"}
      BY <3>1
    <3> QED
      BY <1>2, <1>3, <2>4, <3>1, <3>2, Zenon DEF HelperInv
<1> QED
  BY <1>1, <1>4, <1>5

\* While the helper runs nothing is promised yet.
LEMMA NotOver == status' = -1 => AllOrNothing'
BY Zenon DEF AllOrNothing

\* All is done, or all is put back or named.
LEMMA Over ==
    ASSUME UNCHANGED <<kernel, initial, action>>,
           \/ DoneUpTo(NumNodes + 1)
           \/ status' # 0 /\ action \notin PoolActions
           \/ status' # 0 /\ \A p \in Paths : kernel[p] = initial[p] \/ p \in reported'
    PROVE  AllOrNothing'
<1>1. Set' = Set /\ \A p : Asked(p)' = Asked(p)
  BY AskedStays
<1>2. CASE DoneUpTo(NumNodes + 1)
  <2>1. \A p \in Paths : kernel[p] = Asked(p)
    BY <1>2, NumNodesAssumption DEF DoneUpTo, Paths
  <2>2. \A p \in Paths : kernel'[p] = Asked(p)'
    BY <1>1, <2>1
  <2> QED
    BY <2>2, Zenon DEF AllOrNothing, Asked
<1>3. CASE status' # 0 /\ action \notin PoolActions
  BY <1>3, Zenon DEF AllOrNothing, PoolActions
<1>4. CASE status' # 0 /\ \A p \in Paths : kernel[p] = initial[p] \/ p \in reported'
  BY <1>4, Zenon DEF AllOrNothing
<1> QED
  BY <1>2, <1>3, <1>4

\* Until its last write a pool action has left NUMA balancing alone.
LEMMA AutonumaAlone ==
    ASSUME HelperInv, action \in PoolActions, place \in {"begin", "one_shots", "paths", "set"}
    PROVE  kernel[Autonuma] = initial[Autonuma]
<1>1. Autonuma \in Paths /\ Autonuma \notin Set
  BY AskedPaths DEF HelperInv, KInv
<1>2. Asked(Autonuma) = initial[Autonuma]
  BY <1>1 DEF Asked
<1>3. CASE place = "set"
  BY <1>1, <1>2, <1>3 DEF HelperInv
<1>4. CASE place \in {"begin", "one_shots", "paths"}
  BY <1>1, <1>2, <1>4 DEF HelperInv, DoneUpTo
<1> QED
  BY <1>3, <1>4

\* The exception handler.
LEMMA HelperFails ==
    ASSUME HelperInv, place \in {"begin", "one_shots", "paths", "set"}, NEW s \in {1, 130},
           Fail(s), UNCHANGED <<action, path, reported, killed>>
    PROVE  HelperInv'
<1>1. KInv /\ KTypeOK /\ NumNodes \in Paths /\ status = -1
  <2>1. status # -1 => place = "exit"
    BY Zenon DEF HelperInv
  <2> QED
    BY <2>1, NumNodesAssumption DEF HelperInv, KInv, Paths
<1>2. CASE action \in PoolActions
  <2>1. CallRestore(NumNodes, 1) /\ place' = "undo" /\ leaving' = s /\ status' = -1
    <3>1. Undo(s)
      BY <1>2, Zenon DEF Fail
    <3> QED
      BY <1>1, <3>1 DEF Undo
  <2>2. KInv' /\ UNCHANGED <<kernel, initial>>
    BY <1>1, <2>1, CallStep DEF CallRestore, settings
  <2>3. Restoring(1, NumNodes)'
    BY <1>1, <2>1, NumNodesAssumption DEF CallRestore, Restoring, Paths
  <2>4. kernel'[Autonuma] = initial'[Autonuma]
    BY <1>2, <2>2, AutonumaAlone
  <2>5. AllOrNothing'
    BY <2>1, NotOver
  <2> QED
    BY <1>2, <2>1, <2>2, <2>3, <2>4, <2>5 DEF HelperInv
<1>3. CASE action \notin PoolActions
  <2>1. EndCall /\ place' = "exit" /\ status' = s
    <3>1. Exit(s) /\ EndCall
      BY <1>3, Zenon DEF Fail
    <3> QED
      BY <3>1 DEF Exit
  <2>2. KInv' /\ UNCHANGED <<kernel, initial>>
    BY <1>1, <2>1, CallStep DEF EndCall, settings
  <2>3. AllOrNothing'
    BY <1>3, <2>1, <2>2, Over
  <2> QED
    BY <1>3, <2>1, <2>2, <2>3 DEF HelperInv
<1> QED
  BY <1>2, <1>3

\* The helper's own statements, up to its last write.
LEMMA HelperBody ==
    HelperInv /\ (Begin \/ OneShots \/ NextSetting \/ SetDone) => HelperInv'
<1> SUFFICES ASSUME HelperInv,
                    Begin \/ OneShots \/ NextSetting \/ SetDone
             PROVE  HelperInv'
  OBVIOUS
<1>1. /\ KInv /\ KTypeOK /\ (status # -1 => place = "exit")
      /\ action \in PoolActions \cup AutonumaActions
      /\ path \in 0..(NumNodes + 1) /\ NumNodes \in Nat
  BY NumNodesAssumption, Zenon DEF HelperInv, KInv
<1>2. UNCHANGED <<action, reported, killed>>
  BY DEF Begin, OneShots, NextSetting, SetDone
<1>3. ASSUME place \in {"begin", "one_shots", "paths", "set"}, Fail(1), UNCHANGED path
      PROVE  HelperInv'
  BY <1>2, <1>3, HelperFails
<1>4. ASSUME KInv', UNCHANGED <<kernel, initial, status>>, status = -1, path' \in 0..(NumNodes + 1),
             \/ place' = "one_shots" /\ path' = 0 /\ DoneUpTo(0)
             \/ place' = "paths" /\ DoneUpTo(path')
             \/ place' = "after" /\ DoneUpTo(NumNodes + 1)
      PROVE  HelperInv'
  <2>1. \A p : Asked(p)' = Asked(p)
    BY <1>2, <1>4, AskedStays
  <2>2. AllOrNothing'
    BY <1>4, NotOver
  <2>3. /\ place' = "one_shots" => DoneUpTo(path)'
        /\ place' = "paths" => DoneUpTo(path)'
        /\ place' = "after" => DoneUpTo(NumNodes + 1)'
    BY <1>4, <2>1 DEF DoneUpTo
  <2> QED
    BY <1>1, <1>2, <1>4, <2>2, <2>3 DEF HelperInv
<1>5. CASE Begin
  <2>1. place = "begin" /\ UNCHANGED path
    BY <1>5 DEF Begin
  <2>2. CASE place' = "one_shots" /\ UNCHANGED <<kvars, leaving, status>>
    <3>1. UNCHANGED kvars /\ path = 0 /\ DoneUpTo(0) /\ status = -1
      BY <1>1, <2>1, <2>2 DEF HelperInv
    <3>2. KInv' /\ UNCHANGED <<kernel, initial>>
      BY <1>1, <3>1, CallStep DEF kvars
    <3> QED
      BY <1>1, <1>4, <2>1, <2>2, <3>1, <3>2
  <2> QED
    BY <1>3, <1>5, <2>1, <2>2 DEF Begin
<1>6. CASE OneShots
  <2>1. place = "one_shots" /\ UNCHANGED path
    BY <1>6 DEF OneShots
  <2>2. CASE place' \in {"one_shots", "paths"} /\ UNCHANGED <<kvars, leaving, status>>
    <3>1. UNCHANGED kvars /\ path = 0 /\ DoneUpTo(0) /\ status = -1
      BY <1>1, <2>1, <2>2 DEF HelperInv
    <3>2. KInv' /\ UNCHANGED <<kernel, initial>>
      BY <1>1, <3>1, CallStep DEF kvars
    <3> QED
      BY <1>1, <1>4, <2>1, <2>2, <3>1, <3>2
  <2> QED
    BY <1>3, <1>6, <2>1, <2>2 DEF OneShots
<1>7. CASE NextSetting
  <2>1. place = "paths" /\ DoneUpTo(path) /\ status = -1
    BY <1>1, <1>7 DEF NextSetting, HelperInv
  <2>2. CASE /\ path \in Set /\ CallSet(path, Target(path, kernel[path]))
             /\ place' = "set" /\ UNCHANGED <<path, leaving, status>>
    <3>1. path \in Paths /\ Asked(path) \in Values
      BY <1>1, <2>2, AskedPaths
    <3>2. kernel[path] = initial[path]
      BY <1>1, <2>1, <3>1 DEF DoneUpTo
    <3>3. CallSet(path, Asked(path))
      BY <2>2, <3>2 DEF Asked
    <3>4. KInv' /\ UNCHANGED <<kernel, initial>>
      BY <1>1, <3>1, <3>3, CallStep DEF CallSet, settings
    <3>5. Set' = Set /\ \A p : Asked(p)' = Asked(p)
      BY <1>2, <3>4, AskedStays
    <3>6. cur' = path /\ tgt' = Asked(path) /\ pc' = "set_read" /\ exc' = "none"
      BY <3>3 DEF CallSet
    <3>7. path' = path /\ Setting(path, Asked(path))'
      BY <2>2, <3>5, <3>6 DEF Setting
    <3>8. AllOrNothing'
      BY <2>1, <2>2, NotOver
    <3>9. \A p \in Paths \ {path'} : kernel'[p] = IF p < path' THEN Asked(p)' ELSE initial'[p]
      BY <2>1, <3>4, <3>5, <3>7 DEF DoneUpTo
    <3> QED
      BY <1>1, <1>2, <2>1, <2>2, <3>4, <3>5, <3>7, <3>8, <3>9 DEF HelperInv
  <2>3. CASE /\ path \in Paths \ Set /\ path' = path + 1
             /\ UNCHANGED <<kvars, place, leaving, status>>
    <3>1. UNCHANGED kvars /\ path \in Paths
      BY <2>3
    <3>2. KInv' /\ UNCHANGED <<kernel, initial>>
      BY <1>1, <3>1, CallStep DEF kvars
    <3>3. Asked(path) = initial[path]
      BY <2>3 DEF Asked
    <3>4. path' \in 0..(NumNodes + 1) /\ \A p \in Paths : p < path' <=> p < path \/ p = path
      BY <1>1, <2>3, <3>1 DEF Paths
    <3>5. DoneUpTo(path')
      BY <2>1, <3>3, <3>4 DEF DoneUpTo
    <3> QED
      BY <1>4, <2>1, <2>3, <3>2, <3>4, <3>5
  <2>4. CASE /\ path > NumNodes /\ place' = "after"
             /\ UNCHANGED <<kvars, path, leaving, status>>
    <3>1. UNCHANGED kvars /\ path = NumNodes + 1
      BY <1>1, <2>4 DEF kvars
    <3>2. KInv' /\ UNCHANGED <<kernel, initial>>
      BY <1>1, <3>1, CallStep DEF kvars
    <3> QED
      BY <1>1, <1>4, <2>1, <2>4, <3>1, <3>2
  <2> QED
    BY <1>3, <1>7, <2>1, <2>2, <2>3, <2>4 DEF NextSetting
<1>8. CASE SetDone
  <2>1. place = "set" /\ pc = "returned" /\ status = -1
    BY <1>1, <1>8 DEF SetDone
  <2>2. CASE /\ exc = "none" /\ EndCall /\ place' = "paths" /\ path' = path + 1
             /\ UNCHANGED <<leaving, status>>
    <3>1. EndCall /\ path \in Paths
      BY <1>1, <2>1, <2>2, AskedPaths DEF HelperInv
    <3>2. KInv' /\ UNCHANGED <<kernel, initial>>
      BY <1>1, <3>1, CallStep DEF EndCall, settings
    <3>3. /\ kernel[path] = Asked(path)
          /\ \A p \in Paths \ {path} : kernel[p] = IF p < path THEN Asked(p) ELSE initial[p]
      BY <2>1, <2>2 DEF HelperInv, Setting
    <3>4. path' \in 0..(NumNodes + 1) /\ \A p \in Paths : p < path' <=> p < path \/ p = path
      BY <1>1, <2>2, <3>1 DEF Paths
    <3>5. DoneUpTo(path')
      BY <3>1, <3>3, <3>4 DEF DoneUpTo
    <3> QED
      BY <1>4, <2>1, <2>2, <3>2, <3>4, <3>5
  <2> QED
    BY <1>3, <1>8, <2>1, <2>2 DEF SetDone
<1> QED
  BY <1>5, <1>6, <1>7, <1>8

\* The end: a restoration that has run its course, the last check, a signal.
LEMMA HelperEnd ==
    HelperInv /\ (UndoDone \/ After \/ KeyboardInterrupt \/ Terminate)
        => HelperInv'
<1> SUFFICES ASSUME HelperInv,
                    UndoDone \/ After \/ KeyboardInterrupt \/ Terminate
             PROVE  HelperInv'
  OBVIOUS
<1>1. /\ KInv /\ KTypeOK /\ (status # -1 => place = "exit")
      /\ action \in PoolActions \cup AutonumaActions
      /\ path \in 0..(NumNodes + 1) /\ NumNodes \in Nat
  BY NumNodesAssumption, Zenon DEF HelperInv, KInv
<1>2. UNCHANGED <<action, path>>
  BY DEF UndoDone, After, KeyboardInterrupt, Terminate
<1>3. ASSUME place' = "exit", UNCHANGED kvars \/ EndCall, AllOrNothing' PROVE HelperInv'
  <2>1. KInv'
    BY <1>1, <1>3, CallStep
  <2> QED
    BY <1>1, <1>2, <1>3, <2>1 DEF HelperInv
<1>4. CASE UndoDone
  <2>1. /\ place = "undo" /\ pc = "returned" /\ EndCall /\ reported' = errors
        /\ place' = "exit" /\ status' = IF exc = "none" THEN leaving ELSE 1
    BY <1>4 DEF UndoDone, Exit
  <2>2. /\ leaving # 0 /\ Restoring(1, NumNodes) /\ kernel[Autonuma] = initial[Autonuma]
        /\ UNCHANGED <<kernel, initial>>
    BY <2>1 DEF HelperInv, EndCall, settings
  <2>3. \A p \in Paths : p = Autonuma \/ (p \in 1..NumNodes /\ p > cur)
    BY <1>1, <2>1, <2>2 DEF Restoring, Paths, Autonuma, KTypeOK
  <2>4. \A p \in Paths : kernel[p] = initial[p] \/ p \in reported'
    BY <2>1, <2>2, <2>3 DEF Restoring
  <2>5. AllOrNothing'
    BY <1>2, <2>1, <2>2, <2>4, Over
  <2> QED
    BY <1>3, <2>1, <2>5
<1>5. CASE After
  <2>1. place = "after" /\ place' = "exit" /\ UNCHANGED kvars /\ DoneUpTo(NumNodes + 1)
    BY <1>5 DEF After, Exit, HelperInv
  <2>2. UNCHANGED <<kernel, initial>>
    BY <2>1 DEF kvars
  <2>3. AllOrNothing'
    BY <1>2, <2>1, <2>2, Over
  <2> QED
    BY <1>3, <2>1, <2>3
<1>6. ASSUME killed' PROVE AllOrNothing'
  BY <1>6, Zenon DEF AllOrNothing
<1>7. CASE KeyboardInterrupt
  <2>1. CASE place \in {"begin", "one_shots", "paths", "set"} /\ Fail(130) /\ UNCHANGED killed
    <3>1. UNCHANGED <<action, path, reported, killed>>
      BY <1>7, <2>1 DEF KeyboardInterrupt
    <3> QED
      BY <2>1, <3>1, HelperFails
  <2>2. CASE EndCall /\ Exit(130) /\ killed' = TRUE
    <3>1. EndCall /\ place' = "exit" /\ killed'
      BY <2>2 DEF Exit
    <3> QED
      BY <1>3, <1>6, <3>1
  <2>3. CASE place = "after" /\ Exit(130) /\ UNCHANGED <<kvars, leaving, killed>>
    <3>1. place' = "exit" /\ UNCHANGED kvars /\ DoneUpTo(NumNodes + 1)
      BY <2>3 DEF Exit, HelperInv
    <3>2. UNCHANGED <<kernel, initial>>
      BY <3>1 DEF kvars
    <3>3. AllOrNothing'
      BY <1>2, <3>1, <3>2, Over
    <3> QED
      BY <1>3, <3>1, <3>3
  <2> QED
    BY <1>7, <2>1, <2>2, <2>3 DEF KeyboardInterrupt
<1>8. CASE Terminate
  <2>1. EndCall /\ place' = "exit" /\ killed'
    BY <1>8 DEF Terminate, Exit
  <2> QED
    BY <1>3, <1>6, <2>1
<1> QED
  BY <1>4, <1>5, <1>7, <1>8

LEMMA HelperStarts == HInit => HelperInv
<1> SUFFICES ASSUME HInit PROVE HelperInv
  OBVIOUS
<1>1. /\ KInit /\ priv \in BOOLEAN /\ place = "begin" /\ path = 0 /\ status = -1
      /\ action \in PoolActions \cup AutonumaActions
  BY DEF HInit
<1>2. 0 \in Values /\ 0 \in Paths
  BY NumNodesAssumption, SwitchAssumption DEF Values, Paths
<1>3. KInv
  BY <1>1, <1>2, NumNodesAssumption DEF KInit, KInv, KTypeOK, ChangesAreRecorded,
     PreviousIsCurrent, RecordedBeforeWrite, WorksOnPath, PCs, Exceptions, Paths
<1>4. DoneUpTo(0)
  BY <1>1, NumNodesAssumption DEF DoneUpTo, KInit, Paths
<1>5. AllOrNothing
  BY <1>1, Zenon DEF AllOrNothing
<1> QED
  BY <1>1, <1>3, <1>4, <1>5, NumNodesAssumption DEF HelperInv

(***************************************************************************)
(* A helper script that ends has done all it was asked for, or has put     *)
(* back or named what it changed (main, setup_huge_pages, restore of       *)
(* KernelSettings), for any number of nodes, action, failures and signals, *)
(* unless a signal cut its restoration short or killed it.                 *)
(***************************************************************************)
THEOREM HelperAllOrNothing == HSpec => []AllOrNothing
<1>1. HelperInv /\ [HNext]_helper_vars => HelperInv'
  <2> SUFFICES ASSUME HelperInv, [HNext]_helper_vars PROVE HelperInv'
    OBVIOUS
  <2>1. CASE UNCHANGED helper_vars
    <3>1. /\ UNCHANGED kvars
          /\ UNCHANGED <<action, place, path, leaving, reported, killed, status>>
      BY <2>1 DEF helper_vars, kvars, hvars
    <3>2. KInv'
      BY <3>1, CallStep DEF HelperInv
    <3>3. AllOrNothing'
      BY <3>1 DEF HelperInv, AllOrNothing, Set, Target, kvars
    <3>4. /\ UNCHANGED <<kernel, initial, pc, cur, low, tgt, errors, exc>>
          /\ Set' = Set /\ \A p : Asked(p)' = Asked(p)
      BY <3>1, AskedStays DEF kvars
    <3>5. /\ DoneUpTo(path) => DoneUpTo(path)'
          /\ DoneUpTo(NumNodes + 1) => DoneUpTo(NumNodes + 1)'
      BY <3>1, <3>4 DEF DoneUpTo
    <3>6. /\ Setting(path, Asked(path)) => Setting(path, Asked(path))'
          /\ Restoring(1, NumNodes) => Restoring(1, NumNodes)'
      BY <3>1, <3>4 DEF Setting, Restoring
    <3> QED
      BY <3>1, <3>2, <3>3, <3>4, <3>5, <3>6 DEF HelperInv
  <2> QED
    BY <2>1, HelperCall, HelperBody, HelperEnd DEF HNext
<1>2. HelperInv => AllOrNothing
  BY Zenon DEF HelperInv
<1> QED
  BY <1>1, <1>2, HelperStarts, PTL DEF HSpec
=============================================================================
