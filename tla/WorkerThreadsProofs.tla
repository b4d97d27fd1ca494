------------------------ MODULE WorkerThreadsProofs -------------------------
(***************************************************************************)
(* Proofs about WorkerThreads, for any number of threads and phases.       *)
(***************************************************************************)
EXTENDS WorkerThreads, TLAPS

USE NumThreadsAssumption, NumPhasesAssumption

(***************************************************************************)
(* Type correctness.                                                       *)
(***************************************************************************)

\* Every step of main(), of a worker and of the clock preserves the types.
LEMMA TypeStep == TypeOK /\ [Next]_vars => TypeOK'
<1> SUFFICES ASSUME TypeOK, [Next]_vars PROVE TypeOK'
  OBVIOUS
<1> USE DEF TypeOK, Threads, PhaseIds, NoPhase, Live, Exit
<1>1. CASE Prepare
  BY <1>1 DEF Prepare
<1>2. CASE Create
  <2>1. idx \in Threads /\ idx' \in 1..(NumThreads + 1)
    BY <1>2 DEF Create
  <2>2. created' \in [Threads -> BOOLEAN]
    BY <1>2, <2>1 DEF Create
  <2>3. worker' \in [Threads -> Live \cup {"none", "joined"}]
    BY <1>2, <2>1 DEF Create
  <2>4. age' \in [Threads -> Nat]
    <3>1. age' = age \/ age' = [age EXCEPT ![idx] = 0]
      BY <1>2 DEF Create
    <3>2. age \in [Threads -> Nat]
      OBVIOUS
    <3>3. CASE age' = [age EXCEPT ![idx] = 0]
      BY ONLY <3>2, <3>3
    <3> QED
      BY ONLY <3>1, <3>2, <3>3
  <2>5. failed' \in Nat
    BY <1>2 DEF Create
  <2>6. UNCHANGED <<timeout, phase, mpc, stuck, routine, input, output, region, left, exit>>
    BY <1>2 DEF Create
  <2> HIDE DEF Threads, PhaseIds, NoPhase, Live
  <2> QED
    BY <2>1, <2>2, <2>3, <2>4, <2>5, <2>6
<1>3. CASE CreateDone
  <2>1. timeout \in Nat /\ 1 \in 1..(NumThreads + 1)
    BY TimeoutsAssumption
  <2> QED
    BY <1>3, <2>1 DEF CreateDone
<1>4. CASE Join
  <2>1. idx' \in 1..(NumThreads + 1) /\ stuck' \in Nat
    BY <1>4 DEF Join
  <2>2. worker' \in [Threads -> Live \cup {"none", "joined"}]
    BY <1>4 DEF Join
  <2>3. UNCHANGED <<timeout, phase, mpc, failed, created, routine, input, output, region, age,
                    left, exit>>
    BY <1>4 DEF Join
  <2> HIDE DEF Threads, PhaseIds, NoPhase, Live
  <2> QED
    BY <2>1, <2>2, <2>3
<1>5. CASE JoinDone
  BY <1>5 DEF JoinDone
<1>6. CASE Collect
  BY <1>6 DEF Collect
<1>7. CASE Tick
  BY <1>7 DEF Tick
<1>8. ASSUME NEW t \in Threads, Finish(t) PROVE TypeOK'
  BY <1>8 DEF Finish
<1>9. ASSUME NEW t \in Threads, AllocationFails(t) PROVE TypeOK'
  BY <1>9 DEF AllocationFails
<1>10. ASSUME NEW t \in Threads, Hang(t) PROVE TypeOK'
  BY <1>10 DEF Hang
<1>11. CASE UNCHANGED vars
  BY <1>11 DEF vars
<1> QED
  BY <1>1, <1>2, <1>3, <1>4, <1>5, <1>6, <1>7, <1>8, <1>9, <1>10, <1>11
  DEF Next, Main, Worker

\* The variables of the manager, the packets and the clock keep their types.
THEOREM TypeCorrect == Spec => []TypeOK
<1>1. Init => TypeOK
  BY DEF Init, TypeOK, Threads, PhaseIds, NoPhase, Live
<1> QED
  BY <1>1, TypeStep, PTL DEF Spec

(***************************************************************************)
(* The inductive invariant: what create() and join() have established when *)
(* main() is at each of its places.                                        *)
(***************************************************************************)

\* A thread that runs, or has ended and waits to be joined, belongs to the
\* current phase.
LiveInPhase ==
    \A t \in Threads : worker[t] \in Live => routine[t] = phase /\ input[t] = phase

\* In create(): the threads before idx run (unless one failed), the others rest.
CreateInv ==
    mpc = "create" =>
        \A t \in Threads :
            /\ routine[t] = phase /\ input[t] = phase
            /\ t >= idx => worker[t] \notin Live
            /\ t < idx /\ failed = 0 => created[t] /\ worker[t] \in Live

\* In join(): the threads before idx are joined (unless one is stuck).
JoinInv ==
    mpc = "join" =>
        \A t \in Threads :
            /\ created[t]
            /\ t >= idx => worker[t] \in Live
            /\ t < idx /\ stuck = 0 => worker[t] = "joined"
            /\ worker[t] \in Live \cup {"joined"}

\* Whoever has ended has left the results of this phase and a region.
DoneInv ==
    /\ \A t \in Threads : worker[t] = "done" => output[t] = phase /\ region[t]
    /\ mpc \in {"join", "collect"} =>
          \A t \in Threads : worker[t] = "joined" => output[t] = phase /\ region[t]
    /\ mpc = "collect" => \A t \in Threads : worker[t] = "joined"
    /\ phase > 0 => \A t \in Threads : region[t]

Inv ==
    /\ TypeOK
    /\ NoPacketRace
    /\ LiveInPhase
    /\ CreateInv
    /\ JoinInv
    /\ DoneInv

\* Every step preserves the inductive invariant.
LEMMA InvStep == Inv /\ [Next]_vars => Inv'
<1> SUFFICES ASSUME Inv, [Next]_vars PROVE Inv'
  OBVIOUS
<1>0. TypeOK /\ TypeOK'
  BY TypeStep DEF Inv
<1> USE <1>0 DEF Inv, TypeOK, NoPacketRace, LiveInPhase, CreateInv, JoinInv, DoneInv,
                 Threads, PhaseIds, NoPhase, Live, Exit
<1>1. CASE Prepare
  BY <1>1 DEF Prepare
<1>2. CASE Create
  <2>1. idx \in Threads /\ idx' = idx + 1
    BY <1>2 DEF Create
  <2>2. \A t \in Threads : t # idx =>
           worker'[t] = worker[t] /\ created'[t] = created[t]
    BY <1>2, <2>1 DEF Create
  <2>3. \/ worker'[idx] = "running" /\ created'[idx] /\ failed' = failed
        \/ worker' = worker /\ failed' = failed + 1
    BY <1>2, <2>1 DEF Create
  <2>4. /\ UNCHANGED <<phase, mpc, stuck, routine, input, output, region>>
        /\ mpc = "create"
    BY <1>2 DEF Create
  <2>5. NoPacketRace' /\ JoinInv' /\ DoneInv'
    BY <2>1, <2>2, <2>3, <2>4
  <2>6. LiveInPhase'
    BY <2>1, <2>2, <2>3, <2>4
  <2>7. CreateInv'
    <3> SUFFICES ASSUME NEW t \in Threads
                 PROVE  /\ routine[t] = phase /\ input[t] = phase
                        /\ t >= idx + 1 => worker'[t] \notin Live
                        /\ t < idx + 1 /\ failed' = 0 => created'[t] /\ worker'[t] \in Live
      BY <2>1, <2>4
    <3>1. CASE t = idx
      BY <2>1, <2>3, <2>4, <3>1
    <3>2. CASE t # idx
      BY <2>1, <2>2, <2>3, <2>4, <3>2
    <3> QED
      BY <3>1, <3>2
  <2> QED
    BY <2>5, <2>6, <2>7
<1>3. CASE CreateDone
  <2>1. CASE failed > 0
    BY <1>3, <2>1 DEF CreateDone
  <2>2. CASE failed = 0
    <3>1. \A t \in Threads : created[t] /\ worker[t] \in Live
      BY <1>3, <2>2 DEF CreateDone
    <3>2. /\ mpc' = "join" /\ idx' = 1
          /\ UNCHANGED <<phase, created, routine, worker, input, output, region>>
      BY <1>3, <2>2 DEF CreateDone
    <3>3. JoinInv'
      BY <3>1, <3>2
    <3>4. DoneInv' /\ LiveInPhase' /\ CreateInv' /\ NoPacketRace'
      BY <3>1, <3>2
    <3> QED
      BY <3>3, <3>4
  <2> QED
    BY <1>3, <2>1, <2>2 DEF CreateDone
<1>4. CASE Join
  <2>1. idx \in Threads /\ idx' = idx + 1 /\ mpc = "join" /\ created[idx]
    BY <1>4 DEF Join
  <2>2. UNCHANGED <<phase, mpc, created, routine, input, output, region>>
    BY <1>4 DEF Join
  <2>3. \/ /\ worker[idx] = "done" /\ stuck' = stuck
           /\ worker' = [worker EXCEPT ![idx] = "joined"]
        \/ worker' = worker /\ stuck' = stuck + 1
    BY <1>4, <2>1 DEF Join
  <2>4. LiveInPhase' /\ CreateInv' /\ NoPacketRace'
    BY <2>1, <2>2, <2>3
  <2>5. DoneInv'
    BY <2>1, <2>2, <2>3
  <2>6. JoinInv'
    <3> SUFFICES ASSUME NEW t \in Threads
                 PROVE  /\ created[t]
                        /\ t >= idx + 1 => worker'[t] \in Live
                        /\ t < idx + 1 /\ stuck' = 0 => worker'[t] = "joined"
                        /\ worker'[t] \in Live \cup {"joined"}
      BY <2>1, <2>2
    <3>1. CASE t = idx
      BY <2>1, <2>3, <3>1
    <3>2. CASE t # idx
      <4>1. worker'[t] = worker[t]
        BY <2>3, <3>2
      <4>2. stuck' = 0 => stuck = 0
        BY <2>3
      <4>3. (t >= idx + 1 => t >= idx) /\ (t < idx + 1 => t < idx)
        BY <3>2
      <4> QED
        BY <2>1, <4>1, <4>2, <4>3
    <3> QED
      BY <3>1, <3>2
  <2> QED
    BY <2>4, <2>5, <2>6
<1>5. CASE JoinDone
  <2>1. UNCHANGED <<phase, created, routine, worker, input, output, region>>
    BY <1>5 DEF JoinDone
  <2>2. CASE stuck > 0
    BY <1>5, <2>1, <2>2 DEF JoinDone
  <2>3. CASE stuck = 0
    <3>1. mpc' = "collect" /\ \A t \in Threads : worker[t] = "joined"
      BY <1>5, <2>3 DEF JoinDone
    <3> QED
      BY <2>1, <3>1, <1>5 DEF JoinDone
  <2>4. stuck > 0 \/ stuck = 0
    OBVIOUS
  <2> QED
    BY <2>2, <2>3, <2>4
<1>6. CASE Collect
  BY <1>6 DEF Collect
<1>7. CASE Tick
  BY <1>7 DEF Tick
<1>8. ASSUME NEW t \in Threads, Finish(t) PROVE Inv'
  <2>1. /\ worker[t] = "running" /\ worker'[t] = "done"
        /\ output'[t] = input[t] /\ region'[t] = (region[t] \/ routine[t] = 0)
    BY <1>8 DEF Finish
  <2>2. \A s \in Threads : s # t =>
           worker'[s] = worker[s] /\ output'[s] = output[s] /\ region'[s] = region[s]
    BY <1>8 DEF Finish
  <2>3. UNCHANGED <<phase, mpc, idx, failed, stuck, created, routine, input>>
    BY <1>8 DEF Finish
  <2>4. output'[t] = phase /\ region'[t]
    BY <2>1
  <2>5. LiveInPhase' /\ CreateInv' /\ NoPacketRace'
    BY <2>1, <2>2, <2>3
  <2>6. JoinInv'
    BY <2>1, <2>2, <2>3
  <2>7. DoneInv'
    <3>1. ASSUME NEW s \in Threads, worker'[s] = "done" PROVE output'[s] = phase /\ region'[s]
      <4>1. CASE s = t
        BY <2>4, <4>1
      <4>2. CASE s # t
        BY <2>2, <3>1, <4>2
      <4> QED
        BY <4>1, <4>2
    <3>2. mpc # "collect"
      BY <2>1
    <3>3. ASSUME mpc = "join", NEW s \in Threads, worker'[s] = "joined"
          PROVE  output'[s] = phase /\ region'[s]
      <4>1. s # t
        BY <2>1, <3>3
      <4> QED
        BY <2>2, <3>3, <4>1
    <3>4. phase > 0 => \A s \in Threads : region'[s]
      BY <2>2, <2>4
    <3> QED
      BY <2>3, <3>1, <3>2, <3>3, <3>4
  <2> QED
    BY <2>5, <2>6, <2>7
<1>9. ASSUME NEW t \in Threads, AllocationFails(t) PROVE Inv'
  BY <1>9 DEF AllocationFails
<1>10. ASSUME NEW t \in Threads, Hang(t) PROVE Inv'
  BY <1>10 DEF Hang
<1>11. CASE UNCHANGED vars
  BY <1>11 DEF vars
<1> QED
  BY <1>1, <1>2, <1>3, <1>4, <1>5, <1>6, <1>7, <1>8, <1>9, <1>10, <1>11
  DEF Next, Main, Worker

\* The invariant holds in every reachable state.
LEMMA InvHolds == Spec => []Inv
<1>1. Init => Inv
  BY DEF Init, Inv, TypeOK, NoPacketRace, LiveInPhase, CreateInv, JoinInv, DoneInv,
         Threads, PhaseIds, NoPhase, Live
<1> QED
  BY <1>1, InvStep, PTL DEF Spec

\* main() never touches a packet while a worker may, for any number of threads
\* and phases, whatever fails or hangs.
THEOREM NoRace == Spec => []NoPacketRace
<1>1. Inv => NoPacketRace
  BY DEF Inv
<1> QED
  BY <1>1, InvHolds, PTL

\* What main() reads in a phase comes from that phase, from every worker.
THEOREM FreshResults == Spec => []ResultsAreFresh
<1>1. Inv => ResultsAreFresh
  BY DEF Inv, DoneInv, ResultsAreFresh
<1> QED
  BY <1>1, InvHolds, PTL

\* join() never waits on a stale or unset handle.
THEOREM ValidHandles == Spec => []JoinsValidHandle
<1>1. Inv => JoinsValidHandle
  BY DEF Inv, TypeOK, JoinInv, JoinsValidHandle, Threads
<1> QED
  BY <1>1, InvHolds, PTL

\* A measuring routine always finds its region.
THEOREM RegionsAllocated == Spec => []RegionBeforeUse
<1>1. Inv => RegionBeforeUse
  BY DEF Inv, TypeOK, LiveInPhase, DoneInv, RegionBeforeUse, Live, Threads
<1> QED
  BY <1>1, InvHolds, PTL

(***************************************************************************)
(* The refinement.  A worker that has not ended in this phase has no       *)
(* results of it: neither while it works nor before it was created.        *)
(***************************************************************************)
NotYet ==
    \A t \in Threads :
        /\ output[t] <= phase
        /\ worker[t] \in {"running", "hung"} => output[t] # phase
        /\ mpc = "prepare" \/ (mpc = "create" /\ t >= idx) => output[t] # phase

BarrierInv == Inv /\ NotYet /\ (mpc # "exit" => exit = "running")

\* Every step preserves it.
LEMMA BarrierInvStep == BarrierInv /\ [Next]_vars => BarrierInv'
<1> SUFFICES ASSUME BarrierInv, [Next]_vars PROVE BarrierInv'
  OBVIOUS
<1>0. Inv /\ Inv' /\ TypeOK /\ LiveInPhase
  BY InvStep DEF BarrierInv, Inv
<1>1. mpc' # "exit" => exit' = "running"
  BY <1>0 DEF BarrierInv, Next, Main, Worker, Prepare, Create, CreateDone, Join, JoinDone, Collect,
         Tick, Finish, AllocationFails, Hang, Exit, vars
<1>2. NotYet'
  <2> USE <1>0 DEF BarrierInv, NotYet, TypeOK, Threads, PhaseIds, NoPhase
  <2>1. CASE Prepare
    BY <2>1 DEF Prepare
  <2>2. CASE Create
    <3>1. /\ mpc = "create" /\ idx \in Threads /\ idx' = idx + 1
          /\ UNCHANGED <<mpc, phase, output>>
          /\ \A t \in Threads : t # idx => worker'[t] = worker[t]
          /\ output[idx] # phase
      BY <2>2 DEF Create
    <3> QED
      BY <3>1
  <2>3. CASE CreateDone \/ JoinDone
    BY <2>3 DEF CreateDone, JoinDone, Exit
  <2>4. CASE Join
    <3>1. /\ mpc = "join" /\ UNCHANGED <<mpc, phase, output>>
          /\ \A t \in Threads : worker'[t] \in {worker[t], "joined"}
      BY <2>4 DEF Join
    <3> QED
      BY <3>1
  <2>5. CASE Collect
    BY <2>5 DEF Collect, Exit
  <2>6. CASE Tick
    BY <2>6 DEF Tick
  <2>7. ASSUME NEW t \in Threads, Worker(t) PROVE NotYet'
    <3>1. CASE Finish(t)
      <4>1. /\ UNCHANGED <<mpc, phase, idx>> /\ worker'[t] = "done" /\ output'[t] = phase
            /\ worker[t] = "running"
            /\ \A s \in Threads : s # t => worker'[s] = worker[s] /\ output'[s] = output[s]
        BY <3>1 DEF Finish, LiveInPhase, Live
      <4>2. mpc # "prepare" /\ (mpc = "create" => t < idx)
        BY <1>0, <4>1 DEF Inv, NoPacketRace, CreateInv, Live
      <4> QED
        BY <4>1, <4>2
    <3>2. CASE AllocationFails(t) \/ Hang(t)
      BY <3>2 DEF AllocationFails, Hang, Exit
    <3> QED
      BY <2>7, <3>1, <3>2 DEF Worker
  <2>8. CASE UNCHANGED vars
    BY <2>8 DEF vars
  <2> QED
    BY <2>1, <2>2, <2>3, <2>4, <2>5, <2>6, <2>7, <2>8 DEF Next, Main
<1> QED
  BY <1>0, <1>1, <1>2 DEF BarrierInv

\* Every step of the program is a step of the abstract barrier, or leaves it as
\* it is.
LEMMA BarrierStep == BarrierInv /\ [Next]_vars => [Barrier!Next]_(Barrier!bvars)
<1> SUFFICES ASSUME BarrierInv, [Next]_vars PROVE [Barrier!Next]_(Barrier!bvars)
  OBVIOUS
<1>0. /\ TypeOK /\ LiveInPhase /\ DoneInv /\ NoPacketRace /\ CreateInv /\ NotYet
      /\ mpc # "exit" => Outcome = "running"
  BY DEF BarrierInv, Inv, Outcome
<1> DEFINE Still == UNCHANGED <<phase, Busy, Delivered, Outcome>>
<1>1. Still => [Barrier!Next]_(Barrier!bvars)
  BY DEF Barrier!bvars
<1>2. CASE UNCHANGED <<phase, worker, output, exit>>
  BY <1>1, <1>2 DEF Busy, Delivered, Outcome
<1>3. CASE mpc # "exit" /\ UNCHANGED <<phase, worker, output>> /\ exit' \notin {"running", "ok"}
  <2>1. UNCHANGED <<phase, Busy, Delivered>> /\ Outcome' = "failure"
    BY <1>3 DEF Busy, Delivered, Outcome
  <2> QED
    BY <1>0, <1>3, <2>1 DEF Barrier!Next, Barrier!Fail
<1>4. CASE Create
  <2>1. /\ mpc = "create" /\ idx \in Threads /\ UNCHANGED <<phase, output, exit>>
        /\ worker' = [worker EXCEPT ![idx] = "running"] \/ worker' = worker
    BY <1>0, <1>4 DEF Create, TypeOK, Threads
  <2>2. CASE worker' = [worker EXCEPT ![idx] = "running"]
    <3>1. idx \notin Busy \cup Delivered
      BY <1>0, <2>1 DEF Busy, Delivered, NotYet, CreateInv, Live, TypeOK, Threads
    <3>2. Busy' = Busy \cup {idx}
      BY <1>0, <2>1, <2>2 DEF Busy, TypeOK
    <3>3. UNCHANGED <<phase, Delivered, Outcome>>
      BY <2>1 DEF Delivered, Outcome
    <3> QED
      BY <1>0, <2>1, <3>1, <3>2, <3>3 DEF Barrier!Next, Barrier!Begin
  <2> QED
    BY <1>2, <2>1, <2>2
<1>5. CASE CreateDone \/ JoinDone
  BY <1>2, <1>3, <1>5 DEF CreateDone, JoinDone, Exit
<1>6. CASE Join
  <2>1. UNCHANGED <<phase, output, exit>>
    BY <1>6 DEF Join
  <2>2. \A t \in Threads : worker'[t] = worker[t] \/ (worker[t] = "done" /\ worker'[t] = "joined")
    BY <1>0, <1>6 DEF Join, TypeOK, Threads
  <2> QED
    BY <1>1, <2>1, <2>2 DEF Busy, Delivered, Outcome
<1>7. CASE Collect
  <2>1. mpc = "collect" /\ UNCHANGED <<worker, output>>
    BY <1>7 DEF Collect
  <2>2. Delivered = Threads /\ Busy = {} /\ Busy' = Busy
    BY <1>0, <2>1 DEF Delivered, Busy, DoneInv, NoPacketRace, Live
  <2>3. CASE phase < NumPhases - 1 /\ phase' = phase + 1 /\ UNCHANGED exit
    <3>1. Delivered' = {} /\ Outcome' = Outcome
      BY <1>0, <2>1, <2>3 DEF Delivered, NotYet, Outcome, TypeOK, PhaseIds, NoPhase, Threads
    <3> QED
      BY <1>0, <2>1, <2>2, <2>3, <3>1 DEF Barrier!Next, Barrier!Advance
  <2>4. CASE phase = NumPhases - 1 /\ exit' = "ok" /\ UNCHANGED phase
    <3>1. Delivered' = Delivered /\ Outcome' = "success"
      BY <2>1, <2>4 DEF Delivered, Outcome
    <3> QED
      BY <1>0, <2>1, <2>2, <2>4, <3>1 DEF Barrier!Next, Barrier!Succeed
  <2> QED
    BY <1>7, <2>3, <2>4 DEF Collect, Exit
<1>8. ASSUME NEW t \in Threads, Finish(t) PROVE [Barrier!Next]_(Barrier!bvars)
  <2>1. /\ mpc # "exit" /\ worker[t] = "running" /\ UNCHANGED <<phase, exit>>
        /\ worker' = [worker EXCEPT ![t] = "done"] /\ output' = [output EXCEPT ![t] = phase]
    BY <1>0, <1>8 DEF Finish, LiveInPhase, Live
  <2>2. t \in Busy /\ Busy' = Busy \ {t}
    BY <1>0, <2>1 DEF Busy, TypeOK
  <2>3. Delivered' = Delivered \cup {t}
    BY <1>0, <2>1 DEF Delivered, TypeOK
  <2>4. UNCHANGED <<phase, Outcome>>
    BY <2>1 DEF Outcome
  <2> QED
    BY <1>0, <2>1, <2>2, <2>3, <2>4 DEF Barrier!Next, Barrier!Finish
<1>9. ASSUME NEW t \in Threads, Hang(t) PROVE [Barrier!Next]_(Barrier!bvars)
  <2>1. /\ UNCHANGED <<phase, output, exit>>
        /\ worker[t] = "running" /\ worker' = [worker EXCEPT ![t] = "hung"]
    BY <1>9 DEF Hang
  <2>2. Busy' = Busy
    BY <1>0, <2>1 DEF Busy, TypeOK
  <2> QED
    BY <1>1, <2>1, <2>2 DEF Delivered, Outcome
<1>10. ASSUME NEW t \in Threads, AllocationFails(t) PROVE [Barrier!Next]_(Barrier!bvars)
  BY <1>3, <1>10 DEF AllocationFails, Exit
<1>11. CASE Prepare \/ Tick \/ UNCHANGED vars
  BY <1>2, <1>11 DEF Prepare, Tick, vars
<1> QED
  BY <1>4, <1>5, <1>6, <1>7, <1>8, <1>9, <1>10, <1>11 DEF Next, Main, Worker

\* create() and join() implement the abstract barrier, for any number of workers
\* and phases.
THEOREM BarrierKept == Spec => KeepsBarrier
<1>1. Init => BarrierInv
  BY DEF Init, BarrierInv, NotYet, Inv, TypeOK, NoPacketRace, LiveInPhase, CreateInv, JoinInv,
         DoneInv, Threads, PhaseIds, NoPhase, Live
<1>2. Init => Barrier!Init
  <2> SUFFICES ASSUME Init PROVE Barrier!Init
    OBVIOUS
  <2>1. Busy = {} /\ Delivered = {} /\ phase = 0 /\ Outcome = "running"
    BY DEF Init, Busy, Delivered, Outcome, NoPhase
  <2> QED
    BY <2>1 DEF Barrier!Init
<1> QED
  BY <1>1, <1>2, BarrierInvStep, BarrierStep, PTL DEF Spec, KeepsBarrier, Barrier!Spec

(***************************************************************************)
(* The watchdog.  In join() what a running worker has aged makes up for    *)
(* what is gone of the time to the deadline.                               *)
(***************************************************************************)

\* A thread that join() may give up on, and how long it can have run.
Overdue(t) == /\ timeout > 0
              /\ worker[t] = "hung" \/ (timeout <= age[t] /\ age[t] <= Duration[phase])

\* What has become of a thread that the loop of join() has passed.
Passed(t) == worker[t] = "joined" \/ Overdue(t)

WatchInv ==
    /\ Inv
    /\ exit = "stuck" => mpc = "exit"
    /\ \A t \in Threads : worker[t] = "running" => age[t] <= Duration[phase]
    /\ mpc = "join" => \A t \in Threads : worker[t] = "running" => left + age[t] >= timeout
    /\ mpc = "join" =>
          /\ \A t \in Threads : t < idx => Passed(t)
          /\ stuck > 0 => \E t \in Threads : t < idx /\ worker[t] # "joined"
    /\ exit = "stuck" =>
          /\ \A t \in Threads : Passed(t)
          /\ \E t \in Threads : worker[t] # "joined"

\* Every step preserves it, whatever fails or hangs.
LEMMA WatchStep == WatchInv /\ [Next]_vars => WatchInv'
<1> SUFFICES ASSUME WatchInv, [Next]_vars PROVE WatchInv'
  OBVIOUS
<1>0. TypeOK /\ TypeOK' /\ Inv' /\ NoPacketRace /\ CreateInv
  BY InvStep DEF WatchInv, Inv
<1> USE DurationAssumption, TimeoutsAssumption, <1>0 DEF WatchInv, Overdue, Passed, TypeOK, Threads, PhaseIds, Live, Exit
<1>1. CASE Prepare
  BY <1>1 DEF Prepare
<1>2. CASE Create
  <2>1. UNCHANGED <<phase, mpc, exit>> /\ mpc = "create" /\ idx \in Threads
    BY <1>2 DEF Create
  <2>2. Duration[phase] \in Nat
    OBVIOUS
  <2>3. \/ worker' = worker /\ age' = age
        \/ /\ worker' = [worker EXCEPT ![idx] = "running"]
           /\ age' = [age EXCEPT ![idx] = 0]
    BY <1>2 DEF Create
  <2>4. ASSUME NEW t \in Threads, worker'[t] = "running" PROVE age'[t] <= Duration[phase]
    <3>1. CASE worker' = worker /\ age' = age
      BY <2>4, <3>1
    <3>2. CASE /\ worker' = [worker EXCEPT ![idx] = "running"]
               /\ age' = [age EXCEPT ![idx] = 0]
      <4>1. CASE t = idx
        BY <2>2, <3>2, <4>1
      <4>2. CASE t # idx
        BY <2>4, <3>2, <4>2
      <4> QED
        BY <4>1, <4>2
    <3> QED
      BY <2>3, <3>1, <3>2
  <2> QED
    BY <2>1, <2>4
<1>3. CASE CreateDone
  BY <1>3 DEF CreateDone
<1>4. CASE Join
  <2>1. UNCHANGED <<phase, mpc, exit, age, left, timeout>> /\ mpc = "join" /\ idx \in Threads
    BY <1>4 DEF Join
  <2>2. \/ worker' = [worker EXCEPT ![idx] = "joined"] /\ worker[idx] = "done" /\ stuck' = stuck
        \/ worker' = worker /\ stuck' = stuck
        \/ worker' = worker /\ TimedOut(idx)
    BY <1>4 DEF Join
  <2>3. \A t \in Threads : /\ worker'[t] = "running" => worker[t] = "running"
                           /\ worker[t] = "hung" => worker'[t] = "hung"
    BY <2>1, <2>2
  <2>4. TimedOut(idx) => Overdue(idx)
    <3> SUFFICES ASSUME TimedOut(idx), worker[idx] = "running" PROVE Overdue(idx)
      BY DEF TimedOut
    <3>1. left = 0 /\ timeout > 0
      BY DEF TimedOut
    <3>2. age[idx] \in Nat /\ timeout \in Nat
      BY <2>1
    <3>3. left + age[idx] >= timeout /\ age[idx] <= Duration[phase]
      BY ONLY WatchInv, worker[idx] = "running", <2>1 DEF WatchInv
    <3> QED
      BY ONLY <3>1, <3>2, <3>3 DEF Overdue
  <2>5. \A t \in Threads : Overdue(t) => Overdue(t)'
    BY <2>1, <2>3
  <2>6. idx' = idx + 1 /\ created[idx] /\ exit # "stuck"
    BY <1>4, <2>1 DEF Join, Inv, JoinInv
  <2>7. \/ worker' = [worker EXCEPT ![idx] = "joined"] /\ stuck' = stuck
        \/ worker' = worker /\ TimedOut(idx)
    BY <1>4, <2>6 DEF Join
  <2>8. \A t \in Threads : /\ t < idx' <=> t < idx \/ t = idx
                           /\ t < idx => worker'[t] = worker[t]
    BY <2>1, <2>6, <2>7
  <2>9. ASSUME NEW t \in Threads, t < idx' PROVE Passed(t)'
    <3>1. CASE t < idx
      BY <2>1, <2>5, <2>8, <3>1
    <3>2. CASE t = idx
      <4>1. CASE worker' = [worker EXCEPT ![idx] = "joined"]
        BY <2>1, <3>2, <4>1
      <4>2. CASE worker' = worker /\ TimedOut(idx)
        BY <2>4, <2>5, <3>2, <4>2
      <4> QED
        BY <2>7, <4>1, <4>2
    <3> QED
      BY <2>8, <2>9, <3>1, <3>2
  <2>10. ASSUME stuck' > 0 PROVE \E t \in Threads : t < idx' /\ worker'[t] # "joined"
    <3>1. CASE stuck' = stuck
      <4>1. PICK t \in Threads : t < idx /\ worker[t] # "joined"
        BY <2>1, <2>10, <3>1
      <4> QED
        BY <2>8, <4>1
    <3>2. CASE worker' = worker /\ TimedOut(idx)
      BY <2>1, <2>8, <3>2 DEF TimedOut
    <3> QED
      BY <2>7, <3>1, <3>2
  <2>11. ASSUME NEW t \in Threads, worker'[t] = "running"
         PROVE  age'[t] <= Duration[phase'] /\ left' + age'[t] >= timeout'
    BY <2>1, <2>3, <2>11
  <2> HIDE DEF Overdue, Passed
  <2> QED
    BY <2>1, <2>6, <2>9, <2>10, <2>11
<1>5. CASE JoinDone
  <2>1. /\ mpc = "join" /\ idx > NumThreads /\ mpc' # "join"
        /\ UNCHANGED <<timeout, phase, stuck, worker, age, left>>
        /\ exit' = "stuck" => stuck > 0 \/ exit = "stuck"
        /\ exit' = "stuck" => mpc' = "exit" \/ exit = "stuck"
    BY <1>5 DEF JoinDone
  <2>2. \A t \in Threads : t < idx
    BY <2>1
  <2> QED
    BY <2>1, <2>2
<1>6. CASE Collect
  BY <1>6 DEF Collect, NoPacketRace
<1>7. CASE Tick
  <2>1. /\ UNCHANGED <<phase, mpc, exit, worker, stuck, timeout>>
        /\ \A t \in Threads : worker[t] = "running" =>
              age'[t] = age[t] + 1 /\ age[t] < Duration[phase]
        /\ \A t \in Threads : worker[t] # "running" => age'[t] = age[t]
        /\ left' >= left - 1
    BY <1>7 DEF Tick
  <2>2. ASSUME NEW t \in Threads, worker[t] = "running"
        PROVE  age'[t] = age[t] + 1 /\ age[t] \in Nat /\ Duration[phase] \in Nat
    BY <2>1, <2>2
  <2>3. left' \in Nat /\ left \in Nat /\ timeout \in Nat
    OBVIOUS
  <2>4. ASSUME NEW t \in Threads, worker[t] = "running" PROVE age'[t] <= Duration[phase]
    BY <2>1, <2>2, <2>4
  <2>5. ASSUME mpc = "join", NEW t \in Threads, worker[t] = "running"
        PROVE  left' + age'[t] >= timeout
    <3>1. left + age[t] >= timeout
      BY ONLY WatchInv, <2>5 DEF WatchInv
    <3>2. age'[t] = age[t] + 1 /\ age[t] \in Nat
      BY <2>2, <2>5
    <3> QED
      BY ONLY <2>1, <2>3, <3>1, <3>2
  <2>6. ASSUME NEW t \in Threads, Overdue(t) PROVE Overdue(t)'
    <3>1. CASE worker[t] = "running"
      BY <2>1, <2>2, <2>3, <2>4, <2>6, <3>1
    <3>2. CASE worker[t] # "running"
      BY <2>1, <2>6, <3>2
    <3> QED
      BY <3>1, <3>2
  <2>7. idx' = idx /\ \A t \in Threads : Passed(t) => Passed(t)'
    BY <1>7, <2>1, <2>6 DEF Tick
  <2> HIDE DEF Overdue, Passed
  <2> QED
    BY <2>1, <2>4, <2>5, <2>7
<1>8. ASSUME NEW t \in Threads, Finish(t) PROVE WatchInv'
  BY <1>8 DEF Finish
<1>9. ASSUME NEW t \in Threads, AllocationFails(t) PROVE WatchInv'
  BY <1>9 DEF AllocationFails
<1>10. ASSUME NEW t \in Threads, Hang(t) PROVE WatchInv'
  BY <1>10 DEF Hang
<1>11. CASE UNCHANGED vars
  <2>1. WatchInv' = WatchInv
    BY <1>11 DEF vars, Inv, NoPacketRace, LiveInPhase, CreateInv, JoinInv, DoneInv
  <2> QED
    BY <2>1
<1> QED
  BY <1>1, <1>2, <1>3, <1>4, <1>5, <1>6, <1>7, <1>8, <1>9, <1>10, <1>11
  DEF Next, Main, Worker

LEMMA WatchInvHolds == Spec => []WatchInv
<1>1. Init => WatchInv
  <2> SUFFICES ASSUME Init PROVE WatchInv
    OBVIOUS
  <2>1. Inv
    BY DEF Init, Inv, TypeOK, NoPacketRace, LiveInPhase, CreateInv, JoinInv, DoneInv,
           Threads, PhaseIds, NoPhase, Live
  <2> QED
    BY <2>1 DEF Init, WatchInv
<1> QED
  BY <1>1, WatchStep, PTL DEF Spec

\* A thread that was given up without hanging ran for the timeout, and no routine
\* runs for longer than it needs.
LEMMA NoFalseAlarm == ASSUME WatchInv, exit = "stuck" PROVE StuckHasACause
<1> SUFFICES ASSUME \A t \in Threads : worker[t] # "hung" PROVE Duration[phase] >= timeout
  BY DEF StuckHasACause
<1>1. PICK t \in Threads : worker[t] # "joined" /\ Overdue(t)
  BY DEF WatchInv, Passed
<1>2. /\ timeout \in Nat /\ phase \in PhaseIds
      /\ Duration[phase] \in Nat /\ age[t] \in Nat
  BY <1>1, DurationAssumption, TimeoutsAssumption DEF WatchInv, Inv, TypeOK, PhaseIds, Overdue
<1> QED
  BY <1>1, <1>2 DEF Overdue

\* Whatever the number of threads and phases, the durations and the timeout: every
\* thread that join() gives up hangs or had the whole timeout to run, and one hangs
\* unless the routine of the phase needs as long as the timeout.
THEOREM GivesTheTimeout == Spec => []StuckHadTheTimeout
<1>1. WatchInv => StuckHadTheTimeout
  <2> SUFFICES ASSUME WatchInv, exit = "stuck" PROVE StuckHadTheTimeout
    BY DEF StuckHadTheTimeout
  <2>1. StuckHasACause
    BY NoFalseAlarm
  <2> QED
    BY <2>1, TimeoutsAssumption DEF WatchInv, StuckHadTheTimeout, Overdue, Passed, Inv, TypeOK
<1> QED
  BY <1>1, WatchInvHolds, PTL
=============================================================================
