----------------------- MODULE StatsCollectorsProofs ------------------------
(***************************************************************************)
(* Theorems of StatsCollectors, for any number of selected processes and   *)
(* of signals.                                                             *)
(***************************************************************************)
EXTENDS StatsCollectors, TLAPS

Cleanup == {"terminate", "reap", "exit"}

\* Which children there are: those on the list, and the one that Popen() has
\* started and append() has not yet put there.
Launched ==
    /\ pc = "select" => count = 0
    /\ count = 0 => processes = 0
    /\ pc \in {"launch", "track"} => processes <= count /\ count > 0
    /\ pc \in {"wait", "report"} => processes = count + 1 /\ count > 0
    /\ pc = "track" => child[processes + 1] # "none"
    /\ \A c \in Collectors : c <= processes => child[c] # "none"
    /\ ~cut => \A c \in Collectors :
                  child[c] # "none" => c <= processes \/ (pc = "track" /\ c = processes + 1)

\* What has been waited for.
Waited ==
    /\ \A c \in reaped : child[c] \in Finished
    /\ pc = "report" => count + 1 \in reaped
    /\ pc = "report" => \A c \in Collectors : c <= count /\ c < idx => c \in reaped
    /\ pc = "reap" => \A c \in Collectors : c <= processes /\ c < idx => c \in reaped
    /\ pc = "exit" /\ ~cut => \A c \in Collectors : c <= processes => c \in reaped

AnyBad(n) == \E c \in Collectors : child[c] = "bad" /\ (c = count + 1 \/ (c <= count /\ c < n))

\* What failed and result remember.
Remembered ==
    /\ pc \notin Cleanup => signals = 0 /\ exit = -1 /\ ~cut
    /\ pc \notin Cleanup /\ pc # "report" => printed = 0
    /\ pc = "report" => printed = idx - 1 /\ idx <= count + 1
    /\ pc = "report" => (failed <=> AnyBad(idx))
    /\ pc \in Cleanup /\ signals = 0 =>
          /\ result # 130
          /\ result = 0 => Complete
          /\ result = 1 => processes <= count \/ AnyBad(count + 1)
    /\ pc = "exit" => exit = IF signals = 0 THEN result ELSE 130
    /\ pc \in {"terminate", "reap"} /\ signals > 0 => result = 130
    /\ cut => signals > 0

Inv == TypeOK /\ Launched /\ Waited /\ Remembered

\* Every step of main(), of a collector and of the user keeps the invariant.
LEMMA InvStep == Inv /\ [Next]_vars => Inv'
<1> SUFFICES ASSUME Inv, [Next]_vars PROVE Inv'
    OBVIOUS
<1> USE MaxPidsAssumption DEF Inv, Collectors, Finished, Cleanup
<1>1. CASE get_pids
  <2>1. TypeOK' BY <1>1 DEF get_pids, Leave, TypeOK, Launched, children
  <2>2. Launched' BY <1>1 DEF get_pids, Leave, TypeOK, Launched, Remembered, children
  <2>3. Waited' BY <1>1 DEF get_pids, Leave, TypeOK, Launched, Waited, children
  <2>4. Remembered' BY <1>1 DEF get_pids, Leave, TypeOK, Launched, Remembered, AnyBad, children
  <2> QED BY <2>1, <2>2, <2>3, <2>4
<1>2. CASE Popen
  <2>1. TypeOK' BY <1>2 DEF Popen, Leave, TypeOK, Launched
  <2>2. Launched' BY <1>2 DEF Popen, Leave, TypeOK, Launched, Remembered
  <2>3. Waited' BY <1>2 DEF Popen, Leave, TypeOK, Launched, Waited, Remembered
  <2>4. Remembered' BY <1>2 DEF Popen, Leave, TypeOK, Launched, Remembered, AnyBad
  <2> QED BY <2>1, <2>2, <2>3, <2>4
<1>3. CASE Track
  <2>1. TypeOK' BY <1>3 DEF Track, TypeOK, Launched, children
  <2>2. Launched' BY <1>3 DEF Track, TypeOK, Launched, Remembered, children
  <2>3. Waited' BY <1>3 DEF Track, TypeOK, Launched, Waited, children
  <2>4. Remembered' BY <1>3 DEF Track, TypeOK, Launched, Remembered, children
  <2> QED BY <2>1, <2>2, <2>3, <2>4
<1>4. CASE WaitMpstat
  <2>1. TypeOK' BY <1>4 DEF WaitMpstat, TypeOK, Launched
  <2>2. Launched' BY <1>4 DEF WaitMpstat, TypeOK, Launched
  <2>3. Waited' BY <1>4 DEF WaitMpstat, TypeOK, Launched, Waited
  <2>4. Remembered'
    <3>1. /\ count + 1 \in Collectors /\ idx' = 1 /\ UNCHANGED <<count, child, printed, signals, exit, cut>>
          /\ pc = "wait" /\ pc' = "report" /\ count \in Nat
      BY <1>4 DEF WaitMpstat, TypeOK
    <3>2. AnyBad(idx)' <=> child[count + 1] = "bad"
      BY <3>1 DEF AnyBad
    <3>3. failed' <=> AnyBad(idx)'
      BY <1>4, <3>2, Zenon DEF WaitMpstat
    <3> QED BY <3>1, <3>3 DEF Remembered
  <2> QED BY <2>1, <2>2, <2>3, <2>4
<1>5. CASE Report
  <2>1. TypeOK' BY <1>5 DEF Report, TypeOK, Launched
  <2>2. Launched' BY <1>5 DEF Report, TypeOK, Launched
  <2>3. Waited' BY <1>5 DEF Report, TypeOK, Launched, Waited
  <2>4. (failed <=> AnyBad(idx))' /\ printed' = idx' - 1 /\ idx' <= count' + 1
    <3>1. idx \in Collectors /\ failed' = (failed \/ child[idx] = "bad") /\ UNCHANGED <<child, count>>
      BY <1>5 DEF Report, TypeOK
    <3>2. failed <=> AnyBad(idx)
      BY <1>5 DEF Report, Remembered
    <3>3. AnyBad(idx)' <=> AnyBad(idx) \/ child[idx] = "bad"
      <4>1. idx' = idx + 1 /\ idx <= count /\ idx \in Nat /\ count \in Nat
        BY <1>5 DEF Report, TypeOK
      <4> QED BY <3>1, <4>1 DEF AnyBad
    <3>4. failed' <=> AnyBad(idx)'
      BY <3>1, <3>2, <3>3, Zenon
    <3>5. printed' = idx' - 1 /\ idx' <= count' + 1
      BY <1>5 DEF Report, TypeOK
    <3> QED BY <3>4, <3>5
  <2>5. Remembered'
    <3>1. pc = "report" /\ pc' = "report" /\ UNCHANGED <<signals, exit, cut>>
      BY <1>5 DEF Report
    <3> QED BY <2>4, <3>1 DEF Remembered
  <2> QED BY <2>1, <2>2, <2>3, <2>5
<1>6. CASE Return
  <2>1. TypeOK' BY <1>6 DEF Return, Leave, TypeOK, children
  <2>2. Launched' BY <1>6 DEF Return, Leave, TypeOK, Launched, children
  <2>3. Waited' BY <1>6 DEF Return, Leave, TypeOK, Waited, children
  <2>4. Remembered'
    <3>1. /\ pc = "report" /\ idx > count /\ pc' = "terminate"
          /\ result' = IF failed THEN 1 ELSE 0
          /\ UNCHANGED <<count, processes, child, reaped, printed, signals, cut, exit>>
      BY <1>6 DEF Return, Leave, children
    <3>2. idx = count + 1 /\ (failed <=> AnyBad(count + 1)) /\ printed = count /\ signals = 0 /\ ~cut
      BY <3>1 DEF TypeOK, Remembered
    <3>3. CASE failed
      BY <3>1, <3>2, <3>3 DEF Remembered, AnyBad
    <3>4. CASE ~failed
      <4>1. ~AnyBad(count + 1)
        BY <3>2, <3>4, Zenon
      <4>2. \A c \in 1..(count + 1) : c \in reaped /\ c \in Collectors
        BY <3>1, <3>2 DEF TypeOK, Waited
      <4>3. \A c \in 1..(count + 1) : child[c] = "ok"
        BY <4>1, <4>2 DEF AnyBad, Waited, TypeOK
      <4>4. Complete'
        BY <3>1, <3>2, <4>2, <4>3 DEF Complete, Launched
      <4> QED BY <3>1, <3>2, <3>4, <4>4 DEF Remembered
    <3> QED BY <3>3, <3>4
  <2> QED BY <2>1, <2>2, <2>3, <2>4
<1>7. CASE Terminate
  <2>1. TypeOK' BY <1>7 DEF Terminate, TypeOK
  <2>2. Launched' BY <1>7 DEF Terminate, TypeOK, Launched
  <2>3. Waited' BY <1>7 DEF Terminate, TypeOK, Waited
  <2>4. Remembered' BY <1>7 DEF Terminate, TypeOK, Remembered, AnyBad, Complete
  <2> QED BY <2>1, <2>2, <2>3, <2>4
<1>8. CASE TerminateDone
  <2>1. TypeOK' BY <1>8 DEF TerminateDone, TypeOK, children
  <2>2. Launched' BY <1>8 DEF TerminateDone, TypeOK, Launched, children
  <2>3. Waited' BY <1>8 DEF TerminateDone, TypeOK, Waited, children
  <2>4. Remembered' BY <1>8 DEF TerminateDone, TypeOK, Remembered, AnyBad, Complete, children
  <2> QED BY <2>1, <2>2, <2>3, <2>4
<1>9. CASE Reap
  <2>1. TypeOK' BY <1>9 DEF Reap, TypeOK
  <2>2. Launched' BY <1>9 DEF Reap, TypeOK, Launched
  <2>3. Waited' BY <1>9 DEF Reap, TypeOK, Waited
  <2>4. Remembered' BY <1>9 DEF Reap, TypeOK, Remembered, AnyBad, Complete
  <2> QED BY <2>1, <2>2, <2>3, <2>4
<1>10. CASE Kill
  <2>1. TypeOK' BY <1>10 DEF Kill, TypeOK
  <2>2. Launched' BY <1>10 DEF Kill, TypeOK, Launched
  <2>3. Waited' BY <1>10 DEF Kill, TypeOK, Waited
  <2>4. Remembered' BY <1>10 DEF Kill, TypeOK, Remembered, AnyBad, Complete
  <2> QED BY <2>1, <2>2, <2>3, <2>4
<1>11. CASE Exit
  <2>1. TypeOK' BY <1>11 DEF Exit, TypeOK, children
  <2>2. Launched' BY <1>11 DEF Exit, TypeOK, Launched, children
  <2>3. Waited' BY <1>11 DEF Exit, TypeOK, Waited, children
  <2>4. Remembered' BY <1>11 DEF Exit, TypeOK, Remembered, AnyBad, Complete, children
  <2> QED BY <2>1, <2>2, <2>3, <2>4
<1>12. ASSUME NEW c \in Collectors, CollectorEnds(c) PROVE Inv'
  <2>1. TypeOK' BY <1>12 DEF CollectorEnds, TypeOK
  <2>2. Launched' BY <1>12 DEF CollectorEnds, TypeOK, Launched
  <2>3. Waited' BY <1>12 DEF CollectorEnds, TypeOK, Waited
  <2>4. Remembered' BY <1>12 DEF CollectorEnds, TypeOK, Waited, Remembered, AnyBad, Complete
  <2> QED BY <2>1, <2>2, <2>3, <2>4
<1>13. CASE KeyboardInterrupt
  <2>1. TypeOK'
    <3>1. cut' = (cut \/ pc = "track") \/ cut' = TRUE
      BY <1>13, Zenon DEF KeyboardInterrupt
    <3>2. cut' \in BOOLEAN
      BY <3>1, Zenon
    <3>3. signals' \in Nat
      BY <1>13 DEF KeyboardInterrupt, TypeOK
    <3> QED BY <1>13, <3>2, <3>3 DEF KeyboardInterrupt, Leave, TypeOK, children
  <2>2. Launched' BY <1>13 DEF KeyboardInterrupt, Leave, TypeOK, Launched, children
  <2>3. Waited' BY <1>13 DEF KeyboardInterrupt, Leave, TypeOK, Waited, children
  <2>4. Remembered' BY <1>13 DEF KeyboardInterrupt, Leave, TypeOK, Remembered, children
  <2> QED BY <2>1, <2>2, <2>3, <2>4
<1>14. CASE UNCHANGED vars
  BY <1>14 DEF vars, TypeOK, Launched, Waited, Remembered, AnyBad, Complete
<1> QED
  BY <1>1, <1>2, <1>3, <1>4, <1>5, <1>6, <1>7, <1>8, <1>9, <1>10, <1>11, <1>12, <1>13, <1>14
  DEF Next, Main

\* The invariant holds in every state of every run.
LEMMA InvHolds == Spec => []Inv
<1>1. Init => Inv
  <2> SUFFICES ASSUME Init PROVE Inv
      OBVIOUS
  <2>1. TypeOK
    <3>1. failed \in BOOLEAN /\ cut \in BOOLEAN
      BY Zenon DEF Init
    <3>2. child \in [Collectors -> {"none", "running"} \cup Finished]
      BY DEF Init
    <3>3. /\ count \in 0..MaxPids /\ idx \in 1..(MaxPids + 2)
          /\ processes \in 0..(count + 1) /\ printed \in 0..count
      BY MaxPidsAssumption DEF Init
    <3> QED BY <3>1, <3>2, <3>3 DEF Init, TypeOK
  <2>2. Launched BY MaxPidsAssumption DEF Init, Launched, Collectors
  <2>3. Waited BY DEF Init, Waited
  <2>4. Remembered BY DEF Init, Remembered, Cleanup
  <2> QED BY <2>1, <2>2, <2>3, <2>4 DEF Inv
<1> QED BY <1>1, InvStep, PTL DEF Spec

\* The variables of measure_stats.py keep their types.
THEOREM TypeCorrect == Spec => []TypeOK
<1>1. Inv => TypeOK BY DEF Inv
<1> QED BY <1>1, InvHolds, PTL

\* No collector outlives main(), whatever fails to start and whenever Ctrl-C is
\* pressed in the body of its try statement.
THEOREM CollectorsEnd == Spec => []NoneOutlives
<1>1. Inv => NoneOutlives
  BY MaxPidsAssumption DEF Inv, TypeOK, Launched, Waited, NoneOutlives, Ended, Collectors
<1> QED BY <1>1, InvHolds, PTL

\* The exit status is 0 exactly for a complete run.
THEOREM StatusIsRight == Spec => []StatusTellsOutcome
<1>1. Inv => StatusTellsOutcome
  BY MaxPidsAssumption
  DEF Inv, TypeOK, Launched, Waited, Remembered, AnyBad, Cleanup, Complete, StatusTellsOutcome,
      Ended, Collectors
<1> QED BY <1>1, InvHolds, PTL
=============================================================================
