------------------------ MODULE LoadedLatencyProofs -------------------------
(***************************************************************************)
(* Proofs about LoadedLatency, for every delay asked for, every target     *)
(* duration and whatever bandwidths are measured.                          *)
(***************************************************************************)
EXTENDS LoadedLatency, FiniteSetTheorems, FunctionTheorems, TLAPS

USE MixesAssumption, DelaysAssumption, TargetAssumption, BandwidthsAssumption

ItemType == [delay : Nat, mix : Nat, nops : Nat]
Measuring == {"prepare", "measure", "done"}

\* Items makes one kernel of every delay on a list.
LEMMA ItemsOfDelays ==
    ASSUME NEW s \in Seq(Nat), NEW m \in Nat
    PROVE  /\ Items(s, m) \in Seq(ItemType)
           /\ Len(Items(s, m)) = Len(s)
           /\ \A k \in 1..Len(s) : Items(s, m)[k].delay = s[k]
<1>1. DOMAIN s = 1..Len(s) /\ Len(s) \in Nat /\ \A k \in 1..Len(s) : s[k] \in Nat
  OBVIOUS
<1>2. Items(s, m) \in [1..Len(s) -> ItemType]
  BY <1>1 DEF Items, Item, ItemType
<1>3. Items(s, m) \in Seq(ItemType) /\ Len(Items(s, m)) = Len(s)
  BY <1>1, <1>2
<1>4. \A k \in 1..Len(s) : Items(s, m)[k].delay = s[k]
  BY <1>1 DEF Items, Item
<1> QED
  BY <1>3, <1>4

\* There are kernels for every mix; for a documented mix the first has delay 1.
LEMMA KernelsOfMix ==
    ASSUME NEW m \in Nat
    PROVE  LET kernels == get_kernels_with_delays(m)
           IN  /\ kernels \in Seq(ItemType)
               /\ Len(kernels) \in Nat \ {0}
               /\ m \in 0..3 => kernels[1].delay = 1
<1>1. BaseDelays \in Seq(Nat) /\ Len(BaseDelays) = 21 /\ BaseDelays[1] = 1
  BY DEF BaseDelays
<1>2. R2W1Delays \in Seq(Nat) /\ Len(R2W1Delays) = 24 /\ R2W1Delays[1] = 1
  BY DEF R2W1Delays
<1>3. CASE m = 2
  BY <1>2, <1>3, ItemsOfDelays DEF get_kernels_with_delays
<1>4. CASE m \in {0, 1, 3}
  BY <1>1, <1>4, ItemsOfDelays DEF get_kernels_with_delays
<1>5. CASE m \notin 0..3
  <2>1. get_kernels_with_delays(m) = <<Item(0, 2, 256)>>
    BY <1>5 DEF get_kernels_with_delays
  <2>2. Item(0, 2, 256) \in ItemType
    BY DEF Item, ItemType
  <2> QED
    BY <1>5, <2>1, <2>2
<1> QED
  BY <1>3, <1>4, <1>5

\* The warm-up is one more item in front.
LEMMA FrontTwice ==
    ASSUME NEW l \in Seq(ItemType), l # <<>>
    PROVE  PushFront(l) \in Seq(ItemType) /\ Len(PushFront(l)) = Len(l) + 1
<1>1. Head(l) \in ItemType
  OBVIOUS
<1> QED
  BY <1>1 DEF PushFront

\* The bandwidth that is kept is a number of GB/s.
LEMMA Truncated == \A b \in Bandwidths : b \div 10 \in Nat
  OBVIOUS

\* Before the first measurement no result is positive, after it the latency is;
\* printed counts the measurements but the first, and report is the last's.
RowsInv ==
    /\ mix \in Nat /\ delay \in Nat /\ gap \in Nat
    /\ stage \in Measuring \cup {"select"}
    /\ pos \in Nat \ {0}
    /\ list \in Seq(ItemType)
    /\ printed \in Nat /\ last_lat \in Nat /\ last_bw \in Nat
    /\ stage = "select" => printed = 0 /\ last_lat = 0 /\ last_bw = 0
    /\ stage \in Measuring =>
          /\ pos <= Len(list) + 1
          /\ IF pos = 1 THEN last_lat = 0 /\ last_bw = 0 ELSE last_lat = 1
          /\ printed = IF pos > 2 THEN pos - 2 ELSE 0
          /\ pos > 2 => report = list[pos - 1].delay
          /\ delay = 0 => Len(list) = Len(raw) + 1
    /\ stage = "measure" => pos <= Len(list)
    /\ stage = "done" => pos = Len(list) + 1
    /\ LatencyRunsTheTarget

\* The kernels to choose from have delays that can be compared.
LEMMA RawKernels ==
    ASSUME mix \in Nat
    PROVE  /\ raw \in Seq(ItemType) /\ Len(raw) \in Nat \ {0} /\ raw # <<>>
           /\ \A k \in 1..Len(raw) : raw[k] \in ItemType /\ raw[k].delay \in Nat
           /\ mix \in 0..3 => raw[1].delay = 1
<1>1. /\ raw \in Seq(ItemType) /\ Len(raw) \in Nat \ {0}
      /\ mix \in 0..3 => raw[1].delay = 1
  BY KernelsOfMix DEF raw
<1>2. raw # <<>> /\ \A k \in 1..Len(raw) : raw[k] \in ItemType
  BY <1>1
<1>3. \A item \in ItemType : item.delay \in Nat
  BY DEF ItemType
<1> QED
  BY <1>1, <1>2, <1>3

LEMMA RowsStep == RowsInv /\ [Next]_vars => RowsInv'
<1> SUFFICES ASSUME RowsInv, [Next]_vars PROVE RowsInv'
  OBVIOUS
<1>0. /\ raw \in Seq(ItemType) /\ Len(raw) \in Nat \ {0} /\ raw # <<>>
      /\ \A k \in 1..Len(raw) : raw[k] \in ItemType /\ raw[k].delay \in Nat
  BY RawKernels DEF RowsInv
<1>a. UNCHANGED mix => raw' = raw
  BY DEF raw
<1> USE <1>0, <1>a DEF RowsInv, LatencyRunsTheTarget, Measuring
<1>1. CASE SelectStep
  <2>1. \A n \in Int : Abs(n) \in Nat
    BY DEF Abs
  <2>2. pos \in 1..Len(raw) /\ raw[pos] \in ItemType /\ raw[pos].delay - delay \in Int
    BY <1>1 DEF SelectStep
  <2>3. gap' \in Nat
    BY <1>1, <2>1, <2>2 DEF SelectStep
  <2>4. list' \in Seq(ItemType)
    <3>1. list' = <<raw[pos]>> \/ list' = list
      BY <1>1 DEF SelectStep
    <3>2. \A item \in ItemType : <<item>> \in Seq(ItemType)
      OBVIOUS
    <3> QED
      BY <2>2, <3>1, <3>2
  <2> QED
    BY <1>1, <2>3, <2>4 DEF SelectStep
<1>2. CASE SelectDone
  <2>1. list' \in Seq(ItemType) /\ Len(list') >= 1 /\ (delay = 0 => Len(list') = Len(raw) + 1)
    BY <1>2, FrontTwice DEF SelectDone
  <2> QED
    BY <1>2, <2>1 DEF SelectDone
<1>3. CASE Prepare
  BY <1>3 DEF Prepare, TargetAfter
<1>4. CASE Measure
  <2>1. last_lat' = 1 /\ last_bw' \in Nat
    BY <1>4, Truncated DEF Measure
  <2>2. CASE pos = 1
    BY <1>4, <2>1, <2>2 DEF Measure
  <2>3. CASE pos > 1
    BY <1>4, <2>1, <2>3 DEF Measure
  <2> QED
    BY <2>2, <2>3
<1>5. CASE Finish
  BY <1>5 DEF Finish
<1>6. CASE UNCHANGED vars
  BY <1>6 DEF vars
<1> QED
  BY <1>1, <1>2, <1>3, <1>4, <1>5, <1>6 DEF Next

LEMMA RowsInvHolds == Spec => []RowsInv
<1>1. Init => RowsInv
  <2> SUFFICES ASSUME Init PROVE RowsInv
    OBVIOUS
  <2>1. mix \in Nat /\ delay \in Nat /\ list \in Seq(ItemType)
    BY DEF Init
  <2> QED
    BY <2>1 DEF Init, RowsInv, LatencyRunsTheTarget, Measuring
<1> QED
  BY <1>1, RowsStep, PTL DEF Spec

\* Exactly the rows that were asked for are printed, once and in order, whatever
\* the measurements return.
THEOREM RowsAreTheList == Spec => []RowsFollowTheList
<1>1. RowsInv => RowsFollowTheList
  BY RawKernels DEF RowsInv, RowsFollowTheList, Measuring
<1> QED
  BY <1>1, RowsInvHolds, PTL

\* Every printed latency is measured for the whole target duration.
THEOREM FullDuration == Spec => []LatencyRunsTheTarget
<1>1. RowsInv => LatencyRunsTheTarget
  BY DEF RowsInv
<1> QED
  BY <1>1, RowsInvHolds, PTL

\* The walk so far has found the nearest of the kernels it has passed.
NearInv ==
    stage = "select" /\ delay > 0 =>
        /\ pos <= Len(raw) + 1
        /\ pos = 1 => gap = delay
        /\ pos > 1 =>
              /\ Len(list) = 1
              /\ gap = Abs(list[1].delay - delay)
              /\ \A k \in 1..(pos - 1) : gap <= Abs(raw[k].delay - delay)

LEMMA NearStep ==
    ASSUME RowsInv, mix \in 0..3, NearInv, [Next]_vars
    PROVE  NearInv'
<1>0. /\ raw \in Seq(ItemType) /\ Len(raw) \in Nat \ {0} /\ raw[1].delay = 1
      /\ \A k \in 1..Len(raw) : raw[k] \in ItemType /\ raw[k].delay \in Nat
  BY RawKernels DEF RowsInv
<1>a. UNCHANGED mix => raw' = raw
  BY DEF raw
<1>1. CASE SelectStep
  <2>0. /\ stage = "select" /\ delay > 0 /\ delay \in Nat /\ gap \in Nat
        /\ pos \in 1..Len(raw) /\ pos' = pos + 1
        /\ stage' = "select" /\ delay' = delay /\ raw' = raw
    BY <1>1, <1>a DEF SelectStep, RowsInv
  <2>1. CASE Nearer(raw[pos])
    <3>1. gap' = Abs(raw[pos].delay - delay) /\ list' = <<raw[pos]>> /\ gap' < gap
      BY <1>1, <2>1 DEF SelectStep, Nearer
    <3>2. Len(list') = 1 /\ list'[1] = raw[pos]
      BY <3>1
    <3>3. gap' \in Nat
      BY <1>0, <2>0, <3>1 DEF Abs
    <3>4. \A k \in 1..(pos - 1) : gap <= Abs(raw[k].delay - delay)
      BY <2>0 DEF NearInv
    <3>5. \A k \in 1..pos : Abs(raw[k].delay - delay) \in Nat
      BY <1>0, <2>0 DEF Abs
    <3>6. \A k \in 1..pos : gap' <= Abs(raw[k].delay - delay)
      BY <2>0, <3>1, <3>3, <3>4, <3>5
    <3> QED
      BY <2>0, <3>1, <3>2, <3>6 DEF NearInv
  <2>2. CASE ~Nearer(raw[pos])
    <3>1. UNCHANGED <<gap, list>>
      BY <1>1, <2>2 DEF SelectStep
    <3>2. pos > 1
      BY <1>0, <2>0, <2>2 DEF NearInv, Nearer, Abs
    <3>3. gap <= Abs(raw[pos].delay - delay)
      BY <1>0, <2>0, <2>2 DEF Nearer, Abs
    <3> QED
      BY <2>0, <3>1, <3>2, <3>3 DEF NearInv
  <2> QED
    BY <2>1, <2>2
<1>2. CASE SelectDone \/ Prepare \/ Measure \/ Finish
  BY <1>2 DEF SelectDone, Prepare, Measure, Finish, NearInv
<1>3. CASE UNCHANGED vars
  BY <1>3, <1>a DEF vars, NearInv
<1> QED
  BY <1>1, <1>2, <1>3 DEF Next

\* With a documented mix there is a kernel for every delay asked for, and the
\* nearest one is taken: front() is not called on an empty list.
THEOREM NearestKernel ==
    ASSUME Mixes \subseteq 0..3
    PROVE  Spec => []NearestKernelIsFound
<1>1. Init => mix \in 0..3 /\ NearInv
  <2> SUFFICES ASSUME Init PROVE mix \in 0..3 /\ NearInv
    OBVIOUS
  <2>1. mix \in 0..3
    BY DEF Init
  <2> QED
    BY <2>1, KernelsOfMix DEF Init, NearInv, raw
<1>2. RowsInv /\ mix \in 0..3 /\ NearInv /\ [Next]_vars => (mix \in 0..3 /\ NearInv)'
  <2>1. [Next]_vars => mix' = mix
    BY DEF Next, vars, SelectStep, SelectDone, Prepare, Measure, Finish
  <2> QED
    BY <2>1, NearStep
<1>3. RowsInv /\ mix \in 0..3 /\ NearInv => NearestKernelIsFound
  <2> SUFFICES ASSUME RowsInv, mix \in 0..3, NearInv, stage = "select", delay > 0, pos > Len(raw)
               PROVE  /\ Len(list) = 1
                      /\ \A k \in DOMAIN raw :
                            Abs(list[1].delay - delay) <= Abs(raw[k].delay - delay)
    BY DEF NearestKernelIsFound
  <2>1. Len(raw) \in Nat \ {0} /\ DOMAIN raw = 1..Len(raw)
    BY KernelsOfMix DEF RowsInv, raw
  <2>2. pos = Len(raw) + 1
    BY <2>1 DEF NearInv, RowsInv
  <2> QED
    BY <2>1, <2>2 DEF NearInv
<1> QED
  BY <1>1, <1>2, <1>3, RowsInvHolds, PTL DEF Spec

-----------------------------------------------------------------------------
(***************************************************************************)
(* The traffic of a call: which of its 256 accesses write, and how many    *)
(* lines that makes.                                                       *)
(***************************************************************************)
Access == {"R", "W"}

\* s is the sequence x of length m, n times, and x of length m before y of length n.
IsRepeat(s, n, m, x) ==
    /\ s \in Seq(Access) /\ Len(s) = n * m
    /\ \A k \in 1..(n * m) : s[k] = x[((k - 1) % m) + 1]
IsJoin(s, m, n, x, y) ==
    /\ s \in Seq(Access) /\ Len(s) = m + n
    /\ \A k \in 1..m : s[k] = x[k]
    /\ \A k \in 1..n : s[m + k] = y[k]

LEMMA Joined ==
    ASSUME NEW m \in Nat \ {0}, NEW n \in Nat \ {0}, NEW x \in Seq(Access), NEW y \in Seq(Access),
           Len(x) = m, Len(y) = n
    PROVE  IsJoin(x \o y, m, n, x, y)
<1>1. x \o y \in Seq(Access) /\ Len(x \o y) = m + n
  OBVIOUS
<1>2. \A k \in 1..m : (x \o y)[k] = x[k]
  OBVIOUS
<1>3. \A k \in 1..n : (x \o y)[m + k] = y[k]
  OBVIOUS
<1> QED
  BY <1>1, <1>2, <1>3 DEF IsJoin

LEMMA Repeated ==
    ASSUME NEW n \in Nat \ {0}, NEW m \in Nat \ {0}, NEW x \in Seq(Access), Len(x) = m
    PROVE  IsRepeat(LP(n, x), n, m, x)
<1>1. n * m \in Nat /\ \A k \in Nat : k % m \in 0..(m - 1)
  OBVIOUS
<1>2. \A k \in 1..(n * m) : ((k - 1) % m) + 1 \in 1..m
  <2> SUFFICES ASSUME NEW k \in 1..(n * m) PROVE ((k - 1) % m) + 1 \in 1..m
    OBVIOUS
  <2>1. k - 1 \in Nat
    BY <1>1
  <2>2. (k - 1) % m \in 0..(m - 1)
    BY <1>1, <2>1
  <2> QED
    BY <2>2
<1>3. LP(n, x) = [k \in 1..(n * m) |-> x[((k - 1) % m) + 1]]
  BY DEF LP
<1>4. \A k \in 1..m : x[k] \in Access
  OBVIOUS
<1>5. LP(n, x) \in [1..(n * m) -> Access]
  BY <1>2, <1>3, <1>4
<1> QED
  BY <1>1, <1>3, <1>5 DEF IsRepeat

LEMMA Blocks ==
    /\ RD32 \in Seq(Access) /\ Len(RD32) = 1 /\ RD32[1] = "R"
    /\ WR32 \in Seq(Access) /\ Len(WR32) = 1 /\ WR32[1] = "W"
BY DEF RD32, WR32, Access

LEMMA PairOfBlocks ==
    /\ RD32 \o WR32 \in Seq(Access) /\ Len(RD32 \o WR32) = 2
    /\ (RD32 \o WR32)[1] = "R" /\ (RD32 \o WR32)[2] = "W"
<1>1. 1 \in Nat \ {0} /\ 1 + 1 = 2 /\ 1 \in 1..1
  OBVIOUS
<1>2. IsJoin(RD32 \o WR32, 1, 1, RD32, WR32)
  BY <1>1, Blocks, Joined
<1> QED
  BY <1>1, <1>2, Blocks DEF IsJoin

OnlyReads(s, n) == s \in Seq(Access) /\ Len(s) = n /\ \A k \in 1..n : s[k] = "R"

LEMMA RepeatedRead ==
    ASSUME NEW n \in Nat \ {0}
    PROVE  OnlyReads(LP(n, RD32), n)
<1> DEFINE s == LP(n, RD32)
<1>0. IsRepeat(s, n, 1, RD32)
  <2>1. 1 \in Nat \ {0}
    OBVIOUS
  <2> QED
    BY <2>1, Blocks, Repeated
<1> HIDE DEF s
<1>1. n * 1 = n /\ \A k \in 1..n : ((k - 1) % 1) + 1 = 1
  OBVIOUS
<1>2. s \in Seq(Access) /\ Len(s) = n /\ \A k \in 1..n : s[k] = RD32[((k - 1) % 1) + 1]
  BY <1>0, <1>1 DEF IsRepeat
<1>3. \A k \in 1..n : s[k] = "R"
  BY <1>1, <1>2, Blocks, Zenon
<1> QED
  BY <1>2, <1>3 DEF OnlyReads, s

LEMMA ReadsOnly ==
    ASSUME mix = 0
    PROVE  Len(Accesses(mix)) = 256 /\ \A k \in 1..256 : Accesses(mix)[k] = "R"
<1> DEFINE a == LP(256, RD32)
<1>1. Accesses(mix) = a
  BY DEF Accesses
<1>2. 256 \in Nat \ {0} /\ 1 \in Nat \ {0} /\ 256 * 1 = 256
  OBVIOUS
<1>3. IsRepeat(a, 256, 1, RD32)
  BY <1>2, Blocks, Repeated
<1> HIDE DEF a
<1>4. Len(a) = 256 /\ \A k \in 1..256 : a[k] = RD32[((k - 1) % 1) + 1]
  BY <1>2, <1>3 DEF IsRepeat
<1>5. \A k \in 1..256 : ((k - 1) % 1) + 1 = 1
  OBVIOUS
<1>6. ASSUME NEW k \in 1..256 PROVE a[k] = "R"
  <2>1. a[k] = RD32[((k - 1) % 1) + 1] /\ ((k - 1) % 1) + 1 = 1
    BY <1>4, <1>5
  <2> QED
    BY <2>1, Blocks, Zenon
<1> QED
  BY <1>1, <1>4, <1>6

LEMMA OneToOne ==
    ASSUME mix = 1
    PROVE  /\ Len(Accesses(mix)) = 256
           /\ \A k \in 1..256 : Accesses(mix)[k] = "W" <=> k % 2 = 0
<1> DEFINE x == RD32 \o WR32
           a == LP(128, x)
<1>1. Accesses(mix) = a
  BY DEF Accesses
<1>2. x \in Seq(Access) /\ Len(x) = 2 /\ x[1] = "R" /\ x[2] = "W"
  BY PairOfBlocks
<1> HIDE DEF x
<1>3. 128 \in Nat \ {0} /\ 2 \in Nat \ {0} /\ 128 * 2 = 256
  OBVIOUS
<1>4. IsRepeat(a, 128, 2, x)
  BY <1>2, <1>3, Repeated, ZenonT(30)
<1> HIDE DEF a
<1>5. Len(a) = 256 /\ \A k \in 1..256 : a[k] = x[((k - 1) % 2) + 1]
  BY <1>3, <1>4 DEF IsRepeat
<1>6. \A k \in 1..256 : /\ k % 2 = 0 => ((k - 1) % 2) + 1 = 2
                        /\ k % 2 # 0 => ((k - 1) % 2) + 1 = 1
  OBVIOUS
<1>7. ASSUME NEW k \in 1..256 PROVE a[k] = "W" <=> k % 2 = 0
  <2> DEFINE j == ((k - 1) % 2) + 1
  <2>1. (k % 2 = 0 => j = 2) /\ (k % 2 # 0 => j = 1) /\ a[k] = x[j]
    BY <1>5, <1>6
  <2> HIDE DEF j
  <2> QED
    BY <1>2, <2>1
<1> QED
  BY <1>1, <1>5, <1>7

LEMMA TwoToOne ==
    ASSUME mix = 2
    PROVE  /\ Len(Accesses(mix)) = 256
           /\ \A k \in 1..256 : Accesses(mix)[k] = "W" <=> k % 8 \in {0, 6}
<1> DEFINE r == LP(4, RD32)
           w == RD32 \o WR32
           ww == LP(2, w)
           x == r \o ww
           a == LP(32, x)
<1>1. Accesses(mix) = a
  BY DEF Accesses
<1>0. /\ 1 \in Nat \ {0} /\ 2 \in Nat \ {0} /\ 4 \in Nat \ {0} /\ 8 \in Nat \ {0} /\ 32 \in Nat \ {0}
      /\ 4 * 1 = 4 /\ 2 * 2 = 4 /\ 32 * 8 = 256 /\ 4 + 4 = 8
  OBVIOUS
<1>2. r \in Seq(Access) /\ Len(r) = 4 /\ \A k \in 1..4 : r[k] = "R"
  <2>1. 4 \in Nat \ {0}
    OBVIOUS
  <2>2. OnlyReads(r, 4)
    BY <2>1, RepeatedRead
  <2> HIDE DEF r
  <2> QED
    BY <2>2 DEF OnlyReads
<1>3. w \in Seq(Access) /\ Len(w) = 2 /\ w[1] = "R" /\ w[2] = "W"
  BY PairOfBlocks
<1> HIDE DEF r, w
<1>4. ww \in Seq(Access) /\ Len(ww) = 4 /\ ww[1] = "R" /\ ww[2] = "W" /\ ww[3] = "R" /\ ww[4] = "W"
  <2>1. IsRepeat(ww, 2, 2, w)
    BY <1>0, <1>3, Repeated, ZenonT(30)
  <2> HIDE DEF ww
  <2>2. ww \in Seq(Access) /\ Len(ww) = 4 /\ \A k \in 1..4 : ww[k] = w[((k - 1) % 2) + 1]
    BY <1>0, <2>1 DEF IsRepeat
  <2>3. /\ ((1 - 1) % 2) + 1 = 1 /\ ((2 - 1) % 2) + 1 = 2
        /\ ((3 - 1) % 2) + 1 = 1 /\ ((4 - 1) % 2) + 1 = 2
    OBVIOUS
  <2>4. 1 \in 1..4 /\ 2 \in 1..4 /\ 3 \in 1..4 /\ 4 \in 1..4
    OBVIOUS
  <2> QED
    BY <1>3, <2>2, <2>3, <2>4, Zenon
<1> HIDE DEF ww
<1>5. /\ x \in Seq(Access) /\ Len(x) = 8
      /\ \A k \in 1..8 : x[k] = "W" <=> k \in {6, 8}
  <2>1. IsJoin(x, 4, 4, r, ww)
    BY <1>0, <1>2, <1>4, Joined, ZenonT(30)
  <2> HIDE DEF x
  <2>2. /\ x \in Seq(Access) /\ Len(x) = 8
        /\ \A k \in 1..4 : x[k] = r[k]
        /\ \A k \in 1..4 : x[4 + k] = ww[k]
    BY <1>0, <2>1 DEF IsJoin
  <2>3. ASSUME NEW k \in 1..8 PROVE x[k] = "W" <=> k \in {6, 8}
    <3>1. CASE k \in 1..4
      BY <1>2, <2>2, <3>1
    <3>2. CASE k \notin 1..4
      <4>1. k - 4 \in 1..4 /\ k = 4 + (k - 4)
        BY <3>2
      <4>2. x[k] = ww[k - 4]
        BY <2>2, <4>1
      <4>3. k = 5 \/ k = 6 \/ k = 7 \/ k = 8
        BY <3>2
      <4> QED
        BY <1>4, <4>2, <4>3
    <3> QED
      BY <3>1, <3>2
  <2> QED
    BY <2>2, <2>3
<1> HIDE DEF x
<1>6. IsRepeat(a, 32, 8, x)
  BY <1>0, <1>5, Repeated, ZenonT(30)
<1> HIDE DEF a
<1>7. Len(a) = 256 /\ \A k \in 1..256 : a[k] = x[((k - 1) % 8) + 1]
  BY <1>0, <1>6 DEF IsRepeat
<1>8. \A k \in 1..256 : /\ ((k - 1) % 8) + 1 \in 1..8
                        /\ ((k - 1) % 8) + 1 \in {6, 8} <=> k % 8 \in {0, 6}
  OBVIOUS
<1>9. \A k \in 1..256 : a[k] = "W" <=> k % 8 \in {0, 6}
  <2> SUFFICES ASSUME NEW k \in 1..256 PROVE a[k] = "W" <=> k % 8 \in {0, 6}
    OBVIOUS
  <2> DEFINE j == ((k - 1) % 8) + 1
  <2>1. j \in 1..8 /\ (j \in {6, 8} <=> k % 8 \in {0, 6}) /\ a[k] = x[j]
    BY <1>7, <1>8
  <2> HIDE DEF j
  <2> QED
    BY <1>5, <2>1
<1> QED
  BY <1>1, <1>7, <1>9

LEMMA ThreeToOne ==
    ASSUME mix = 3
    PROVE  /\ Len(Accesses(mix)) = 256
           /\ \A k \in 1..256 : Accesses(mix)[k] = "W" <=> k = 256 \/ (k <= 252 /\ k % 6 = 0)
<1> DEFINE r == LP(5, RD32)
           x == r \o WR32
           a == LP(42, x)
           b == LP(3, RD32)
           c == LP(1, WR32)
           ab == a \o b
           abc == ab \o c
<1>1. Accesses(mix) = abc
  BY DEF Accesses
<1>0. /\ 1 \in Nat \ {0} /\ 1 * 1 = 1 /\ 42 * 6 = 252
      /\ 5 + 1 = 6 /\ 252 + 3 = 255 /\ 255 + 1 = 256
  OBVIOUS
<1>2. r \in Seq(Access) /\ Len(r) = 5 /\ \A k \in 1..5 : r[k] = "R"
  <2>1. 5 \in Nat \ {0}
    OBVIOUS
  <2>2. OnlyReads(r, 5)
    BY <2>1, RepeatedRead
  <2> HIDE DEF r
  <2> QED
    BY <2>2 DEF OnlyReads
<1> HIDE DEF r
<1>3. x \in Seq(Access) /\ Len(x) = 6 /\ \A k \in 1..6 : x[k] = "W" <=> k = 6
  <2>0. 5 \in Nat \ {0} /\ 1 \in Nat \ {0}
    OBVIOUS
  <2>1. IsJoin(x, 5, 1, r, WR32)
    BY <2>0, <1>2, Blocks, Joined
  <2> HIDE DEF x
  <2>2. /\ x \in Seq(Access) /\ Len(x) = 6
        /\ \A k \in 1..5 : x[k] = r[k]
        /\ \A k \in 1..1 : x[5 + k] = WR32[k]
    BY <1>0, <2>1 DEF IsJoin
  <2>3. x[6] = "W"
    <3>1. 1 \in 1..1 /\ 5 + 1 = 6
      OBVIOUS
    <3> QED
      BY <2>2, <3>1, Blocks
  <2>4. \A k \in 1..6 : k \in 1..5 \/ k = 6
    OBVIOUS
  <2> QED
    BY <1>2, <2>2, <2>3, <2>4
<1> HIDE DEF x
<1>4. a \in Seq(Access) /\ Len(a) = 252 /\ \A k \in 1..252 : a[k] = "W" <=> k % 6 = 0
  <2>0. 42 \in Nat \ {0} /\ 6 \in Nat \ {0}
    OBVIOUS
  <2>1. IsRepeat(a, 42, 6, x)
    BY <2>0, <1>3, Repeated
  <2> HIDE DEF a
  <2>2. a \in Seq(Access) /\ Len(a) = 252 /\ \A k \in 1..252 : a[k] = x[((k - 1) % 6) + 1]
    BY <1>0, <2>1 DEF IsRepeat
  <2>3. \A k \in 1..252 : /\ ((k - 1) % 6) + 1 \in 1..6
                          /\ ((k - 1) % 6) + 1 = 6 <=> k % 6 = 0
    OBVIOUS
  <2>4. \A k \in 1..252 : a[k] = "W" <=> k % 6 = 0
    <3> SUFFICES ASSUME NEW k \in 1..252 PROVE a[k] = "W" <=> k % 6 = 0
      OBVIOUS
    <3> DEFINE j == ((k - 1) % 6) + 1
    <3>1. j \in 1..6 /\ (j = 6 <=> k % 6 = 0) /\ a[k] = x[j]
      BY <2>2, <2>3
    <3> HIDE DEF j
    <3> QED
      BY <1>3, <3>1
  <2> QED
    BY <2>2, <2>4
<1>5. b \in Seq(Access) /\ Len(b) = 3 /\ \A k \in 1..3 : b[k] = "R"
  <2>1. 3 \in Nat \ {0}
    OBVIOUS
  <2>2. OnlyReads(b, 3)
    BY <2>1, RepeatedRead
  <2> HIDE DEF b
  <2> QED
    BY <2>2 DEF OnlyReads
<1>6. c \in Seq(Access) /\ Len(c) = 1 /\ c[1] = "W"
  <2>0. 1 \in Nat \ {0}
    OBVIOUS
  <2>1. IsRepeat(c, 1, 1, WR32)
    BY <2>0, Blocks, Repeated
  <2> HIDE DEF c
  <2>2. c \in Seq(Access) /\ Len(c) = 1 /\ \A k \in 1..1 : c[k] = WR32[((k - 1) % 1) + 1]
    BY <1>0, <2>1 DEF IsRepeat
  <2>3. 1 \in 1..1 /\ ((1 - 1) % 1) + 1 = 1
    OBVIOUS
  <2> QED
    BY <2>2, <2>3, Blocks
<1> HIDE DEF a, b, c
<1>7. /\ ab \in Seq(Access) /\ Len(ab) = 255
      /\ \A k \in 1..252 : ab[k] = a[k]
      /\ \A k \in 1..3 : ab[252 + k] = b[k]
  <2> DEFINE m == 252
  <2>0. /\ m \in Nat \ {0} /\ 3 \in Nat \ {0}
        /\ a \in Seq(Access) /\ Len(a) = m /\ b \in Seq(Access) /\ Len(b) = 3
    BY <1>4, <1>5
  <2> HIDE DEF m
  <2>1. IsJoin(ab, m, 3, a, b)
    BY <2>0, Joined, Zenon
  <2> HIDE DEF ab
  <2> QED
    BY <1>0, <2>1 DEF IsJoin, m
<1> HIDE DEF ab
<1>8. /\ Len(abc) = 256
      /\ \A k \in 1..255 : abc[k] = ab[k]
      /\ abc[256] = "W"
  <2> DEFINE m == 255
  <2>0. /\ m \in Nat \ {0} /\ 1 \in Nat \ {0}
        /\ ab \in Seq(Access) /\ Len(ab) = m /\ c \in Seq(Access) /\ Len(c) = 1
    BY <1>6, <1>7
  <2> HIDE DEF m
  <2>1. IsJoin(abc, m, 1, ab, c)
    BY <2>0, Joined, Zenon
  <2> HIDE DEF abc
  <2>2. /\ Len(abc) = m + 1 /\ \A k \in 1..m : abc[k] = ab[k]
        /\ \A k \in 1..1 : abc[m + k] = c[k]
    BY <2>1 DEF IsJoin
  <2>3. 1 \in 1..1 /\ m + 1 = 256
    BY DEF m
  <2>4. abc[256] = "W"
    BY <1>6, <2>2, <2>3
  <2> QED
    BY <2>2, <2>3, <2>4 DEF m
<1> HIDE DEF abc
<1>9. ASSUME NEW k \in 1..256 PROVE abc[k] = "W" <=> k = 256 \/ (k <= 252 /\ k % 6 = 0)
  <2>1. CASE k \in 1..252
    <3>1. k \in 1..255 /\ k <= 252 /\ k # 256
      BY <2>1
    <3>2. a[k] = "W" <=> k % 6 = 0
      BY <1>4, <2>1
    <3>3. abc[k] = ab[k]
      BY <1>8, <3>1
    <3>4. ab[k] = a[k]
      BY <1>7, <2>1
    <3> QED
      BY <3>1, <3>2, <3>3, <3>4
  <2>2. CASE k - 252 \in 1..3
    <3>1. k \in 1..255 /\ k = 252 + (k - 252) /\ ~(k <= 252) /\ k # 256
      BY <2>2
    <3>2. abc[k] = ab[k]
      BY <1>8, <3>1
    <3> DEFINE j == k - 252
    <3>0. j \in 1..3 /\ k = 252 + j
      BY <2>2
    <3> HIDE DEF j
    <3>3. ab[k] = b[j] /\ b[j] = "R"
      BY <1>5, <1>7, <3>0
    <3> QED
      BY <3>1, <3>2, <3>3
  <2>3. CASE k = 256
    BY <1>8, <2>3
  <2>4. k \in 1..252 \/ k - 252 \in 1..3 \/ k = 256
    OBVIOUS
  <2> QED
    BY <2>1, <2>2, <2>3, <2>4
<1> QED
  BY <1>1, <1>8, <1>9

Lines == 1..128
WrittenLines == {l \in Lines : Accesses(mix)[2 * l - 1] = "W" \/ Accesses(mix)[2 * l] = "W"}

\* A set that 1..n enumerates without repetition has n elements.
LEMMA Counted ==
    ASSUME NEW n \in Nat, NEW S, NEW f \in [1..n -> S],
           \A i, j \in 1..n : f[i] = f[j] => i = j,
           \A s \in S : \E i \in 1..n : f[i] = s
    PROVE  Cardinality(S) = n
<1>1. f \in Bijection(1..n, S)
  BY DEF Bijection, Injection, Surjection, IsInjective
<1>2. IsFiniteSet(1..n) /\ Cardinality(1..n) = n
  BY FS_Interval
<1> QED
  BY <1>1, <1>2, FS_Bijection DEF ExistsBijection

LEMMA AllLines == Cardinality(1..128) = 128
<1>1. 1 \in Int /\ 128 \in Int
  OBVIOUS
<1>2. Cardinality(1..128) = IF 1 > 128 THEN 0 ELSE 128 - 1 + 1
  BY <1>1, FS_Interval, Zenon
<1> QED
  BY <1>2

\* Copying with one read to one write writes every line.
LEMMA OneToOneLines ==
    ASSUME mix = 1
    PROVE  Cardinality(WrittenLines) = 128
<1>1. \A l \in 1..128 : 2 * l \in 1..256 /\ (2 * l) % 2 = 0
  OBVIOUS
<1>2. \A l \in 1..128 : Accesses(mix)[2 * l] = "W"
  BY <1>1, OneToOne
<1>3. WrittenLines = 1..128
  BY <1>2 DEF WrittenLines, Lines
<1> QED
  BY <1>3, AllLines

\* Two reads to one write: every other line.
LEMMA TwoToOneLines ==
    ASSUME mix = 2
    PROVE  Cardinality(WrittenLines) = 64
<1>1. \A l \in 1..128 :
         /\ 2 * l \in 1..256 /\ 2 * l - 1 \in 1..256
         /\ (2 * l - 1) % 8 \notin {0, 6}
         /\ (2 * l) % 8 \in {0, 6} <=> l % 4 \in {0, 3}
  OBVIOUS
<1>2. ASSUME NEW l \in 1..128
      PROVE  (Accesses(mix)[2 * l - 1] = "W" \/ Accesses(mix)[2 * l] = "W") <=> l % 4 \in {0, 3}
  BY <1>1, TwoToOne
<1>3. WrittenLines = {l \in 1..128 : l % 4 \in {0, 3}}
  BY <1>2 DEF WrittenLines, Lines
<1> DEFINE f == [j \in 1..64 |-> 4 * ((j + 1) \div 2) - (j % 2)]
           S == {l \in 1..128 : l % 4 \in {0, 3}}
<1>4. ASSUME NEW j \in 1..64
      PROVE  4 * ((j + 1) \div 2) - (j % 2) \in S
  OBVIOUS
<1>5. f \in [1..64 -> S]
  BY <1>4
<1>6. ASSUME NEW i \in 1..64, NEW j \in 1..64, f[i] = f[j] PROVE i = j
  BY <1>6
<1>7. ASSUME NEW s \in S PROVE \E i \in 1..64 : f[i] = s
  <2>1. CASE s % 4 = 0
    <3> WITNESS s \div 2 \in 1..64
    <3> QED
      BY <2>1
  <2>2. CASE s % 4 = 3
    <3> WITNESS (s - 1) \div 2 \in 1..64
    <3> QED
      BY <2>2
  <2> QED
    BY <2>1, <2>2
<1>8. 64 \in Nat
  OBVIOUS
<1> HIDE DEF f, S
<1>9. Cardinality(S) = 64
  BY <1>5, <1>6, <1>7, <1>8, Counted, ZenonT(30)
<1> QED
  BY <1>3, <1>9 DEF S

\* Three reads to one write: every third line of the repeated part and the last.
LEMMA ThreeToOneLines ==
    ASSUME mix = 3
    PROVE  Cardinality(WrittenLines) = 43
<1> DEFINE Writes(l) == l = 128 \/ (l <= 126 /\ l % 3 = 0)
           S == {l \in 1..128 : Writes(l)}
           f == [j \in 1..43 |-> IF j = 43 THEN 128 ELSE 3 * j]
<1>1. \A l \in 1..128 :
         /\ 2 * l \in 1..256 /\ 2 * l - 1 \in 1..256
         /\ 2 * l - 1 # 256 /\ (2 * l - 1) % 6 # 0
         /\ (2 * l = 256 \/ (2 * l <= 252 /\ (2 * l) % 6 = 0)) <=> Writes(l)
  OBVIOUS
<1>2. ASSUME NEW l \in 1..128
      PROVE  (Accesses(mix)[2 * l - 1] = "W" \/ Accesses(mix)[2 * l] = "W") <=> Writes(l)
  <2> HIDE DEF Writes
  <2> QED
    BY <1>1, ThreeToOne
<1>3. WrittenLines = S
  <2> HIDE DEF Writes
  <2> QED
    BY <1>2 DEF WrittenLines, Lines
<1>5. f \in [1..43 -> S]
  OBVIOUS
<1>6. ASSUME NEW i \in 1..43, NEW j \in 1..43, f[i] = f[j] PROVE i = j
  BY <1>6
<1>7. ASSUME NEW s \in S PROVE \E i \in 1..43 : f[i] = s
  <2>1. CASE s = 128
    <3> WITNESS 43 \in 1..43
    <3> QED
      BY <2>1
  <2>2. CASE s <= 126 /\ s % 3 = 0
    <3> WITNESS s \div 3 \in 1..43
    <3> QED
      BY <2>2
  <2> QED
    BY <2>1, <2>2
<1>8. 43 \in Nat
  OBVIOUS
<1> HIDE DEF f, S
<1> QED
  BY <1>3, <1>5, <1>6, <1>7, <1>8, Counted, ZenonT(30)

\* Only reads: no line.
LEMMA NoLines ==
    ASSUME mix = 0
    PROVE  Cardinality(WrittenLines) = 0
<1>1. \A l \in 1..128 : 2 * l \in 1..256 /\ 2 * l - 1 \in 1..256
  OBVIOUS
<1>2. \A l \in 1..128 : Accesses(mix)[2 * l] = "R" /\ Accesses(mix)[2 * l - 1] = "R"
  BY <1>1, ReadsOnly
<1>3. WrittenLines = {}
  BY <1>2 DEF WrittenLines, Lines
<1> QED
  BY <1>3, FS_EmptySet

(***************************************************************************)
(* What a call is counted for is what it touches (LP, Copy, bw_sequential  *)
(* and get_write_fraction): the blocks exactly, the share of the cache     *)
(* lines that are written to within one percent, for every documented      *)
(* value of --read_write_mix.                                              *)
(***************************************************************************)
THEOREM TrafficAccounted ==
    ASSUME Mixes \subseteq 0..3
    PROVE  Spec => []TrafficIsAccounted
<1>1. Init => mix \in 0..3
  BY DEF Init
<1>2. mix \in 0..3 /\ [Next]_vars => (mix \in 0..3)'
  BY DEF Next, vars, SelectStep, SelectDone, Prepare, Measure, Finish
<1>3. mix \in 0..3 => TrafficIsAccounted
  <2> SUFFICES ASSUME mix \in 0..3 PROVE TrafficIsAccounted
    OBVIOUS
  <2>1. Len(Accesses(mix)) = 256
    BY ReadsOnly, OneToOne, TwoToOne, ThreeToOne
  <2>2. \/ Cardinality(WrittenLines) = 0 /\ get_write_fraction(mix) = 0
        \/ Cardinality(WrittenLines) = 128 /\ get_write_fraction(mix) = 10000
        \/ Cardinality(WrittenLines) = 64 /\ get_write_fraction(mix) = 5000
        \/ Cardinality(WrittenLines) = 43 /\ get_write_fraction(mix) = 3333
    <3>1. CASE mix = 0
      BY <3>1, NoLines DEF get_write_fraction
    <3>2. CASE mix = 1
      BY <3>2, OneToOneLines DEF get_write_fraction
    <3>3. CASE mix = 2
      BY <3>3, TwoToOneLines DEF get_write_fraction
    <3>4. CASE mix = 3
      BY <3>4, ThreeToOneLines DEF get_write_fraction
    <3>5. mix = 0 \/ mix = 1 \/ mix = 2 \/ mix = 3
      OBVIOUS
    <3> QED
      BY <3>1, <3>2, <3>3, <3>4, <3>5
  <2>3. Abs(Cardinality(WrittenLines) * 10000 - get_write_fraction(mix) * 128) <= 100 * 128
    BY <2>2 DEF Abs
  <2>4. loop_blocks = 256 /\ 1..(loop_blocks \div 2) = 1..128
    BY DEF loop_blocks
  <2> QED
    BY <2>1, <2>3, <2>4, AllLines DEF TrafficIsAccounted, WrittenLines, Lines
<1> QED
  BY <1>1, <1>2, <1>3, PTL DEF Spec
=============================================================================
