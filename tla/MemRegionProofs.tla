-------------------------- MODULE MemRegionProofs ---------------------------
(***************************************************************************)
(* Proofs about MemRegion: whatever rand() returns, the shuffle loses no   *)
(* line, and the pointers stay on the lines of the region.                 *)
(***************************************************************************)
EXTENDS MemRegion, FiniteSetTheorems, TLAPS

\* A region has pages, pages have lines, and so the sequence has elements.
LEMMA Geometry ==
    ASSUME NEW p \in Params
    PROVE  /\ p \in ParamType
           /\ PageSize(p) \in Nat \ {0} /\ p.line \in Nat \ {0} /\ p.active \in Nat \ {0}
           /\ ActivePages(p) \in Nat \ {0} /\ LinesInPage(p) \in Nat \ {0}
           /\ numActiveLines(p) \in Nat \ {0}
           /\ SeqSize(p) \in Nat \ {0}
<1>1. p \in ParamType /\ ActivePages(p) > 0 /\ LinesInPage(p) > 0
  BY ParamsAssumption
<1>2. PageSize(p) \in Nat \ {0} /\ p.line \in Nat \ {0} /\ p.active \in Nat \ {0}
  BY <1>1, FallbackPageAssumption DEF ParamType, PageSize
<1>3. ActivePages(p) \in Nat \ {0} /\ LinesInPage(p) \in Nat \ {0}
  BY <1>1, <1>2 DEF ActivePages, LinesInPage
<1>4. \A m, n \in Nat \ {0} : m * n \in Nat \ {0}
  OBVIOUS
<1>5. numActiveLines(p) \in Nat \ {0}
  BY <1>3, <1>4 DEF numActiveLines
<1> QED
  BY <1>1, <1>2, <1>3, <1>5 DEF SeqSize

\* The offsets in order are a permutation of themselves.
LEMMA Distinct ==
    ASSUME NEW j \in Nat, NEW k \in Nat, NEW l \in Nat \ {0}, j * l = k * l
    PROVE  j = k
<1>1. (j - k) * l = 0
  OBVIOUS
<1> QED
  BY <1>1

\* The sequence holds the offsets of its lines, each exactly once.
Offsets == {k * param.line : k \in Index}
Permuted ==
    /\ seq \in [Index -> Offsets]
    /\ \A k \in Index : \E j \in Index : seq[j] = k * param.line
    /\ \A j, k \in Index : seq[j] = seq[k] => j = k

ShuffleInv ==
    /\ param \in Params
    /\ stage \in Stages
    /\ stage \in {"swap", "front"} => i \in Index /\ Permuted
    /\ stage = "link" /\ param.pattern # "stride" => Permuted
    /\ stage = "done" => next \in [Lines -> Lines]

\* Exchanging two elements of a permutation gives a permutation.
LEMMA Exchange ==
    ASSUME Permuted, NEW a \in Index, NEW b \in Index, param' = param,
           seq' = [seq EXCEPT ![a] = seq[b], ![b] = seq[a]]
    PROVE  Permuted'
<1> DEFINE other(k) == IF k = a THEN b ELSE IF k = b THEN a ELSE k
<1>1. Index' = Index /\ Offsets' = Offsets
  BY DEF Index, Offsets
<1>2. \A k \in Index : other(k) \in Index /\ other(other(k)) = k /\ seq'[k] = seq[other(k)]
  BY DEF Permuted
<1>3. seq' \in [Index -> Offsets]
  BY DEF Permuted
<1>4. ASSUME NEW k \in Index PROVE \E j \in Index : seq'[j] = k * param.line
  <2>1. PICK j \in Index : seq[j] = k * param.line
    BY DEF Permuted
  <2> QED
    BY <1>2, <2>1
<1>5. ASSUME NEW j \in Index, NEW k \in Index, seq'[j] = seq'[k] PROVE j = k
  <2>1. other(j) = other(k)
    BY <1>2, <1>5 DEF Permuted
  <2> QED
    BY <1>2, <2>1
<1> QED
  BY <1>1, <1>3, <1>4, <1>5 DEF Permuted

\* Each of the three initialisations writes a pointer on every line of the
\* region, to a line of the region.
LEMMA StrideLinks ==
    ASSUME param \in Params
    PROVE  stride_init \in [StrideOffsets(param) -> StrideOffsets(param)]
<1>1. param.line \in Nat \ {0} /\ param.active \in Nat \ {0}
  BY Geometry
<1>2. 0 \in StrideOffsets(param)
  BY <1>1 DEF StrideOffsets
<1>3. ASSUME NEW o \in StrideOffsets(param), o + param.line < param.active
      PROVE  o + param.line \in StrideOffsets(param)
  <2>1. PICK k \in 0..param.active : o = k * param.line
    BY <1>1 DEF StrideOffsets
  <2>2. k + 1 \in Nat /\ (k + 1) * param.line = o + param.line
    BY <1>1, <2>1
  <2>3. \A m, n \in Nat : n > 0 => m <= m * n
    OBVIOUS
  <2>4. k + 1 \in 0..param.active
    BY <1>1, <1>3, <2>2, <2>3
  <2> QED
    BY <1>1, <1>3, <2>2, <2>4 DEF StrideOffsets
<1> QED
  BY <1>2, <1>3 DEF stride_init

\* In whatever order a page is walked, its lines are the lines of the page.
LEMMA PageOffsetsAreLines ==
    ASSUME param \in Params, Permuted, param.pattern = "page_random"
    PROVE  Lines = PageOffsets
<1>0. SeqSize(param) = LinesInPage(param)
  BY DEF SeqSize
<1>1. Lines = {g * PageSize(param) + k * param.line : g \in PageIndex, k \in Index}
  BY <1>0 DEF Lines, Index
<1>2. ASSUME NEW g \in PageIndex, NEW k \in Index
      PROVE  \E j \in Index : PageLine(g, j) = g * PageSize(param) + k * param.line
  BY DEF Permuted, PageLine
<1>3. ASSUME NEW g \in PageIndex, NEW j \in Index
      PROVE  \E k \in Index : PageLine(g, j) = g * PageSize(param) + k * param.line
  <2>1. seq[j] \in Offsets
    BY DEF Permuted
  <2>2. PICK k \in Index : seq[j] = k * param.line
    BY <2>1 DEF Offsets
  <2> QED
    BY <2>2 DEF PageLine
<1> QED
  BY <1>1, <1>2, <1>3 DEF PageOffsets

LEMMA PageLinks ==
    ASSUME param \in Params, Permuted, param.pattern = "page_random"
    PROVE  page_random_init \in [Lines -> Lines]
<1>1. /\ ActivePages(param) \in Nat \ {0} /\ SeqSize(param) \in Nat \ {0}
      /\ SeqSize(param) = LinesInPage(param)
  BY Geometry DEF SeqSize
<1>2. Lines = PageOffsets
  BY PageOffsetsAreLines
<1>3. ASSUME NEW g \in PageIndex, NEW k \in Index
      PROVE  PageLine(g, k) \in PageOffsets
  BY DEF PageOffsets
<1>4. \A g \in PageIndex : NextPage(g) \in PageIndex
  BY <1>1 DEF NextPage, PageIndex
<1>5. 0 \in Index /\ \A k \in Index : k < SeqSize(param) - 1 => k + 1 \in Index
  BY <1>1 DEF Index
<1>6. ASSUME NEW o \in PageOffsets PROVE page_random_init[o] \in PageOffsets
  <2> DEFINE g == CHOOSE h \in PageIndex : \E k \in Index : o = PageLine(h, k)
             k == CHOOSE j \in Index : o = PageLine(g, j)
  <2>0. \E h \in PageIndex : \E j \in Index : o = PageLine(h, j)
    BY DEF PageOffsets
  <2>1. g \in PageIndex /\ \E j \in Index : o = PageLine(g, j)
    BY <2>0, Zenon
  <2>2. k \in Index
    BY <2>1
  <2>3. page_random_init[o] = IF k < SeqSize(param) - 1 THEN PageLine(g, k + 1)
                              ELSE PageLine(NextPage(g), 0)
    BY DEF page_random_init
  <2> HIDE DEF g, k
  <2> QED
    BY <1>3, <1>4, <1>5, <2>1, <2>2, <2>3
<1>7. page_random_init = [o \in PageOffsets |-> page_random_init[o]]
  BY DEF page_random_init
<1> QED
  BY <1>2, <1>6, <1>7

LEMMA RandomLinks ==
    ASSUME param \in Params, Permuted, param.pattern = "all_random"
    PROVE  all_random_init \in [Lines -> Lines]
<1>1. SeqSize(param) \in Nat \ {0} /\ SeqSize(param) = numActiveLines(param)
  BY Geometry DEF SeqSize
<1>2. Lines = Offsets
  BY <1>1 DEF Lines, Offsets, Index
<1>3. {seq[k] : k \in Index} = Offsets
  BY DEF Permuted, Offsets
<1>4. 0 \in Index /\ \A k \in Index : k < SeqSize(param) - 1 => k + 1 \in Index
  BY <1>1 DEF Index
<1>5. ASSUME NEW o \in Offsets PROVE all_random_init[o] \in Offsets
  <2> DEFINE k == CHOOSE j \in Index : seq[j] = o
  <2>1. k \in Index
    BY <1>3
  <2>2. all_random_init[o] = IF k < SeqSize(param) - 1 THEN seq[k + 1] ELSE seq[0]
    BY <1>3 DEF all_random_init
  <2> HIDE DEF k
  <2> QED
    BY <1>4, <2>1, <2>2 DEF Permuted
<1>6. all_random_init = [o \in Offsets |-> all_random_init[o]]
  BY <1>3 DEF all_random_init
<1> QED
  BY <1>2, <1>5, <1>6

LEMMA ShuffleStep == ShuffleInv /\ [Next]_vars => ShuffleInv'
<1> SUFFICES ASSUME ShuffleInv, [Next]_vars PROVE ShuffleInv'
  OBVIOUS
<1>0. param' = param /\ Index' = Index /\ Lines' = Lines
  <2>1. param' = param
    BY DEF Next, vars, Fill, Swap, SwapDone, Front, Link
  <2> QED
    BY <2>1 DEF Index, Lines, PageIndex
<1>1. /\ param \in Params /\ SeqSize(param) \in Nat \ {0} /\ param.line \in Nat \ {0}
      /\ Index \subseteq Nat
  BY Geometry DEF ShuffleInv, Index
<1>2. CASE Fill
  <2>1. seq' = [k \in Index |-> k * param.line] /\ i' = SeqSize(param) - 1 /\ stage' = "swap"
    BY <1>2 DEF Fill
  <2>2. i' \in Index
    BY <1>1, <2>1 DEF Index
  <2>3. \A j, k \in Index : j * param.line = k * param.line => j = k
    BY <1>1, Distinct
  <2>4. seq' \in [Index -> Offsets] /\ \A k \in Index : seq'[k] = k * param.line
    BY <2>1 DEF Offsets
  <2>5. Permuted'
    BY <1>0, <2>3, <2>4 DEF Permuted, Offsets
  <2> QED
    BY <1>0, <1>1, <2>1, <2>2, <2>5 DEF ShuffleInv, Stages
<1>3. CASE Swap
  <2>1. /\ stage = "swap" /\ i \in Index /\ Permuted /\ i > 0 /\ i' = i - 1
        /\ stage' = "swap"
    BY <1>3 DEF ShuffleInv, Swap
  <2>2. PICK r \in 0..i : seq' = [seq EXCEPT ![r] = seq[i], ![i] = seq[r]]
    BY <1>3 DEF Swap
  <2>3. r \in Index /\ i' \in Index
    BY <1>1, <2>1, <2>2 DEF Index
  <2>4. Permuted'
    BY <1>0, <2>1, <2>2, <2>3, Exchange
  <2> QED
    BY <1>0, <1>1, <2>1, <2>3, <2>4 DEF ShuffleInv, Stages
<1>4. CASE SwapDone
  <2>1. stage = "swap" /\ i \in Index /\ Permuted /\ stage' = "front" /\ UNCHANGED <<i, seq>>
    BY <1>4 DEF ShuffleInv, SwapDone
  <2>2. Permuted'
    BY <1>0, <2>1 DEF Permuted, Offsets
  <2> QED
    BY <1>0, <1>1, <2>1, <2>2 DEF ShuffleInv, Stages
<1>5. CASE Front
  <2>1. stage = "front" /\ Permuted /\ stage' = "link"
    BY <1>5 DEF ShuffleInv, Front
  <2>2. Permuted'
    <3>1. CASE UNCHANGED seq
      BY <1>0, <2>1, <3>1 DEF Permuted, Offsets
    <3>2. CASE \E k \in Index \ {0} :
                  seq[k] = 0 /\ seq' = [seq EXCEPT ![k] = seq[0], ![0] = 0]
      <4>1. PICK k \in Index \ {0} : seq[k] = 0 /\ seq' = [seq EXCEPT ![k] = seq[0], ![0] = 0]
        BY <3>2
      <4>2. 0 \in Index
        BY <1>1 DEF Index
      <4>3. seq' = [seq EXCEPT ![0] = seq[k], ![k] = seq[0]]
        BY <2>1, <4>1, <4>2 DEF Permuted
      <4> QED
        BY <1>0, <2>1, <4>1, <4>2, <4>3, Exchange
    <3> QED
      BY <1>5, <3>1, <3>2 DEF Front
  <2> QED
    BY <1>0, <1>1, <2>1, <2>2 DEF ShuffleInv, Stages
<1>6. CASE Link
  <2>1. stage = "link" /\ stage' = "done" /\ (param.pattern # "stride" => Permuted)
    BY <1>6 DEF ShuffleInv, Link
  <2>2. next' \in [Lines -> Lines]
    <3>1. CASE param.pattern = "stride"
      <4>1. next' = stride_init /\ Lines = StrideOffsets(param)
        BY <1>6, <3>1 DEF Link, Lines
      <4> QED
        BY <1>1, <4>1, StrideLinks
    <3>2. CASE param.pattern = "page_random"
      BY <1>1, <1>6, <2>1, <3>2, PageLinks DEF Link
    <3>3. CASE param.pattern = "all_random"
      BY <1>1, <1>6, <2>1, <3>3, RandomLinks DEF Link
    <3> QED
      BY <1>6, <3>1, <3>2, <3>3 DEF Link
  <2> QED
    BY <1>0, <1>1, <2>1, <2>2 DEF ShuffleInv, Stages
<1>7. CASE UNCHANGED vars
  <2>1. UNCHANGED <<stage, seq, i, next>>
    BY <1>7 DEF vars
  <2>2. Permuted => Permuted'
    BY <1>0, <2>1 DEF Permuted, Offsets
  <2> QED
    BY <1>0, <2>1, <2>2 DEF ShuffleInv
<1> QED
  BY <1>2, <1>3, <1>4, <1>5, <1>6, <1>7 DEF Next

LEMMA ShuffleInvHolds == Spec => []ShuffleInv
<1>1. Init => ShuffleInv
  <2> SUFFICES ASSUME Init PROVE ShuffleInv
    OBVIOUS
  <2>1. /\ param \in Params /\ stage \in Stages
        /\ stage \notin {"swap", "front", "done"}
        /\ stage = "link" => param.pattern = "stride"
    BY DEF Init, Stages
  <2> QED
    BY <2>1 DEF ShuffleInv
<1> QED
  BY <1>1, ShuffleStep, PTL DEF Spec

\* randomizeSequence_ stays within the sequence, and every pointer of a finished
\* region leads from a line of the region to a line of the region.
THEOREM PointersStayInRegion == Spec => []TypeOK
<1>1. ShuffleInv => TypeOK
  <2> SUFFICES ASSUME ShuffleInv, stage \in {"swap", "front"} PROVE seq \in [Index -> Nat]
    BY DEF ShuffleInv, TypeOK
  <2>1. Offsets \subseteq Nat
    <3>1. param.line \in Nat /\ Index \subseteq Nat
      BY Geometry DEF ShuffleInv, Index
    <3>2. \A m, n \in Nat : m * n \in Nat
      OBVIOUS
    <3> QED
      BY <3>1, <3>2 DEF Offsets
  <2> QED
    BY <2>1 DEF ShuffleInv, Permuted
<1> QED
  BY <1>1, ShuffleInvHolds, PTL

\* For every region and every sequence of results of rand() the shuffle is a
\* permutation of the lines.
THEOREM ShuffleKeepsLines == Spec => []ShufflePermutes
<1>1. ShuffleInv => ShufflePermutes
  BY DEF ShuffleInv, ShufflePermutes, Permuted
<1> QED
  BY <1>1, ShuffleInvHolds, PTL

(***************************************************************************)
(* The finished list.  W(k) is where the pointer is expected after k       *)
(* chases; the lemma Chased shows that it is there, for there is no least  *)
(* k for which it is not.                                                  *)
(***************************************************************************)

\* A set of natural numbers that is not empty has a least element.
LEMMA Least ==
    ASSUME NEW S, S \subseteq Nat, S # {}
    PROVE  \E n \in S : \A m \in S : n <= m
<1> DEFINE R == OpToRel(<, Nat)
<1>1. IsWellFoundedOn(R, Nat)
  BY NatLessThanWellFounded, Zenon
<1>2. \A m, n \in Nat : m < n => <<m, n>> \in R
  BY DEF OpToRel
<1> HIDE DEF R
<1>3. PICK n \in S : \A m \in S : ~ (<<m, n>> \in R)
  BY <1>1, WFMin
<1>4. ASSUME NEW m \in S PROVE n <= m
  <2>1. m \in Nat /\ n \in Nat
    OBVIOUS
  <2>2. ~ (m < n)
    BY <1>2, <1>3, <2>1, Zenon
  <2> QED
    BY <2>1, <2>2
<1> QED
  BY <1>4

\* What starts at 0 and goes from each place to the next is the walk of Chase.
LEMMA Chased ==
    ASSUME NEW m \in Nat, NEW W, W[0] = 0, \A k \in 0..(m - 1) : W[k + 1] = next[W[k]]
    PROVE  \A n \in 0..m : Chase(n) = W[n]
<1> SUFFICES ASSUME NEW n \in 0..m PROVE Chase(n) = W[n]
  OBVIOUS
<1> DEFINE Walks(at) == at = [k \in 0..n |-> IF k = 0 THEN 0 ELSE next[at[k - 1]]]
           at == CHOOSE f : Walks(f)
           V == [k \in 0..n |-> W[k]]
<1>1. Walks(V)
  <2>1. \A k \in 0..n : V[k] = IF k = 0 THEN 0 ELSE next[V[k - 1]]
    <3> SUFFICES ASSUME NEW k \in 0..n PROVE V[k] = IF k = 0 THEN 0 ELSE next[V[k - 1]]
      OBVIOUS
    <3>1. CASE k = 0
      BY <3>1
    <3>2. CASE k # 0
      <4>1. k - 1 \in 0..(m - 1) /\ k - 1 \in 0..n /\ (k - 1) + 1 = k
        BY <3>2
      <4> QED
        BY <3>2, <4>1
    <3> QED
      BY <3>1, <3>2
  <2> QED
    BY <2>1
<1>2. Walks(at)
  BY <1>1, Zenon
<1>3. Chase(n) = at[n]
  BY Zenon DEF Chase
<1> HIDE DEF at
<1>4. \A k \in 0..n : at[k] = IF k = 0 THEN 0 ELSE next[at[k - 1]]
  BY <1>2
<1>5. \A k \in 0..n : at[k] = W[k]
  <2> DEFINE Wrong == {k \in 0..n : at[k] # W[k]}
  <2> SUFFICES ASSUME Wrong # {} PROVE FALSE
    OBVIOUS
  <2>1. Wrong \subseteq Nat
    OBVIOUS
  <2>2. PICK k \in Wrong : \A l \in Wrong : k <= l
    BY <2>1, Least, Zenon
  <2>3. k \in 0..n /\ at[k] # W[k]
    BY <2>2
  <2>4. k # 0
    BY <1>4, <2>3
  <2>5. k - 1 \in 0..n /\ k - 1 \in 0..(m - 1) /\ (k - 1) + 1 = k /\ ~ (k <= k - 1)
    BY <2>3, <2>4
  <2>6. at[k - 1] = W[k - 1]
    BY <2>2, <2>5
  <2> QED
    BY <1>4, <2>3, <2>4, <2>5, <2>6
<1> QED
  BY <1>3, <1>5

\* The quotient and the remainder of a number are the only ones.
LEMMA Division ==
    ASSUME NEW q \in Nat, NEW r \in Nat, NEW d \in Nat \ {0}, r < d
    PROVE  (q * d + r) \div d = q /\ (q * d + r) % d = r
<1> DEFINE n == q * d + r
           a == n \div d
           b == n % d
<1>1. n \in Nat
  OBVIOUS
<1>2. a \in Nat /\ b \in 0..(d - 1) /\ n = a * d + b
  BY <1>1
<1>3. (a - q) * d = r - b
  BY <1>2
<1>4. a - q < 1 /\ a - q > -1
  <2> HIDE DEF a, b, n
  <2>1. -d < r - b /\ r - b < d
    BY <1>2
  <2>2. \A k \in Int : k >= 1 => k * d >= d
    OBVIOUS
  <2>3. \A k \in Int : k <= -1 => k * d <= -d
    OBVIOUS
  <2> QED
    BY <1>2, <1>3, <2>1, <2>2, <2>3
<1> QED
  BY <1>2, <1>3, <1>4

\* The pointers of a region once they are linked, and what they were linked from.
Linked == IF param.pattern = "stride" THEN stride_init
          ELSE IF param.pattern = "page_random" THEN page_random_init
          ELSE all_random_init

CycleInv ==
    /\ stage \in {"link", "done"} /\ param.pattern # "stride" => Permuted /\ seq[0] = 0
    /\ stage = "done" => next = Linked

LEMMA CycleStep == ShuffleInv /\ CycleInv /\ [Next]_vars => CycleInv'
<1> SUFFICES ASSUME ShuffleInv, CycleInv, [Next]_vars PROVE CycleInv'
  OBVIOUS
<1>1. param' = param /\ param \in Params
  BY DEF Next, vars, Fill, Swap, SwapDone, Front, Link, ShuffleInv
<1>2. CASE Fill \/ Swap \/ SwapDone
  BY <1>2 DEF Fill, Swap, SwapDone, CycleInv
<1>3. CASE Front
  <2>1. ShuffleInv'
    BY ShuffleStep
  <2>2. 0 \in Index /\ seq \in [Index -> Offsets]
    BY <1>1, <1>3, Geometry DEF Front, ShuffleInv, Permuted, Index
  <2>3. seq'[0] = 0
    BY <1>3, <2>2 DEF Front
  <2> QED
    BY <1>1, <1>3, <2>1, <2>3 DEF Front, ShuffleInv, CycleInv
<1>4. CASE Link
  <2>1. UNCHANGED <<param, seq>> /\ stage = "link" /\ stage' = "done"
    BY <1>4 DEF Link
  <2>2. Permuted => Permuted'
    BY <2>1 DEF Permuted, Index, Offsets
  <2>3. next' = Linked'
    <3>1. stride_init' = stride_init
      BY <2>1 DEF stride_init
    <3>2. page_random_init' = page_random_init
      BY <2>1 DEF page_random_init, PageOffsets, PageIndex, Index, PageLine, NextPage
    <3>3. all_random_init' = all_random_init
      BY <2>1 DEF all_random_init, Index
    <3>4. param.pattern \in Patterns
      BY <1>1, Geometry DEF ParamType
    <3> QED
      BY <1>4, <2>1, <3>1, <3>2, <3>3, <3>4 DEF Link, Linked, Patterns
  <2> QED
    BY <2>1, <2>2, <2>3 DEF CycleInv
<1>5. CASE UNCHANGED vars
  <2>1. UNCHANGED <<param, stage, seq, next>>
    BY <1>5 DEF vars
  <2>2. Permuted => Permuted'
    BY <2>1 DEF Permuted, Index, Offsets
  <2>3. Linked' = Linked
    BY <2>1 DEF Linked, stride_init, page_random_init, all_random_init, PageOffsets,
               PageIndex, Index, PageLine, NextPage
  <2> QED
    BY <2>1, <2>2, <2>3 DEF CycleInv
<1> QED
  BY <1>2, <1>3, <1>4, <1>5 DEF Next

LEMMA CycleInvHolds == Spec => [](ShuffleInv /\ CycleInv)
<1>1. Init => CycleInv
  BY DEF Init, CycleInv
<1> QED
  BY <1>1, ShuffleInvHolds, CycleStep, PTL DEF Spec

LEMMA IsInjectiveWhen ==
    ASSUME NEW S, NEW T, NEW f \in [S -> T], \A a, b \in S : f[a] = f[b] => a = b
    PROVE  f \in Injection(S, T)
BY DEF Injection, IsInjective

\* A walk that returns to its start after it has been on every line once.
LEMMA Circle ==
    ASSUME NEW m \in Nat \ {0}, NEW W, W[0] = 0, W[m] = 0,
           \A k \in 0..(m - 1) : W[k + 1] = next[W[k]],
           {W[k] : k \in 0..(m - 1)} = Lines,
           \A j, k \in 0..(m - 1) : W[j] = W[k] => j = k
    PROVE  /\ Cardinality(Lines) = m
           /\ {Chase(k) : k \in 0..(m - 1)} = Lines
           /\ Chase(m) = 0
<1>1. \A k \in 0..m : Chase(k) = W[k]
  BY Chased
<1>2. {Chase(k) : k \in 0..(m - 1)} = Lines /\ Chase(m) = 0
  <2>1. 0..(m - 1) \subseteq 0..m /\ m \in 0..m
    OBVIOUS
  <2>2. {Chase(k) : k \in 0..(m - 1)} = {W[k] : k \in 0..(m - 1)}
    BY <1>1, <2>1
  <2> QED
    BY <1>1, <2>1, <2>2
<1>3. Cardinality(Lines) = m
  <2> DEFINE f == [k \in 0..(m - 1) |-> W[k]]
  <2>0. \A k \in 0..(m - 1) : W[k] \in Lines
    OBVIOUS
  <2>4. f \in [0..(m - 1) -> Lines] /\ \A k \in 0..(m - 1) : f[k] = W[k]
    BY <2>0
  <2>5. \A y \in Lines : \E k \in 0..(m - 1) : f[k] = y
    BY <2>4
  <2>6. \A a, b \in 0..(m - 1) : f[a] = f[b] => a = b
    BY <2>4
  <2> HIDE DEF f
  <2>7. f \in Injection(0..(m - 1), Lines)
    BY <2>4, <2>6, IsInjectiveWhen, Zenon
  <2>8. f \in Surjection(0..(m - 1), Lines)
    BY <2>4, <2>5, Zenon DEF Surjection
  <2>1. f \in Bijection(0..(m - 1), Lines)
    BY <2>7, <2>8 DEF Bijection
  <2>2. IsFiniteSet(0..(m - 1)) /\ Cardinality(0..(m - 1)) = m
    BY FS_Interval
  <2>3. ExistsBijection(0..(m - 1), Lines)
    BY <2>1 DEF ExistsBijection
  <2> QED
    BY <2>2, <2>3, FS_Bijection
<1> QED
  BY <1>2, <1>3

\* What SingleCycle says of a finished region.
Cyclic == LET n == Cardinality(Lines) - 1
          IN  {Chase(k) : k \in 0..n} = Lines /\ Chase(n + 1) = 0

LEMMA CircleIsCyclic ==
    ASSUME NEW m \in Nat \ {0}, Cardinality(Lines) = m,
           {Chase(k) : k \in 0..(m - 1)} = Lines, Chase(m) = 0
    PROVE  Cyclic
<1>1. (m - 1) + 1 = m
  OBVIOUS
<1> QED
  BY <1>1 DEF Cyclic

LEMMA StrideCycle ==
    ASSUME param \in Params, param.pattern = "stride", next = stride_init
    PROVE  Cyclic
<1> DEFINE l == param.line
           a == param.active
           Behind == {n \in Nat : a <= n * l}
<1>1. l \in Nat \ {0} /\ a \in Nat \ {0}
  BY Geometry
<1>2. \A j, k \in Nat : j <= k => j * l <= k * l
  BY <1>1
<1>3. a \in Behind
  <2>1. a * 1 <= a * l
    BY <1>1
  <2> QED
    BY <1>1, <2>1
<1>4. PICK m \in Behind : \A n \in Behind : m <= n
  BY <1>3, Least
<1>5. m \in Nat \ {0} /\ a <= m * l
  BY <1>1, <1>4
<1>6. \A k \in Nat : k < m <=> k * l < a
  <2> SUFFICES ASSUME NEW k \in Nat PROVE k < m <=> k * l < a
    OBVIOUS
  <2>1. CASE k < m
    <3>1. k \notin Behind
      BY <1>4, <1>5, <2>1
    <3> QED
      BY <1>1, <2>1, <3>1
  <2>2. CASE m <= k
    <3>1. m * l <= k * l
      BY <1>2, <1>5, <2>2
    <3> QED
      BY <1>1, <1>5, <2>2, <3>1
  <2> QED
    BY <1>5, <2>1, <2>2
<1> DEFINE W == [k \in 0..m |-> IF k = m THEN 0 ELSE k * l]
<1>7. StrideOffsets(param) = {k * l : k \in 0..(m - 1)}
  <2>1. \A k \in 0..(m - 1) : k \in 0..a /\ k * l < a
    <3> SUFFICES ASSUME NEW k \in 0..(m - 1) PROVE k \in 0..a /\ k * l < a
      OBVIOUS
    <3>1. k * l < a
      BY <1>5, <1>6
    <3>2. k * 1 <= k * l
      BY <1>1, <1>5
    <3> QED
      BY <1>1, <1>5, <3>1, <3>2
  <2>2. \A k \in 0..a : k * l < a => k \in 0..(m - 1)
    BY <1>1, <1>5, <1>6
  <2> QED
    BY <2>1, <2>2 DEF StrideOffsets
<1>8. \A k \in 0..(m - 1) : W[k] = k * l
  BY <1>5
<1>9. ASSUME NEW k \in 0..(m - 1) PROVE W[k + 1] = next[W[k]]
  <2>1. k * l \in StrideOffsets(param) /\ k * l + l = (k + 1) * l /\ k + 1 \in Nat
    BY <1>1, <1>5, <1>7
  <2>2. next[k * l] = IF (k + 1) * l < a THEN (k + 1) * l ELSE 0
    BY <2>1 DEF stride_init
  <2>3. k + 1 < m <=> (k + 1) * l < a
    BY <1>6, <2>1
  <2> QED
    BY <1>5, <1>8, <2>2, <2>3
<1>10. \A j, k \in 0..(m - 1) : W[j] = W[k] => j = k
  <2> SUFFICES ASSUME NEW j \in 0..(m - 1), NEW k \in 0..(m - 1), W[j] = W[k] PROVE j = k
    OBVIOUS
  <2>1. j \in Nat /\ k \in Nat /\ j * l = k * l
    BY <1>5, <1>8
  <2> QED
    BY <1>1, <2>1, Distinct
<1>11. {W[k] : k \in 0..(m - 1)} = Lines
  <2>1. Lines = {k * l : k \in 0..(m - 1)}
    BY <1>7 DEF Lines
  <2>2. {W[k] : k \in 0..(m - 1)} = {k * l : k \in 0..(m - 1)}
    BY <1>8
  <2> QED
    BY <2>1, <2>2
<1>12. W[0] = 0 /\ W[m] = 0
  BY <1>1, <1>5
<1> HIDE DEF W
<1>13. Cardinality(Lines) = m /\ {Chase(k) : k \in 0..(m - 1)} = Lines /\ Chase(m) = 0
  BY <1>5, <1>9, <1>10, <1>11, <1>12, Circle
<1> QED
  BY <1>5, <1>13, CircleIsCyclic

LEMMA RandomCycle ==
    ASSUME param \in Params, param.pattern = "all_random", Permuted, seq[0] = 0,
           next = all_random_init
    PROVE  Cyclic
<1> DEFINE m == SeqSize(param)
           W == [k \in 0..m |-> IF k = m THEN 0 ELSE seq[k]]
<1>1. m \in Nat \ {0} /\ m = numActiveLines(param) /\ Index = 0..(m - 1)
  BY Geometry DEF SeqSize, Index
<1>2. \A k \in 0..(m - 1) : W[k] = seq[k]
  BY <1>1
<1>3. ASSUME NEW k \in 0..(m - 1) PROVE W[k + 1] = next[W[k]]
  <2> DEFINE j == CHOOSE j \in Index : seq[j] = seq[k]
  <2>1. j \in Index /\ seq[j] = seq[k]
    BY <1>1
  <2>2. j = k
    BY <1>1, <2>1 DEF Permuted
  <2>3. next[seq[k]] = IF j < m - 1 THEN seq[j + 1] ELSE seq[0]
    BY <1>1 DEF all_random_init
  <2> HIDE DEF j
  <2> QED
    BY <1>1, <1>2, <2>2, <2>3
<1>4. \A j, k \in 0..(m - 1) : W[j] = W[k] => j = k
  BY <1>1, <1>2 DEF Permuted
<1> HIDE DEF W, m
<1>5. {W[k] : k \in 0..(m - 1)} = Lines
  <2>1. Lines = Offsets
    BY <1>1 DEF Lines, Offsets
  <2>2. {seq[k] : k \in Index} = Offsets
    BY DEF Permuted, Offsets
  <2>3. {W[k] : k \in 0..(m - 1)} = {seq[k] : k \in Index}
    BY <1>1, <1>2
  <2> QED
    BY <2>1, <2>2, <2>3
<1>6. W[0] = 0 /\ W[m] = 0
  BY <1>1, <1>2 DEF W
<1>7. Cardinality(Lines) = m /\ {Chase(k) : k \in 0..(m - 1)} = Lines /\ Chase(m) = 0
  BY <1>1, <1>3, <1>4, <1>5, <1>6, Circle
<1> QED
  BY <1>1, <1>7, CircleIsCyclic

\* A line of a page lies inside the page, so the offset tells page and line.
LEMMA PageLineInPage ==
    ASSUME param \in Params, param.pattern = "page_random", Permuted,
           NEW g \in PageIndex, NEW k \in Index
    PROVE  /\ seq[k] \in Nat /\ seq[k] < PageSize(param) /\ g \in Nat
           /\ PageLine(g, k) \div PageSize(param) = g
           /\ PageLine(g, k) % PageSize(param) = seq[k]
<1> DEFINE p == PageSize(param)
           l == param.line
           n == LinesInPage(param)
<1>1. p \in Nat \ {0} /\ l \in Nat \ {0} /\ n \in Nat \ {0} /\ SeqSize(param) = n
  BY Geometry DEF SeqSize
<1>2. n * l <= p
  BY <1>1 DEF LinesInPage
<1>3. PICK j \in 0..(n - 1) : seq[k] = j * l
  <2>1. seq[k] \in Offsets
    BY DEF Permuted
  <2>2. Offsets = {j * l : j \in 0..(n - 1)}
    BY <1>1 DEF Offsets, Index
  <2> QED
    BY <2>1, <2>2
<1>4. j * l \in Nat /\ j * l < n * l
  <2>1. (n - j) * l >= l
    BY <1>1
  <2> QED
    BY <1>1, <2>1
<1>5. g \in Nat
  BY Geometry DEF PageIndex
<1> HIDE DEF p, l, n
<1>6. seq[k] \in Nat /\ seq[k] < p /\ n * l \in Nat
  BY <1>1, <1>2, <1>3, <1>4
<1> QED
  BY <1>1, <1>5, <1>6, Division DEF PageLine, p

\* Where the pointers of a page lead.
LEMMA PageLinksLead ==
    ASSUME param \in Params, param.pattern = "page_random", Permuted,
           NEW g \in PageIndex, NEW k \in Index
    PROVE  page_random_init[PageLine(g, k)] =
              IF k < SeqSize(param) - 1 THEN PageLine(g, k + 1) ELSE PageLine(NextPage(g), 0)
<1> DEFINE o == PageLine(g, k)
           h == CHOOSE x \in PageIndex : \E y \in Index : o = PageLine(x, y)
           j == CHOOSE y \in Index : o = PageLine(h, y)
<1>1. o \in PageOffsets
  BY DEF PageOffsets
<1>2. h \in PageIndex /\ \E y \in Index : o = PageLine(h, y)
  BY Zenon
<1>3. j \in Index /\ o = PageLine(h, j)
  BY <1>2, Zenon
<1>4. page_random_init[o] = IF j < SeqSize(param) - 1 THEN PageLine(h, j + 1)
                            ELSE PageLine(NextPage(h), 0)
  BY <1>1, Zenon DEF page_random_init
<1> HIDE DEF h, j
<1>5. h = g /\ seq[j] = seq[k]
  BY <1>2, <1>3, PageLineInPage
<1>6. j = k
  BY <1>3, <1>5 DEF Permuted
<1> QED
  BY <1>4, <1>5, <1>6

\* With a pages of n lines, place k is line j of page g; and which place is next.
IsPlace(k, n, a, g, j) ==
    /\ k \div n = g /\ k % n = j
    /\ j < n - 1 => (k + 1) \div n = g /\ (k + 1) % n = j + 1
    /\ j = n - 1 => (k + 1) \div n = g + 1 /\ (k + 1) % n = 0
    /\ k + 1 = a * n <=> j = n - 1 /\ g = a - 1

LEMMA PageOfPlace ==
    ASSUME NEW n \in Nat \ {0}, NEW a \in Nat \ {0}, NEW k \in Nat, k < a * n
    PROVE  \E g \in 0..(a - 1), j \in 0..(n - 1) : IsPlace(k, n, a, g, j)
<1>1. PICK g \in Nat, j \in 0..(n - 1) : k = g * n + j
  <2>1. k \div n \in Nat /\ k % n \in 0..(n - 1) /\ k = (k \div n) * n + (k % n)
    OBVIOUS
  <2> QED
    BY <2>1
<1>2. j \in Nat /\ j < n /\ j + 1 \in Nat /\ g + 1 \in Nat /\ 0 \in Nat /\ 0 < n
  OBVIOUS
<1>3. k \div n = g /\ k % n = j
  BY <1>1, <1>2, Division
<1>4. g < a
  <2> SUFFICES ASSUME a <= g PROVE FALSE
    OBVIOUS
  <2>1. (g - a) * n >= 0
    OBVIOUS
  <2> QED
    BY <1>1, <2>1
<1>5. j < n - 1 => (k + 1) \div n = g /\ (k + 1) % n = j + 1
  <2> SUFFICES ASSUME j < n - 1 PROVE (k + 1) \div n = g /\ (k + 1) % n = j + 1
    OBVIOUS
  <2>1. k + 1 = g * n + (j + 1) /\ j + 1 < n
    BY <1>1
  <2>2. (g * n + (j + 1)) \div n = g /\ (g * n + (j + 1)) % n = j + 1
    BY <1>2, <2>1, Division
  <2> QED
    BY <2>1, <2>2
<1>6. j = n - 1 => (k + 1) \div n = g + 1 /\ (k + 1) % n = 0
  <2> SUFFICES ASSUME j = n - 1 PROVE (k + 1) \div n = g + 1 /\ (k + 1) % n = 0
    OBVIOUS
  <2>1. k + 1 = (g + 1) * n + 0
    BY <1>1
  <2>2. ((g + 1) * n + 0) \div n = g + 1 /\ ((g + 1) * n + 0) % n = 0
    BY <1>2, Division
  <2> QED
    BY <2>1, <2>2
<1>7. k + 1 = a * n => j = n - 1 /\ g = a - 1
  <2> SUFFICES ASSUME k + 1 = a * n PROVE j = n - 1 /\ g = a - 1
    OBVIOUS
  <2>1. (a - g) * n = j + 1
    BY <1>1
  <2>2. ASSUME a - g >= 2 PROVE FALSE
    <3>1. (a - g - 2) * n >= 0
      BY <2>2
    <3> QED
      BY <2>1, <3>1
  <2>3. a - g = 1
    BY <1>4, <2>2
  <2> QED
    BY <2>1, <2>3
<1>8. j = n - 1 /\ g = a - 1 => k + 1 = a * n
  BY <1>1
<1> QED
  BY <1>3, <1>4, <1>5, <1>6, <1>7, <1>8 DEF IsPlace

\* The k-th place of the walk is line k % n of page k \div n, in the order of seq.
PageWalk == [k \in 0..numActiveLines(param) |->
                IF k = numActiveLines(param) THEN 0
                ELSE PageLine(k \div LinesInPage(param), k % LinesInPage(param))]

\* The walk goes where the pointers lead.
LEMMA PageWalkIsLinked ==
    ASSUME param \in Params, param.pattern = "page_random", Permuted, seq[0] = 0,
           next = page_random_init
    PROVE  /\ PageWalk[0] = 0 /\ PageWalk[numActiveLines(param)] = 0
           /\ \A k \in 0..(numActiveLines(param) - 1) : PageWalk[k + 1] = next[PageWalk[k]]
<1> DEFINE n == LinesInPage(param)
           a == ActivePages(param)
           size == numActiveLines(param)
<1>1. /\ n \in Nat \ {0} /\ a \in Nat \ {0} /\ size \in Nat \ {0} /\ size = a * n
      /\ SeqSize(param) = n /\ Index = 0..(n - 1) /\ PageIndex = 0..(a - 1)
      /\ PageSize(param) \in Nat
  BY Geometry DEF numActiveLines, SeqSize, Index, PageIndex
<1>2. PageLine(0, 0) = 0
  BY <1>1 DEF PageLine
<1>3. \A k \in 0..(size - 1) : PageWalk[k] = PageLine(k \div n, k % n)
  BY <1>1 DEF PageWalk
<1>4. PageWalk[size] = 0
  BY <1>1 DEF PageWalk
<1> HIDE DEF n, a, size
<1>5. PageWalk[0] = 0
  <2>1. (0 * n + 0) \div n = 0 /\ (0 * n + 0) % n = 0
    BY <1>1, Division
  <2>2. 0 \div n = 0 /\ 0 % n = 0
    BY <1>1, <2>1
  <2> QED
    BY <1>1, <1>2, <1>3, <2>2
<1>6. ASSUME NEW k \in 0..(size - 1) PROVE PageWalk[k + 1] = next[PageWalk[k]]
  <2>1. n \in Nat \ {0} /\ a \in Nat \ {0} /\ k \in Nat /\ k < a * n
    BY <1>1
  <2>0. PICK g \in 0..(a - 1), j \in 0..(n - 1) : IsPlace(k, n, a, g, j)
    BY <2>1, PageOfPlace
  <2>2. /\ g \in PageIndex /\ j \in Index /\ k \div n = g /\ k % n = j
        /\ j < n - 1 => (k + 1) \div n = g /\ (k + 1) % n = j + 1
        /\ j = n - 1 => (k + 1) \div n = g + 1 /\ (k + 1) % n = 0
        /\ k + 1 = size <=> j = n - 1 /\ g = a - 1
    BY <1>1, <2>0 DEF IsPlace
  <2>3. next[PageWalk[k]] = IF j < n - 1 THEN PageLine(g, j + 1) ELSE PageLine(NextPage(g), 0)
    <3>1. PageWalk[k] = PageLine(g, j)
      BY <1>3, <2>2
    <3> QED
      BY <1>1, <2>2, <3>1, PageLinksLead
  <2>4. CASE k + 1 = size
    <3>1. ~ (j < n - 1) /\ NextPage(g) = 0
      BY <1>1, <2>2, <2>4 DEF NextPage, a
    <3> QED
      BY <1>2, <1>4, <2>3, <2>4, <3>1
  <2>5. CASE k + 1 # size
    <3>1. k + 1 \in 0..(size - 1)
      BY <1>1, <2>5
    <3>2. PageWalk[k + 1] = PageLine((k + 1) \div n, (k + 1) % n)
      BY <1>3, <3>1
    <3>3. CASE j < n - 1
      BY <2>2, <2>3, <3>2, <3>3
    <3>4. CASE j = n - 1
      <4>1. NextPage(g) = g + 1
        BY <1>1, <2>2, <2>5, <3>4 DEF NextPage, a
      <4>2. ~ (j < n - 1)
        BY <1>1, <3>4
      <4> QED
        BY <2>2, <2>3, <3>2, <3>4, <4>1, <4>2
    <3> QED
      BY <1>1, <2>2, <3>3, <3>4
  <2> QED
    BY <2>4, <2>5
<1> QED
  BY <1>4, <1>5, <1>6 DEF size

\* The walk is on every line once.
LEMMA PageWalkCovers ==
    ASSUME param \in Params, param.pattern = "page_random", Permuted
    PROVE  /\ {PageWalk[k] : k \in 0..(numActiveLines(param) - 1)} = Lines
           /\ \A j, k \in 0..(numActiveLines(param) - 1) : PageWalk[j] = PageWalk[k] => j = k
           /\ \A k \in 0..(numActiveLines(param) - 1) :
                 PageWalk[k] \div PageSize(param) = k \div LinesInPage(param)
<1> DEFINE n == LinesInPage(param)
           a == ActivePages(param)
           size == numActiveLines(param)
<1>1. /\ n \in Nat \ {0} /\ a \in Nat \ {0} /\ size \in Nat \ {0} /\ size = a * n
      /\ Index = 0..(n - 1) /\ PageIndex = 0..(a - 1)
  BY Geometry DEF numActiveLines, SeqSize, Index, PageIndex
<1>2. \A k \in 0..(size - 1) : PageWalk[k] = PageLine(k \div n, k % n)
  BY <1>1 DEF PageWalk
<1> HIDE DEF n, a, size
<1>3. ASSUME NEW k \in 0..(size - 1)
      PROVE  k \div n \in PageIndex /\ k % n \in Index /\ k = (k \div n) * n + (k % n)
  <2>1. k \in Nat /\ k < a * n
    BY <1>1
  <2>2. k \div n \in PageIndex /\ k % n \in Index
    BY <1>1, <2>1, PageOfPlace DEF IsPlace
  <2> QED
    BY <1>1, <2>1, <2>2
<1>4. ASSUME NEW j \in 0..(size - 1), NEW k \in 0..(size - 1), PageWalk[j] = PageWalk[k]
      PROVE  j = k
  <2>1. PageLine(j \div n, j % n) = PageLine(k \div n, k % n)
    BY <1>2, <1>4
  <2>2. j \div n = k \div n /\ seq[j % n] = seq[k % n]
    BY <1>3, <2>1, PageLineInPage
  <2>3. j % n = k % n
    BY <1>3, <2>2 DEF Permuted
  <2> QED
    BY <1>3, <2>2, <2>3
<1>5. ASSUME NEW g \in PageIndex, NEW j \in Index
      PROVE  \E k \in 0..(size - 1) : PageWalk[k] = PageLine(g, j)
  <2> DEFINE k == g * n + j
  <2>1. g \in Nat /\ j \in Nat /\ j < n
    BY <1>1
  <2>2. k \div n = g /\ k % n = j
    BY <1>1, <2>1, Division
  <2>3. (a - 1 - g) * n >= 0
    BY <1>1
  <2>4. k \in 0..(size - 1)
    BY <1>1, <2>1, <2>3
  <2> QED
    BY <1>2, <2>2, <2>4
<1>6. {PageWalk[k] : k \in 0..(size - 1)} = Lines
  BY <1>2, <1>3, <1>5, PageOffsetsAreLines DEF PageOffsets
<1>7. \A k \in 0..(size - 1) : PageWalk[k] \div PageSize(param) = k \div n
  BY <1>2, <1>3, PageLineInPage
<1> QED
  BY <1>4, <1>6, <1>7 DEF size, n

\* Where the walk of the pointers is after k chases, page by page.
LEMMA PageCycle ==
    ASSUME param \in Params, param.pattern = "page_random", Permuted, seq[0] = 0,
           next = page_random_init
    PROVE  /\ Cyclic
           /\ \A k \in 0..(numActiveLines(param) - 1) :
                 Chase(k) \div PageSize(param) = k \div LinesInPage(param)
<1> DEFINE size == numActiveLines(param)
<1>1. size \in Nat \ {0}
  BY Geometry
<1>2. /\ PageWalk[0] = 0 /\ PageWalk[size] = 0
      /\ \A k \in 0..(size - 1) : PageWalk[k + 1] = next[PageWalk[k]]
  BY PageWalkIsLinked
<1>3. /\ {PageWalk[k] : k \in 0..(size - 1)} = Lines
      /\ \A j, k \in 0..(size - 1) : PageWalk[j] = PageWalk[k] => j = k
      /\ \A k \in 0..(size - 1) : PageWalk[k] \div PageSize(param) = k \div LinesInPage(param)
  BY PageWalkCovers
<1> HIDE DEF size
<1>4. Cardinality(Lines) = size /\ {Chase(k) : k \in 0..(size - 1)} = Lines /\ Chase(size) = 0
  BY <1>1, <1>2, <1>3, Circle
<1>5. \A k \in 0..size : Chase(k) = PageWalk[k]
  BY <1>1, <1>2, Chased
<1>6. 0..(size - 1) \subseteq 0..size
  BY <1>1
<1> QED
  BY <1>1, <1>3, <1>4, <1>5, <1>6, CircleIsCyclic DEF size

\* What the three initialisations leave behind.
LEMMA Finished ==
    ASSUME ShuffleInv, CycleInv, stage = "done"
    PROVE  /\ Cyclic
           /\ param.pattern = "page_random" =>
                 \A k \in 0..(numActiveLines(param) - 1) :
                    Chase(k) \div PageSize(param) = k \div LinesInPage(param)
<1>1. param \in Params /\ next = Linked /\ param.pattern \in Patterns
  BY Geometry DEF ShuffleInv, CycleInv, ParamType
<1>2. CASE param.pattern = "stride"
  BY <1>1, <1>2, StrideCycle DEF Linked
<1>3. CASE param.pattern = "page_random"
  BY <1>1, <1>3, PageCycle DEF Linked, CycleInv
<1>4. CASE param.pattern = "all_random"
  BY <1>1, <1>4, RandomCycle DEF Linked, CycleInv
<1> QED
  BY <1>1, <1>2, <1>3, <1>4 DEF Patterns

\* Whatever the region, the pattern and the results of rand(), the pointers of a
\* finished region form one cycle through all of its lines.
THEOREM OneCycle == Spec => []SingleCycle
<1>1. ShuffleInv /\ CycleInv => SingleCycle
  BY Finished DEF SingleCycle, Cyclic
<1> QED
  BY <1>1, CycleInvHolds, PTL

\* And in the page_random pattern the cycle leaves a page only when it has been
\* on all of its lines.
THEOREM PagesInTurn == Spec => []PageByPage
<1>1. ShuffleInv /\ CycleInv => PageByPage
  BY Finished DEF PageByPage
<1> QED
  BY <1>1, CycleInvHolds, PTL
=============================================================================
