------------------------- MODULE ReplayWindowProofs -------------------------
(***************************************************************************)
(* For every window size and every set of integer inputs: the replay       *)
(* window is a faithful digest of its history, lets nothing be replayed,   *)
(* refuses nothing else, and implements ReplaySpec; and the integer that   *)
(* the code keeps for the mask is the number of the mask's bits through    *)
(* every shift.                                                            *)
(***************************************************************************)
EXTENDS ReplayBits, FiniteSetTheorems, FunctionTheorems, TLAPS

\* What is inductive: types, and the digest of the history.
IndInv == TypeOK /\ WindowMatchesHistory

\* check() answers from the mask what the history itself would answer.
LEMMA CheckIsFreshness ==
    ASSUME IndInv, NEW seq \in Int
    PROVE  Accepts(win, seq) <=> Promise!Fresh(seq)
<1> USE WindowSizeAssumption DEF IndInv, TypeOK, WindowMatchesHistory, Windows, Bits
<1>1. CASE seq < 0
  BY <1>1 DEF Accepts, Check, Acceptances, Promise!Fresh
<1>2. CASE seq >= 0 /\ win.max_seq = -1
  BY <1>2 DEF Accepts, Check, Acceptances, Promise!Fresh
<1>3. CASE seq > win.max_seq /\ win.max_seq # -1
  BY <1>3 DEF Accepts, Check, Acceptances, Promise!Fresh
<1>4. CASE seq >= 0 /\ seq <= win.max_seq
  <2>1. win.max_seq \in recorded /\ win.max_seq \in Nat
    BY <1>4
  <2>2. CASE win.max_seq - seq >= WindowSize
    BY <1>4, <2>1, <2>2 DEF Accepts, Check, Acceptances, Promise!Fresh
  <2>3. CASE win.max_seq - seq < WindowSize
    <3>1. win.max_seq - seq \in Bits /\ win.max_seq - (win.max_seq - seq) = seq
      BY <1>4, <2>1, <2>3
    <3>2. (win.max_seq - seq \in win.seen_mask) <=> (seq \in recorded)
      BY <3>1
    <3>3. \A old \in recorded : old - seq < WindowSize
      BY <2>1, <2>3
    <3>4. Accepts(win, seq) <=> win.max_seq - seq \notin win.seen_mask
      BY <1>4, <2>1, <2>3 DEF Accepts, Check, Acceptances
    <3> QED
      BY <1>4, <3>2, <3>3, <3>4 DEF Promise!Fresh
  <2> QED
    BY <1>4, <2>1, <2>2, <2>3
<1> QED
  BY <1>1, <1>2, <1>3, <1>4

\* record() raises on exactly the numbers check() refuses.
LEMMA RaisesIffRefused ==
    ASSUME IndInv, NEW seq \in Int
    PROVE  RecordRaises(win, seq) <=> ~Accepts(win, seq)
  BY WindowSizeAssumption
  DEF IndInv, TypeOK, Windows, RecordRaises, Accepts, Check, Acceptances

\* Recording an accepted number keeps the window a digest of its history.
LEMMA RecordKeepsDigest ==
    ASSUME IndInv, NEW seq \in Int, Accepts(win, seq),
           win' = Record(win, seq), recorded' = recorded \cup {seq}
    PROVE  /\ win' \in Windows
           /\ recorded' \subseteq Nat
           /\ WindowMatchesHistory'
<1> USE WindowSizeAssumption DEF IndInv, TypeOK, WindowMatchesHistory, Windows, Bits
<1>1. seq \in Nat /\ Promise!Fresh(seq)
  BY CheckIsFreshness DEF Promise!Fresh
<1>2. CASE win.max_seq = -1
  BY <1>1, <1>2 DEF Record
<1>3. CASE win.max_seq # -1 /\ seq > win.max_seq
  <2>1. /\ win' = [max_seq |-> seq,
                   seen_mask |-> Shifted(win.seen_mask, seq - win.max_seq) \cup {0}]
        /\ win.max_seq \in Nat
    BY <1>3 DEF Record
  <2>2. ASSUME NEW bit \in Bits
        PROVE  bit \in win'.seen_mask <=> seq - bit \in recorded'
    <3>1. CASE bit = 0
      BY <2>1, <3>1
    <3>2. CASE bit # 0
      <4>1. bit \in win'.seen_mask <=> bit - (seq - win.max_seq) \in win.seen_mask
        BY <2>1, <3>2 DEF Shifted
      <4>2. seq - bit \in recorded' <=> seq - bit \in recorded
        BY <3>2
      <4>3. win.max_seq - (bit - (seq - win.max_seq)) = seq - bit
        BY <1>1, <2>1
      <4>4. bit - (seq - win.max_seq) \in win.seen_mask <=> seq - bit \in recorded
        BY <1>1, <1>3, <2>1, <4>3
      <4> QED
        BY <4>1, <4>2, <4>4
    <3> QED
      BY <3>1, <3>2
  <2>3. win'.seen_mask \subseteq Bits
    BY <2>1 DEF Shifted
  <2>4. win'.seen_mask = {bit \in Bits : win'.max_seq - bit \in recorded'}
    BY <2>1, <2>2, <2>3
  <2> QED
    BY <1>1, <1>3, <2>1, <2>3, <2>4
<1>4. CASE win.max_seq # -1 /\ seq <= win.max_seq
  <2>1. /\ win'.max_seq = win.max_seq
        /\ win'.seen_mask = win.seen_mask \cup {win.max_seq - seq}
        /\ win' \in [max_seq : Nat \cup {-1}, seen_mask : SUBSET Bits]
    <3>1. win.max_seq \in recorded /\ win.max_seq \in Nat
      BY <1>4
    <3>2. win.max_seq - seq \in Bits
      BY <1>1, <1>4, <3>1 DEF Promise!Fresh
    <3> QED
      BY <1>4, <3>2 DEF Record
  <2>2. ASSUME NEW bit \in Bits
        PROVE  bit \in win'.seen_mask <=> win.max_seq - bit \in recorded'
    <3>1. bit = win.max_seq - seq <=> win.max_seq - bit = seq
      BY <1>1
    <3> QED
      BY <2>1, <3>1
  <2> QED
    BY <1>1, <1>4, <2>1, <2>2
<1> QED
  BY <1>2, <1>3, <1>4

\* The invariant holds of a new window and every call keeps it.
THEOREM Inductive == Spec => []IndInv
<1> USE WindowSizeAssumption, InputsAssumption
<1>1. Init => IndInv
  BY DEF Init, IndInv, TypeOK, WindowMatchesHistory, NewWindow, Windows, Bits
<1>2. IndInv /\ [Next]_vars => IndInv'
  <2> SUFFICES ASSUME IndInv, [Next]_vars
               PROVE  IndInv'
    OBVIOUS
  <2>1. ASSUME NEW seq \in Inputs
        PROVE  Check(win, seq) \in Acceptances \cup Rejections
    BY DEF Check, Acceptances, Rejections
  <2>2. ASSUME NEW seq \in Inputs, CheckSeq(seq)
        PROVE  IndInv'
    BY <2>1, <2>2 DEF CheckSeq, IndInv, TypeOK, WindowMatchesHistory
  <2>3. ASSUME NEW seq \in Inputs, Accept(seq)
        PROVE  IndInv'
    <3>1. CASE Accepts(win, seq)
      BY <2>1, <2>3, <3>1, RecordKeepsDigest DEF Accept, IndInv, TypeOK
    <3>2. CASE ~Accepts(win, seq)
      <4>1. UNCHANGED <<win, recorded>> /\ outcome' = Check(win, seq)
        BY <2>3, <3>2 DEF Accept
      <4> QED
        BY <2>1, <4>1 DEF IndInv, TypeOK, WindowMatchesHistory
    <3> QED
      BY <3>1, <3>2
  <2>4. ASSUME NEW seq \in Inputs, RecordSeq(seq)
        PROVE  IndInv'
    <3>1. CASE RecordRaises(win, seq)
      <4>1. UNCHANGED <<win, recorded>> /\ outcome' = "raised"
        BY <2>4, <3>1 DEF RecordSeq
      <4> QED
        BY <4>1 DEF IndInv, TypeOK, WindowMatchesHistory
    <3>2. CASE ~RecordRaises(win, seq)
      BY <2>4, <3>2, RaisesIffRefused, RecordKeepsDigest DEF RecordSeq, IndInv, TypeOK
    <3> QED
      BY <3>1, <3>2
  <2>5. CASE Reset
    BY <2>5 DEF Reset, IndInv, TypeOK, WindowMatchesHistory, NewWindow, Windows, Bits
  <2>6. CASE UNCHANGED vars
    BY <2>6 DEF vars, IndInv, TypeOK, WindowMatchesHistory
  <2> QED
    BY <2>2, <2>3, <2>4, <2>5, <2>6 DEF Next
<1> QED
  BY <1>1, <1>2, PTL DEF Spec

\* Type correctness of the replay window, for every window size and input set.
THEOREM TypeCorrect == Spec => []TypeOK
  BY Inductive, PTL DEF IndInv

\* The window always is a digest of the numbers recorded since it was created:
\* newest number and mask, through any shifts.
THEOREM DigestKept == Spec => []WindowMatchesHistory
  BY Inductive, PTL DEF IndInv

\* No sequence number that was recorded is ever accepted again.
THEOREM ReplaysRefused == Spec => []NoReplay
<1>1. IndInv => NoReplay
  <2> SUFFICES ASSUME IndInv, NEW seq \in recorded
               PROVE  ~Accepts(win, seq)
    BY DEF NoReplay
  <2>1. seq \in Int
    BY DEF IndInv, TypeOK
  <2> QED
    BY <2>1, CheckIsFreshness DEF Promise!Fresh
<1> QED
  BY Inductive, <1>1, PTL

\* A number that is new and not older than the window floor is accepted.
THEOREM FreshAccepted == Spec => []OnlyReplaysRefused
<1>1. IndInv => OnlyReplaysRefused
  <2> SUFFICES ASSUME IndInv, NEW seq \in Inputs,
                      seq >= 0, seq \notin recorded, seq >= WindowFloor(win)
               PROVE  Accepts(win, seq)
    BY DEF OnlyReplaysRefused
  <2>1. seq \in Int
    BY InputsAssumption
  <2>2. \A old \in recorded : old - seq < WindowSize
    BY <2>1, WindowSizeAssumption
    DEF IndInv, TypeOK, WindowMatchesHistory, Windows, WindowFloor
  <2> QED
    BY <2>1, <2>2, CheckIsFreshness DEF Promise!Fresh
<1> QED
  BY Inductive, <1>1, PTL

\* record() raises exactly where check() refuses.
THEOREM RaisingAgrees == Spec => []RecordAgreesWithCheck
<1>1. IndInv => RecordAgreesWithCheck
  BY RaisesIffRefused, InputsAssumption DEF RecordAgreesWithCheck
<1> QED
  BY Inductive, <1>1, PTL

\* Every call is a step the abstract promise allows: the mask, which forgets all
\* but the last WindowSize numbers, judges as the full history would.
THEOREM Refinement == Spec => ImplementsReplaySpec
<1>1. Init => Promise!Init
  BY DEF Init, Promise!Init, verdictMap, Acceptances
<1>2. IndInv /\ [Next]_vars => [Promise!Next]_(Promise!vars)
  <2> SUFFICES ASSUME IndInv, [Next]_vars
               PROVE  Promise!Next \/ UNCHANGED Promise!vars
    OBVIOUS
  <2>1. ASSUME NEW seq \in Inputs
        PROVE  Accepts(win, seq) <=> Promise!Fresh(seq)
    BY <2>1, CheckIsFreshness, InputsAssumption
  <2>2. ASSUME NEW seq \in Inputs, outcome' = Check(win, seq)
        PROVE  verdictMap' = IF Promise!Fresh(seq) THEN "accepted" ELSE "refused"
    BY <2>1, <2>2 DEF verdictMap, Accepts, Check, Acceptances
  <2>3. ASSUME NEW seq \in Inputs, CheckSeq(seq)
        PROVE  Promise!Judge(seq)
    BY <2>2, <2>3 DEF CheckSeq, Promise!Judge
  <2>4. ASSUME NEW seq \in Inputs, Accept(seq)
        PROVE  Promise!Take(seq) \/ Promise!Judge(seq)
    BY <2>1, <2>2, <2>4 DEF Accept, Promise!Take, Promise!Judge
  <2>5. ASSUME NEW seq \in Inputs, RecordSeq(seq)
        PROVE  Promise!Take(seq) \/ Promise!Judge(seq)
    BY <2>1, <2>5, RaisesIffRefused, InputsAssumption
    DEF RecordSeq, Promise!Take, Promise!Judge, verdictMap, Acceptances
  <2>6. CASE Reset
    BY <2>6 DEF Reset, Promise!Next, Promise!Forget, verdictMap, Acceptances
  <2>7. CASE UNCHANGED vars
    BY <2>7 DEF vars, Promise!vars, verdictMap
  <2> QED
    BY <2>3, <2>4, <2>5, <2>6, <2>7 DEF Next, Promise!Next
<1> QED
  BY Inductive, <1>1, <1>2, PTL DEF Spec, ImplementsReplaySpec, Promise!Spec

-----------------------------------------------------------------------------
\* Every nonempty set of natural numbers has a least member.
LEMMA LeastNumber ==
    ASSUME NEW S, S \subseteq Nat, S # {}
    PROVE  \E m \in S : \A k \in S : m <= k
<1> DEFINE Below(n) == 0..(n - 1)
           T == {Below(n) : n \in S}
<1>1. T \subseteq FiniteSubsetsOf(Nat) /\ T # {}
  <2>1. ASSUME NEW n \in S
        PROVE  Below(n) \in FiniteSubsetsOf(Nat)
    BY FS_Interval DEF FiniteSubsetsOf
  <2> QED
    BY <2>1
<1>2. PICK x \in T : \A y \in T : <<y, x>> \notin StrictSubsetOrdering(Nat)
  BY <1>1, FS_StrictSubsetOrderingWellFounded, WFMin
<1>3. PICK m \in S : x = Below(m)
  OBVIOUS
<1>4. ASSUME NEW k \in S, k < m
      PROVE  FALSE
  <2>1. /\ Below(k) \subseteq x /\ Below(k) # x
        /\ Below(k) \in SUBSET Nat /\ x \in SUBSET Nat
    BY <1>3, <1>4
  <2>2. <<Below(k), x>> \in StrictSubsetOrdering(Nat)
    BY <2>1 DEF StrictSubsetOrdering
  <2> QED
    BY <1>2, <1>4, <2>2
<1> QED
  BY <1>4

\* A power of two counts the subsets of a set of as many elements.
LEMMA PowerCounts == 
   ASSUME NEW n \in Nat 
   PROVE /\ IsFiniteSet(SUBSET (1..n))
         /\ Cardinality(SUBSET (1..n)) = 2^n
         /\ 2^n \in Nat
<1>1. IsFiniteSet(1..n) /\ Cardinality(1..n) = n
  BY FS_Interval
<1>2. IsFiniteSet(SUBSET (1..n)) /\ Cardinality(SUBSET (1..n)) = 2^Cardinality(1..n)
  BY <1>1, FS_SUBSET, Zenon
<1>3. Cardinality(SUBSET (1..n)) = 2^n
  BY <1>1, <1>2, Zenon
<1>4. Cardinality(SUBSET (1..n)) \in Nat
  BY <1>2, FS_CardinalityType, Zenon
<1> QED BY <1>2, <1>3, <1>4, Zenon

\* Half of the subsets of a set hold a given element.
LEMMA Halves ==
  ASSUME NEW A, NEW x, x \notin A, IsFiniteSet(SUBSET A)
  PROVE  Cardinality(SUBSET (A \cup {x})) = Cardinality(SUBSET A) + Cardinality(SUBSET A)
<1> DEFINE With == {B \cup {x} : B \in SUBSET A}
           add == [B \in SUBSET A |-> B \cup {x}]
<1>1. SUBSET (A \cup {x}) = (SUBSET A) \cup With
  <2>1. ASSUME NEW C \in SUBSET (A \cup {x}), C \notin SUBSET A
        PROVE  C \in With
    <3>1. C \ {x} \in SUBSET A /\ C = (C \ {x}) \cup {x}
      BY <2>1
    <3> QED
      BY <3>1
  <2>2. ASSUME NEW C \in (SUBSET A) \cup With
        PROVE  C \in SUBSET (A \cup {x})
    BY <2>2
  <2> QED
    BY <2>1, <2>2
<1>2. (SUBSET A) \cap With = {}
  OBVIOUS
<1>3. add \in Bijection(SUBSET A, With)
  <2>1. add \in [SUBSET A -> With]
    OBVIOUS
  <2>2. ASSUME NEW B \in SUBSET A, NEW C \in SUBSET A, add[B] = add[C]
        PROVE  B = C
    <3>1. B \cup {x} = C \cup {x}
      BY <2>2
    <3> QED
      BY <3>1
  <2>3. \A C \in With : \E B \in SUBSET A : add[B] = C
    OBVIOUS
  <2> HIDE DEF add, With
  <2> QED
    BY <2>1, <2>2, <2>3, Fun_IsBij, Zenon
<1>4. IsFiniteSet(With) /\ Cardinality(With) = Cardinality(SUBSET A)
  <2> HIDE DEF add, With
  <2> QED
   BY <1>3, FS_Bijection, Zenon DEF ExistsBijection
<1>5. Cardinality((SUBSET A) \cup With)
        = Cardinality(SUBSET A) + Cardinality(With) - Cardinality((SUBSET A) \cap With)
  <2> HIDE DEF With
  <2> QED
    BY <1>4, FS_Union, Zenon
<1>6. Cardinality({}) = 0 /\ Cardinality(SUBSET A) \in Nat
  BY FS_EmptySet, FS_CardinalityType, Zenon
<1> DEFINE all == Cardinality(SUBSET A)
<1>7. Cardinality(SUBSET (A \cup {x})) = all + all - 0
  <2> HIDE DEF With
  <2> QED
   BY <1>1, <1>2, <1>4, <1>5, <1>6, Zenon
<1> HIDE DEF all
<1>8. all \in Nat => all + all - 0 = all + all
  OBVIOUS
<1> QED
  BY <1>6, <1>7, <1>8, Zenon DEF all

\* The powers of two, of which the provers know no more than what the counts of
\* subsets tell.
LEMMA PowersOfTwo ==
  /\ 2^0 = 1
  /\ \A n \in Nat : 2^n \in Nat \ {0} /\ 2^(n + 1) = 2 * 2^n
<1>1. 2^0 = 1
  OBVIOUS
<1>2. ASSUME NEW n \in Nat
      PROVE  2^n \in Nat /\ 2^(n + 1) = 2 * 2^n
  <2>1. 1..(n + 1) = (1..n) \cup {n + 1} /\ n + 1 \notin 1..n /\ n + 1 \in Nat
    OBVIOUS
  <2> DEFINE all == Cardinality(SUBSET (1..n))
  <2>2. Cardinality(SUBSET (1..(n + 1))) = all + all
    BY <2>1, PowerCounts, Halves, Zenon
  <2>3. all = 2^n /\ 2^n \in Nat /\ Cardinality(SUBSET (1..(n + 1))) = 2^(n + 1)
    BY <2>1, PowerCounts, Zenon
  <2> HIDE DEF all
  <2>4. all \in Nat => all + all = 2 * all
    OBVIOUS
  <2> QED
    BY <2>2, <2>3, <2>4, Zenon
<1>3. ASSUME NEW n \in Nat
      PROVE  2^n # 0
  <2>1. {} \in SUBSET (1..n) /\ SUBSET (1..n) # {}
    OBVIOUS
  <2>2. Cardinality(SUBSET (1..n)) # 0
    BY <2>1, PowerCounts, FS_EmptySet, Zenon
  <2> QED
    BY <2>2, PowerCounts, Zenon
<1> QED
  BY <1>1, <1>2, <1>3

\* What holds of 0 and goes from each number to the next holds up to N.
LEMMA Climb ==
    ASSUME NEW N \in Nat, NEW S, 0 \in S, \A k \in 1..N : k - 1 \in S => k \in S
    PROVE  \A k \in 0..N : k \in S
<1> DEFINE Out == {k \in 0..N : k \notin S}
<1>1. SUFFICES ASSUME Out # {}
               PROVE  FALSE
  OBVIOUS
<1>2. PICK n \in Out : \A k \in Out : n <= k
  BY <1>1, Out \in SUBSET Nat, LeastNumber
<1>3. n \in 1..N /\ n - 1 \in 0..N /\ ~(n <= n - 1)
  BY <1>2
<1> QED
  BY <1>2, <1>3

\* 2^(a + b) is the product of 2^a and 2^b.
LEMMA PowerOfSum ==
    ASSUME NEW a \in Nat, NEW b \in Nat
    PROVE  2^(a + b) = 2^a * 2^b
<1> DEFINE Good == {k \in Nat : 2^(a + k) = 2^a * 2^k}
<1>1. 2^a \in Nat /\ 2^(a + 0) = 2^a * 2^0
  BY PowersOfTwo
<1>2. ASSUME NEW k \in 1..b, k - 1 \in Good
      PROVE  k \in Good
  <2>1. k - 1 \in Nat /\ (k - 1) + 1 = k /\ a + (k - 1) \in Nat /\ (a + (k - 1)) + 1 = a + k
    OBVIOUS
  <2>2. /\ 2^k = 2 * 2^(k - 1) /\ 2^(a + k) = 2 * 2^(a + (k - 1))
        /\ 2^(k - 1) \in Nat /\ 2^(a + (k - 1)) \in Nat
    BY <2>1, PowersOfTwo
  <2>3. \A x, y \in Nat : 2 * (x * y) = x * (2 * y)
    OBVIOUS
  <2>4. 2^(a + k) = 2^a * 2^k
    BY <1>1, <1>2, <2>2, <2>3
  <2> QED
    BY <2>4
<1>3. 0 \in Good
  BY <1>1
<1> HIDE DEF Good
<1>4. b \in Good
  BY <1>2, <1>3, Climb
<1> QED
  BY <1>4 DEF Good

\* Division by d of a multiple of d and a rest.
LEMMA Division ==
    ASSUME NEW d \in Nat \ {0}, NEW q \in Nat, NEW r \in 0..(d - 1)
    PROVE  (r + d * q) \div d = q /\ (r + d * q) % d = r
  BY Z3

-----------------------------------------------------------------------------
\* What the bit at a place adds to the number.
Digit(mask, bit) == IF bit \in mask THEN 2^bit ELSE 0

\* Sums of a row of numbers exist.
LEMMA SumsExist ==
    ASSUME NEW N \in Nat, NEW d \in [1..N -> Nat]
    PROVE  \E f \in [0..N -> Nat] : f[0] = 0 /\ \A k \in 1..N : f[k] = f[k - 1] + d[k]
<1> DEFINE Sums(n, f) == f[0] = 0 /\ \A k \in 1..n : f[k] = f[k - 1] + d[k]
           Summed(n) == \E f \in [0..N -> Nat] : Sums(n, f)
           Good == {n \in 0..N : Summed(n)}
<1>1. 0 \in Good
  <2> DEFINE none == [k \in 0..N |-> 0]
  <2>1. none \in [0..N -> Nat] /\ Sums(0, none)
    OBVIOUS
  <2>2. Summed(0)
    <3> HIDE DEF none
    <3> QED
      BY <2>1
  <2> HIDE DEF Summed
  <2> QED
    BY <2>2
<1>2. ASSUME NEW n \in 1..N, n - 1 \in Good
      PROVE  n \in Good
  <2>0. Summed(n - 1)
    <3> HIDE DEF Summed
    <3> QED
      BY <1>2
  <2>1. PICK f \in [0..N -> Nat] : Sums(n - 1, f)
    BY <2>0
  <2> DEFINE g == [f EXCEPT ![n] = f[n - 1] + d[n]]
  <2>2. g \in [0..N -> Nat]
    OBVIOUS
  <2>3. g[0] = 0
    BY <2>1
  <2>4. ASSUME NEW k \in 1..n
        PROVE  g[k] = g[k - 1] + d[k]
    BY <2>1, k \in 1..N, k - 1 \in 0..N, k - 1 # n
  <2>5. Summed(n)
    <3> HIDE DEF g
    <3> QED
      BY <2>2, <2>3, <2>4
  <2> HIDE DEF Summed
  <2> QED
    BY <2>5
<1>3. N \in Good
  <2> HIDE DEF Good
  <2> QED
    BY <1>1, <1>2, N \in 0..N, Climb
<1> QED
  BY <1>3

\* The digits of a number, added one after the other.
LEMMA DigitsAdd ==
    ASSUME NEW mask
    PROVE  /\ LowDigits(mask) \in [0..WindowSize -> Nat]
           /\ LowDigits(mask)[0] = 0
           /\ \A k \in 1..WindowSize :
                 LowDigits(mask)[k] = LowDigits(mask)[k - 1] + Digit(mask, k - 1)
<1> DEFINE Made(f) == [k \in 0..WindowSize |->
                         IF k = 0 THEN 0
                         ELSE f[k - 1] + (IF k - 1 \in mask THEN 2^(k - 1) ELSE 0)]
           d == [k \in 1..WindowSize |-> Digit(mask, k - 1)]
<1>1. WindowSize \in Nat
  BY WindowSizeAssumption
<1>2. PICK f \in [0..WindowSize -> Nat] :
         f[0] = 0 /\ \A k \in 1..WindowSize : f[k] = f[k - 1] + d[k]
  <2>1. ASSUME NEW k \in 1..WindowSize
        PROVE  Digit(mask, k - 1) \in Nat
    BY <2>1, <1>1, k - 1 \in Nat, PowersOfTwo DEF Digit
  <2>2. d \in [1..WindowSize -> Nat]
    BY <2>1
  <2> HIDE DEF d
  <2> QED
    BY <1>1, <2>2, SumsExist
<1>3. \A k \in 1..WindowSize : f[k] = f[k - 1] + Digit(mask, k - 1)
  BY <1>2
<1>4. f = Made(f)
  <2>1. ASSUME NEW k \in 0..WindowSize
        PROVE  f[k] = Made(f)[k]
    <3>1. CASE k = 0
      BY <1>2, <3>1
    <3>2. CASE k # 0
      <4>1. k \in 1..WindowSize
        BY <1>1, <3>2
      <4> QED
        BY <1>3, <3>2, <4>1 DEF Digit
    <3> QED
      BY <3>1, <3>2
  <2> QED
    BY <2>1
<1>5. LowDigits(mask) = CHOOSE g : g = Made(g)
  BY DEF LowDigits
<1>6. LowDigits(mask) = Made(LowDigits(mask))
  BY <1>4, <1>5
<1> DEFINE g == LowDigits(mask)
<1>7. /\ g[0] = 0
      /\ \A k \in 1..WindowSize : g[k] = g[k - 1] + Digit(mask, k - 1)
  <2>1. \A k \in 0..WindowSize : g[k] = Made(g)[k]
    <3> HIDE DEF Made, g
    <3> QED
      BY <1>6 DEF g
  <2> HIDE DEF g
  <2>2. g[0] = 0
    BY <1>1, <2>1
  <2>3. ASSUME NEW k \in 1..WindowSize
        PROVE  g[k] = g[k - 1] + Digit(mask, k - 1)
    BY <1>1, <2>1, k \in 0..WindowSize DEF Digit
  <2> QED
    BY <2>2, <2>3
<1>8. \A k \in 0..WindowSize : g[k] = f[k]
  <2> HIDE DEF g, d, Made
  <2> DEFINE Good == {k \in 0..WindowSize : g[k] = f[k]}
  <2>1. 0 \in Good
    BY <1>1, <1>2, <1>7
  <2>2. ASSUME NEW k \in 1..WindowSize, k - 1 \in Good
        PROVE  k \in Good
    <3>1. k \in 0..WindowSize /\ g[k - 1] = f[k - 1]
      BY <1>1, <2>2
    <3>2. g[k] = f[k]
      BY <1>3, <1>7, <3>1
    <3> QED
      BY <3>1, <3>2
  <2>3. \A k \in 0..WindowSize : k \in Good
    <3> HIDE DEF Good
    <3> QED
      BY <1>1, <2>1, <2>2, Climb
  <2> QED
    BY <2>3
<1>9. f = g
  <2>1. g = [k \in 0..WindowSize |-> g[k]]
    BY <1>6
  <2> HIDE DEF g, d
  <2> QED
    BY <1>2, <1>8, <2>1
<1> QED
  BY <1>2, <1>7, <1>9

\* The lowest k digits make a number below 2^k.
LEMMA DigitsFit ==
    ASSUME NEW mask, NEW k \in 0..WindowSize
    PROVE  LowDigits(mask)[k] \in 0..(2^k - 1)
<1> DEFINE low == LowDigits(mask)
           Good == {n \in 0..WindowSize : low[n] < 2^n}
<1>1. WindowSize \in Nat
  BY WindowSizeAssumption
<1>2. low \in [0..WindowSize -> Nat] /\ low[0] = 0
  BY DigitsAdd
<1>3. 0 \in Good
  BY <1>1, <1>2, PowersOfTwo
<1>4. ASSUME NEW n \in 1..WindowSize, n - 1 \in Good
      PROVE  n \in Good
  <2>1. n \in 0..WindowSize /\ n - 1 \in Nat /\ n - 1 \in 0..WindowSize /\ (n - 1) + 1 = n
    BY <1>1
  <2>2. low[n] = low[n - 1] + Digit(mask, n - 1)
    BY DigitsAdd
  <2>3. 2^(n - 1) \in Nat /\ 2^n = 2 * 2^(n - 1)
    BY <2>1, PowersOfTwo
  <2>4. Digit(mask, n - 1) \in 0..2^(n - 1)
    BY <2>3 DEF Digit
  <2>5. low[n - 1] \in Nat /\ low[n - 1] < 2^(n - 1)
    BY <1>2, <1>4, <2>1
  <2>6. low[n] < 2^n
    <3> HIDE DEF low
    <3> QED
      BY <2>2, <2>3, <2>4, <2>5
  <2> QED
    BY <2>1, <2>6
<1>5. k \in Good
  <2> HIDE DEF Good
  <2> QED
    BY <1>1, <1>3, <1>4, Climb
<1>6. low[k] \in Nat /\ low[k] < 2^k /\ 2^k \in Nat
  BY <1>1, <1>2, <1>5, PowersOfTwo
<1> QED
  BY <1>6

\* The digits from place b on make a multiple of 2^b.
LEMMA DigitsAbove ==
    ASSUME NEW mask, NEW b \in 0..WindowSize, NEW j \in 0..(WindowSize - b)
    PROVE  \E high \in Nat : LowDigits(mask)[b + j] = LowDigits(mask)[b] + 2^b * high
<1> DEFINE low == LowDigits(mask)
           Multiple(i) == \E high \in Nat : low[b + i] = low[b] + 2^b * high
           Good == {i \in 0..(WindowSize - b) : Multiple(i)}
<1>1. /\ WindowSize \in Nat /\ WindowSize - b \in Nat /\ b \in Nat
      /\ 2^b \in Nat /\ low \in [0..WindowSize -> Nat]
  BY WindowSizeAssumption, PowersOfTwo, DigitsAdd
<1>2. 0 \in Good
  <2>1. low[b + 0] = low[b] + 2^b * 0
    <3> HIDE DEF low
    <3> QED
      BY <1>1
  <2>2. Multiple(0)
    <3> HIDE DEF low
    <3> QED
      BY <2>1
  <2> HIDE DEF Multiple
  <2> QED
    BY <1>1, <2>2
<1>3. ASSUME NEW i \in 1..(WindowSize - b), i - 1 \in Good
      PROVE  i \in Good
  <2>1. /\ i - 1 \in Nat /\ b + i \in 1..WindowSize /\ (b + i) - 1 = b + (i - 1)
        /\ b + (i - 1) \in 0..WindowSize /\ i \in 0..(WindowSize - b)
    BY <1>1
  <2>2. Multiple(i - 1)
    <3> HIDE DEF Multiple
    <3> QED
      BY <1>3
  <2>3. PICK high \in Nat : low[b + (i - 1)] = low[b] + 2^b * high
    BY <2>2
  <2>4. low[b + i] = low[b + (i - 1)] + Digit(mask, b + (i - 1))
    BY <2>1, DigitsAdd
  <2>5. 2^(b + (i - 1)) = 2^b * 2^(i - 1) /\ 2^(i - 1) \in Nat
    BY <1>1, <2>1, PowerOfSum, PowersOfTwo
  <2>6. PICK more \in Nat : Digit(mask, b + (i - 1)) = 2^b * more
    <3>1. 2^b * 0 = 0
      BY <1>1
    <3> QED
      BY <2>5, <3>1 DEF Digit
  <2>7. /\ \A a, p, x, y \in Nat : (a + p * x) + p * y = a + p * (x + y)
        /\ low[b] \in Nat /\ high + more \in Nat
    BY <1>1
  <2>8. low[b + i] = low[b] + 2^b * (high + more)
    <3> HIDE DEF low
    <3> QED
      BY <1>1, <2>3, <2>4, <2>6, <2>7
  <2>9. Multiple(i)
    <3> HIDE DEF low
    <3> QED
      BY <2>7, <2>8
  <2> HIDE DEF Multiple
  <2> QED
    BY <2>1, <2>9
<1>4. j \in Good
  <2> HIDE DEF Good
  <2> QED
    BY <1>1, <1>2, <1>3, Climb
<1>5. Multiple(j)
  <2> HIDE DEF Multiple
  <2> QED
    BY <1>4
<1> QED
  BY <1>5

\* A bit of the number is one exactly when the place is in the mask.
LEMMA BitOfNumber ==
    ASSUME NEW mask, NEW bit \in Bits
    PROVE  HasBit(Number(mask), bit) <=> bit \in mask
<1> DEFINE low == LowDigits(mask)
           p == 2^bit
<1>1. /\ WindowSize \in Nat /\ bit \in Nat /\ bit \in 0..WindowSize
      /\ bit + 1 \in 1..WindowSize /\ bit + 1 \in 0..WindowSize /\ (bit + 1) - 1 = bit
      /\ WindowSize - (bit + 1) \in 0..(WindowSize - (bit + 1))
      /\ (bit + 1) + (WindowSize - (bit + 1)) = WindowSize
  BY WindowSizeAssumption DEF Bits
<1>2. p \in Nat \ {0} /\ 2^(bit + 1) = 2 * p
  BY <1>1, PowersOfTwo
<1>3. PICK high \in Nat : low[WindowSize] = low[bit + 1] + 2^(bit + 1) * high
  BY <1>1, DigitsAbove
<1>4. low[bit + 1] = low[bit] + Digit(mask, bit)
  BY <1>1, DigitsAdd
<1>5. low[bit] \in 0..(p - 1)
  BY <1>1, DigitsFit
<1> DEFINE one == IF bit \in mask THEN 1 ELSE 0
<1>6. one \in {0, 1} /\ Digit(mask, bit) = p * one
  BY <1>2 DEF Digit
<1>7. /\ \A a, x, y, z \in Nat : (a + x * y) + (2 * x) * z = a + x * (y + 2 * z)
      /\ low[bit] \in Nat /\ one \in Nat /\ one + 2 * high \in Nat
  BY <1>2, <1>5, <1>6
<1>8. low[WindowSize] = low[bit] + p * (one + 2 * high)
  <2> HIDE DEF low, p, one
  <2> QED
    BY <1>2, <1>3, <1>4, <1>6, <1>7
<1>9. low[WindowSize] \div p = one + 2 * high
  <2> DEFINE q == one + 2 * high
  <2> HIDE DEF low, p, one
  <2>1. low[WindowSize] = low[bit] + p * q /\ q \in Nat
    BY <1>7, <1>8
  <2> HIDE DEF q
  <2>2. (low[bit] + p * q) \div p = q
    BY <1>2, <1>5, <2>1, Division
  <2> QED
    BY <2>1, <2>2 DEF q
<1>10. (one + 2 * high) % 2 = one
  <2>1. one \in 0..(2 - 1) /\ 2 \in Nat \ {0}
    BY <1>6
  <2> HIDE DEF one
  <2> QED
    BY <2>1, Division
<1>11. HasBit(Number(mask), bit) <=> one = 1
  <2> HIDE DEF one
  <2> QED
    BY <1>9, <1>10 DEF HasBit, Number
<1> QED
  BY <1>11

\* Setting a bit of the number puts the place into the mask.
LEMMA BitAdded ==
    ASSUME NEW mask, NEW bit \in Bits
    PROVE  WithBit(Number(mask), bit) = Number(mask \cup {bit})
<1> DEFINE low == LowDigits(mask)
           more == LowDigits(mask \cup {bit})
<1>1. WindowSize \in Nat /\ bit \in 0..(WindowSize - 1)
  BY WindowSizeAssumption DEF Bits
<1>2. CASE bit \in mask
  <2>1. mask \cup {bit} = mask
    BY <1>2
  <2> QED
    BY <1>2, <2>1, BitOfNumber DEF WithBit
<1>3. CASE bit \notin mask
  <2> DEFINE gain(k) == IF k > bit THEN 2^bit ELSE 0
             Good == {k \in 0..WindowSize : more[k] = low[k] + gain(k)}
  <2>1. 2^bit \in Nat /\ low \in [0..WindowSize -> Nat] /\ low[0] = 0 /\ more[0] = 0
    BY <1>1, PowersOfTwo, DigitsAdd
  <2>2. 0 \in Good
    <3>1. gain(0) = 0
      BY <1>1
    <3> HIDE DEF more, low, gain
    <3>2. more[0] = low[0] + gain(0)
      BY <2>1, <3>1
    <3> QED
      BY <1>1, <3>2
  <2>3. ASSUME NEW k \in 1..WindowSize, k - 1 \in Good
        PROVE  k \in Good
    <3>1. k - 1 \in 0..WindowSize /\ k \in 0..WindowSize /\ k - 1 \in Nat
      BY <1>1
    <3>2. /\ low[k] = low[k - 1] + Digit(mask, k - 1)
          /\ more[k] = more[k - 1] + Digit(mask \cup {bit}, k - 1)
      BY DigitsAdd
    <3>3. more[k - 1] = low[k - 1] + gain(k - 1)
      <4> HIDE DEF more, low, gain
      <4> QED
        BY <2>3
    <3>4. gain(k - 1) + Digit(mask \cup {bit}, k - 1) = Digit(mask, k - 1) + gain(k)
      <4>1. CASE k - 1 = bit
        BY <1>1, <1>3, <2>1, <4>1 DEF Digit
      <4>2. CASE k - 1 # bit
        <5>1. Digit(mask \cup {bit}, k - 1) = Digit(mask, k - 1)
          BY <4>2 DEF Digit
        <5>2. gain(k - 1) = gain(k)
          BY <1>1, <4>2
        <5>3. gain(k) \in Nat /\ Digit(mask, k - 1) \in Nat
          BY <2>1, <3>1, PowersOfTwo DEF Digit
        <5> HIDE DEF gain
        <5> QED
          BY <5>1, <5>2, <5>3
      <4> QED
        BY <4>1, <4>2
    <3>5. /\ low[k - 1] \in Nat /\ gain(k - 1) \in Nat /\ gain(k) \in Nat
          /\ Digit(mask, k - 1) \in Nat /\ Digit(mask \cup {bit}, k - 1) \in Nat
      BY <2>1, <3>1, PowersOfTwo DEF Digit
    <3>6. more[k] = low[k] + gain(k)
      <4> HIDE DEF more, low, gain
      <4> QED
        BY <3>2, <3>3, <3>4, <3>5
    <3> HIDE DEF more, low, gain
    <3> QED
      BY <3>1, <3>6
  <2>4. WindowSize \in Good
    <3>1. WindowSize \in 0..WindowSize
      BY <1>1
    <3> HIDE DEF Good
    <3> QED
      BY <1>1, <2>2, <2>3, <3>1, Climb
  <2>5. more[WindowSize] = low[WindowSize] + 2^bit
    <3>1. gain(WindowSize) = 2^bit
      BY <1>1
    <3>2. more[WindowSize] = low[WindowSize] + gain(WindowSize)
      <4> HIDE DEF more, low, gain
      <4> QED
        BY <2>4
    <3> QED
      BY <3>1, <3>2
  <2>6. ~HasBit(Number(mask), bit)
    BY <1>3, BitOfNumber
  <2> QED
    BY <2>5, <2>6 DEF WithBit, Number
<1> QED
  BY <1>2, <1>3

\* The number without a one-bit is zero.
LEMMA NoDigits == Number({}) = 0
<1> DEFINE low == LowDigits({})
           Good == {k \in 0..WindowSize : low[k] = 0}
<1>1. WindowSize \in Nat /\ low[0] = 0 /\ WindowSize \in 0..WindowSize
  BY WindowSizeAssumption, DigitsAdd
<1>2. 0 \in Good
  BY <1>1
<1>3. ASSUME NEW k \in 1..WindowSize, k - 1 \in Good
      PROVE  k \in Good
  <2>1. low[k] = low[k - 1] + 0
    BY DigitsAdd DEF Digit
  <2>2. k \in 0..WindowSize
    BY <1>1
  <2> HIDE DEF low
  <2> QED
    BY <1>3, <2>1, <2>2
<1>4. WindowSize \in Good
  <2> HIDE DEF Good
  <2> QED
    BY <1>1, <1>2, <1>3, Climb
<1> QED
  BY <1>4 DEF Number

\* The digits of the shifted mask: zeros, then the digits of the mask times 2^shift.
LEMMA DigitsShifted ==
    ASSUME NEW mask \in SUBSET Bits, NEW shift \in 0..WindowSize
    PROVE  \A j \in 0..(WindowSize - shift) :
              LowDigits(Shifted(mask, shift))[shift + j] = 2^shift * LowDigits(mask)[j]
<1> DEFINE low == LowDigits(mask)
           moved == LowDigits(Shifted(mask, shift))
           p == 2^shift
<1>1. /\ WindowSize \in Nat /\ shift \in Nat /\ WindowSize - shift \in Nat
      /\ p \in Nat /\ low \in [0..WindowSize -> Nat] /\ low[0] = 0
      /\ moved \in [0..WindowSize -> Nat] /\ moved[0] = 0
  BY WindowSizeAssumption, PowersOfTwo, DigitsAdd
<1>2. ASSUME NEW bit \in Bits
      PROVE  bit \in Shifted(mask, shift) <=> bit - shift \in mask
  BY DEF Shifted
<1>3. moved[shift] = 0
  <2> DEFINE Good == {k \in 0..shift : moved[k] = 0}
  <2>1. 0 \in Good
    BY <1>1
  <2>2. ASSUME NEW k \in 1..shift, k - 1 \in Good
        PROVE  k \in Good
    <3>1. /\ k \in 1..WindowSize /\ k - 1 \in Bits /\ k \in 0..shift
          /\ (k - 1) - shift \notin Bits
      BY <1>1 DEF Bits
    <3>2. k - 1 \notin Shifted(mask, shift)
      BY <1>2, <3>1
    <3>3. moved[k] = moved[k - 1] + Digit(Shifted(mask, shift), k - 1)
      BY <3>1, DigitsAdd
    <3>4. Digit(Shifted(mask, shift), k - 1) = 0
      BY <3>2 DEF Digit
    <3> HIDE DEF moved
    <3> QED
      BY <2>2, <3>1, <3>3, <3>4
  <2>3. shift \in Good
    <3>1. shift \in 0..shift
      BY <1>1
    <3> HIDE DEF Good
    <3> QED
      BY <1>1, <2>1, <2>2, <3>1, Climb
  <2> QED
    BY <2>3
<1> DEFINE Good == {j \in 0..(WindowSize - shift) : moved[shift + j] = p * low[j]}
<1>4. 0 \in Good
  <2>1. shift + 0 = shift /\ p * 0 = 0
    BY <1>1
  <2> HIDE DEF moved, low, p
  <2> QED
    BY <1>1, <1>3, <2>1
<1>5. ASSUME NEW j \in 1..(WindowSize - shift), j - 1 \in Good
      PROVE  j \in Good
  <2>1. /\ j \in 0..(WindowSize - shift) /\ j \in 1..WindowSize /\ j - 1 \in Nat
        /\ j - 1 \in 0..WindowSize /\ shift + j \in 1..WindowSize
        /\ (shift + j) - 1 = shift + (j - 1) /\ shift + (j - 1) \in Bits
        /\ (shift + (j - 1)) - shift = j - 1
    BY <1>1 DEF Bits
  <2>2. moved[shift + (j - 1)] = p * low[j - 1]
    <3> HIDE DEF moved, low, p
    <3> QED
      BY <1>5
  <2>3. /\ moved[shift + j]
             = moved[shift + (j - 1)] + Digit(Shifted(mask, shift), shift + (j - 1))
        /\ low[j] = low[j - 1] + Digit(mask, j - 1)
    BY <2>1, DigitsAdd
  <2>4. shift + (j - 1) \in Shifted(mask, shift) <=> j - 1 \in mask
    BY <1>2, <2>1
  <2>5. 2^(shift + (j - 1)) = p * 2^(j - 1) /\ 2^(j - 1) \in Nat
    BY <1>1, <2>1, PowerOfSum, PowersOfTwo
  <2>6. Digit(Shifted(mask, shift), shift + (j - 1)) = p * Digit(mask, j - 1)
    <3>1. p * 0 = 0
      BY <1>1
    <3> HIDE DEF p
    <3> QED
      BY <2>4, <2>5, <3>1 DEF Digit
  <2>7. /\ low[j - 1] \in Nat /\ Digit(mask, j - 1) \in Nat
        /\ \A x, y, z \in Nat : x * y + x * z = x * (y + z)
    BY <1>1, <2>1, <2>5 DEF Digit
  <2>8. moved[shift + j] = p * low[j]
    <3> HIDE DEF moved, low, p
    <3> QED
      BY <1>1, <2>2, <2>3, <2>6, <2>7
  <2> HIDE DEF moved, low, p
  <2> QED
    BY <2>1, <2>8
<1>6. \A j \in 0..(WindowSize - shift) : j \in Good
  <2> HIDE DEF Good
  <2> QED
    BY <1>1, <1>4, <1>5, Climb
<1> QED
  BY <1>6

\* Shifting and cutting the number shifts and cuts the mask: what leaves the window
\* is a multiple of 2^WindowSize.
LEMMA NumberOfShifted ==
    ASSUME NEW mask \in SUBSET Bits, NEW shift \in Nat
    PROVE  NumberShifted(Number(mask), shift) = Number(Shifted(mask, shift))
<1>1. WindowSize \in Nat
  BY WindowSizeAssumption
<1>2. CASE shift >= WindowSize
  <2>1. \A bit \in Bits : bit - shift \notin Bits
    BY <1>1, <1>2 DEF Bits
  <2>2. Shifted(mask, shift) = {}
    BY <2>1 DEF Shifted
  <2> QED
    BY <1>2, <2>2, NoDigits DEF NumberShifted
<1>3. CASE shift < WindowSize
  <2> DEFINE rest == WindowSize - shift
             low == LowDigits(mask)
             p == 2^shift
             t == 2^rest
  <2>1. /\ rest \in Nat /\ rest \in 0..WindowSize /\ rest \in 0..(WindowSize - shift)
        /\ shift \in 0..WindowSize /\ shift + rest = WindowSize /\ rest + shift = WindowSize
        /\ WindowSize - rest = shift /\ shift \in 0..(WindowSize - rest)
    BY <1>1, <1>3
  <2>2. p \in Nat \ {0} /\ t \in Nat \ {0} /\ 2^WindowSize = p * t
        /\ 2^WindowSize \in Nat \ {0}
    <3>1. 2^(shift + rest) = 2^shift * 2^rest
      BY <2>1, PowerOfSum
    <3> QED
      BY <1>1, <2>1, <3>1, PowersOfTwo
  <2>3. PICK high \in Nat : low[WindowSize] = low[rest] + t * high
    <3>1. \E high \in Nat : low[rest + shift] = low[rest] + 2^rest * high
      BY <2>1, DigitsAbove
    <3> QED
      BY <2>1, <3>1
  <2>4. low[rest] \in 0..(t - 1)
    BY <2>1, DigitsFit
  <2>5. Number(Shifted(mask, shift)) = p * low[rest]
    <3>1. LowDigits(Shifted(mask, shift))[shift + rest] = p * low[rest]
      BY <2>1, DigitsShifted
    <3> QED
      BY <2>1, <3>1 DEF Number
  <2> DEFINE a == low[rest]
  <2>6. Number(mask) * p = p * a + (p * t) * high
    <3>1. \A x, y, z, h \in Nat : (y + z * h) * x = x * y + (x * z) * h
      OBVIOUS
    <3>2. Number(mask) = a + t * high /\ a \in Nat
      BY <2>2, <2>3, <2>4 DEF Number
    <3> HIDE DEF p, t, a
    <3> QED
      BY <2>2, <3>1, <3>2
  <2>7. p * a \in 0..(2^WindowSize - 1)
    <3>1. a \in Nat /\ a + 1 <= t
      BY <2>2, <2>4
    <3>2. p * (a + 1) <= p * t
      <4> HIDE DEF p, t, a
      <4>1. \A x, y, z \in Nat : y <= z => x * y <= x * z
        OBVIOUS
      <4> QED
        BY <2>2, <3>1, <4>1
    <3>3. p * (a + 1) = p * a + p /\ p * a \in Nat
      <4> HIDE DEF p, t, a
      <4> QED
        BY <2>2, <3>1
    <3> DEFINE pa == p * a
               pt == p * t
    <3>4. pa + p <= pt /\ pa \in Nat /\ pt = 2^WindowSize
      BY <2>2, <3>2, <3>3
    <3> HIDE DEF p, pa, pt
    <3>5. pa \in 0..(pt - 1)
      BY <2>2, <3>4
    <3> QED
      BY <3>4, <3>5 DEF pa
  <2>8. (p * a + 2^WindowSize * high) % 2^WindowSize = p * a
    <3> DEFINE pa == p * a
               w == 2^WindowSize
    <3>1. pa \in 0..(w - 1) /\ w \in Nat \ {0}
      BY <2>2, <2>7
    <3> HIDE DEF pa, w
    <3>2. (pa + w * high) % w = pa
      BY <3>1, Division
    <3> QED
      BY <3>2 DEF pa, w
  <2>9. NumberShifted(Number(mask), shift) = (Number(mask) * p) % 2^WindowSize
    BY <1>1, <1>3 DEF NumberShifted
  <2> HIDE DEF p, t, low, rest
  <2> QED
    BY <2>2, <2>5, <2>6, <2>8, <2>9
<1> QED
  BY <1>1, <1>2, <1>3

\* Recording the first number leaves the number one.
LEMMA FirstBit == Number({0}) = 1
<1>1. 0 \in Bits
  BY WindowSizeAssumption DEF Bits
<1>2. ~HasBit(Number({}), 0)
  BY <1>1, BitOfNumber
<1>3. {} \cup {0} = {0} /\ 0 + 1 = 1
  OBVIOUS
<1>4. WithBit(Number({}), 0) = Number({} \cup {0})
  BY <1>1, BitAdded
<1> QED
  BY <1>2, <1>3, <1>4, NoDigits, PowersOfTwo DEF WithBit

\* In every reachable window and for every number, the integer arithmetic of check()
\* and record() decides what the set of one-bits decides and leaves the same mask.
THEOREM BitsAreArithmetic == Spec => []ArithmeticIsBits
<1>1. IndInv => ArithmeticIsBits
  <2> SUFFICES ASSUME IndInv, NEW seq \in Inputs
               PROVE  /\ NumberAccepts(win.max_seq, Number(win.seen_mask), seq)
                            <=> Accepts(win, seq)
                      /\ Accepts(win, seq) =>
                            NumberRecord(win.max_seq, Number(win.seen_mask), seq)
                              = <<Record(win, seq).max_seq,
                                  Number(Record(win, seq).seen_mask)>>
    BY DEF ArithmeticIsBits
  <2> DEFINE top == win.max_seq
             mask == win.seen_mask
             n == Number(mask)
  <2>1. /\ seq \in Int /\ top \in Nat \cup {-1} /\ mask \in SUBSET Bits
        /\ WindowSize \in Nat \ {0}
    BY InputsAssumption, WindowSizeAssumption DEF IndInv, TypeOK, Windows
  <2>2. ASSUME seq >= 0, seq <= top, top - seq < WindowSize
        PROVE  top - seq \in Bits
    BY <2>1, <2>2 DEF Bits
  <2>3. ASSUME seq >= 0, seq <= top, top - seq < WindowSize
        PROVE  HasBit(n, top - seq) <=> top - seq \in mask
    BY <2>2, <2>3, BitOfNumber
  <2>4. NumberAccepts(top, n, seq) <=> Accepts(win, seq)
    <3>1. Accepts(win, seq) <=>
            /\ seq >= 0
            /\ \/ top = -1
               \/ seq > top
               \/ top - seq < WindowSize /\ top - seq \notin mask
      BY <2>1 DEF Accepts, Check, Acceptances
    <3> HIDE DEF n, mask, top
    <3> QED
      BY <2>1, <2>3, <3>1 DEF NumberAccepts
  <2>5. ASSUME Accepts(win, seq)
        PROVE  NumberRecord(top, n, seq)
                 = <<Record(win, seq).max_seq, Number(Record(win, seq).seen_mask)>>
    <3>1. CASE top = -1
      BY <3>1, FirstBit DEF NumberRecord, Record
    <3>2. CASE top # -1 /\ seq > top
      <4>1. seq - top \in Nat /\ 0 \in Bits
        BY <2>1, <3>2 DEF Bits
      <4>2. NumberShifted(n, seq - top) = Number(Shifted(mask, seq - top))
        BY <2>1, <4>1, NumberOfShifted
      <4>3. WithBit(Number(Shifted(mask, seq - top)), 0)
              = Number(Shifted(mask, seq - top) \cup {0})
        BY <4>1, BitAdded
      <4>4. Record(win, seq) = [max_seq |-> seq,
                                seen_mask |-> Shifted(mask, seq - top) \cup {0}]
        BY <3>2 DEF Record
      <4> QED
        BY <3>2, <4>2, <4>3, <4>4 DEF NumberRecord
    <3>3. CASE top # -1 /\ seq <= top
      <4>1. seq >= 0 /\ top - seq < WindowSize
        BY <2>1, <2>5, <3>3 DEF Accepts, Check, Acceptances
      <4>2. WithBit(n, top - seq) = Number(mask \cup {top - seq})
        BY <2>2, <3>3, <4>1, BitAdded
      <4>3. Record(win, seq).max_seq = top
            /\ Record(win, seq).seen_mask = mask \cup {top - seq}
        BY <2>1, <3>3 DEF Record, IndInv, TypeOK, Windows
      <4> QED
        BY <2>1, <3>3, <4>2, <4>3 DEF NumberRecord
    <3> QED
      BY <2>1, <3>1, <3>2, <3>3
  <2> QED
    BY <2>4, <2>5
<1> QED
  BY Inductive, <1>1, PTL
=============================================================================
