--------------------------- MODULE FramingProofs ----------------------------
(***************************************************************************)
(* The parser of frames over any bytes, any size of a byte, of the length  *)
(* field and of a frame: it is defined on every buffer, what it finds does *)
(* not depend on how the stream was cut into reads, it holds back less     *)
(* than one frame, undamaged frames all arrive, and damage has a reach.    *)
(***************************************************************************)
EXTENDS Framing, FiniteSetTheorems, SequenceTheorems, WellFoundedInduction, TLAPS

-----------------------------------------------------------------------------
\* Every nonempty set of natural numbers has a least member.
LEMMA LeastNumber ==
    ASSUME NEW S, S \subseteq Nat, S # {}
    PROVE  \E m \in S : \A k \in S : m <= k
<1> DEFINE Below(n) == 0..(n - 1)
           T == {Below(n) : n \in S}
<1>1. T \subseteq FiniteSubsetsOf(Nat) /\ T # {}
  <2>1. ASSUME NEW n \in S
        PROVE  Below(n) \in FiniteSubsetsOf(Nat)
    BY FS_Interval DEF FiniteSubsetsOf
  <2> QED
    BY <2>1
<1>2. PICK x \in T : \A y \in T : <<y, x>> \notin StrictSubsetOrdering(Nat)
  BY <1>1, FS_StrictSubsetOrderingWellFounded, WFMin
<1>3. PICK m \in S : x = Below(m)
  OBVIOUS
<1>4. ASSUME NEW k \in S, k < m
      PROVE  FALSE
  <2>1. /\ Below(k) \subseteq x /\ Below(k) # x
        /\ Below(k) \in SUBSET Nat /\ x \in SUBSET Nat
    BY <1>3, <1>4
  <2>2. <<Below(k), x>> \in StrictSubsetOrdering(Nat)
    BY <2>1 DEF StrictSubsetOrdering
  <2> QED
    BY <1>2, <1>4, <2>2
<1> QED
  BY <1>4

\* A set of buffers that is not empty has one of the shortest.
LEMMA ShortestBuffer ==
    ASSUME NEW S, S \subseteq Seq(Int), S # {}
    PROVE  \E b \in S : \A c \in Seq(Int) : Len(c) < Len(b) => c \notin S
<1>1. {Len(b) : b \in S} \subseteq Nat /\ {Len(b) : b \in S} # {}
  <2>1. ASSUME NEW b \in S
        PROVE  Len(b) \in Nat
    <3>1. b \in Seq(Int)
      OBVIOUS
    <3> QED
      BY <3>1, LenProperties
  <2> QED
    BY <2>1
<1>2. PICK m \in {Len(b) : b \in S} : \A k \in {Len(b) : b \in S} : m <= k
  BY <1>1, LeastNumber
<1>3. PICK b \in S : m = Len(b)
  BY <1>2
<1>4. ASSUME NEW c \in Seq(Int), Len(c) < Len(b), c \in S
      PROVE  FALSE
  <2>1. Len(c) \in Nat /\ Len(b) \in Nat /\ Len(b) <= Len(c)
    BY <1>1, <1>2, <1>3, <1>4
  <2> QED
    BY <1>4, <2>1
<1> QED
  BY <1>4

\* f counts up to N from a value, each step depending on the value before.
Counts(f, N, S, first, step) ==
    f \in [0..N -> S] /\ f[0] = first /\ \A k \in 1..N : f[k] = step[k][f[k - 1]]

\* Counting up to N from a value, each step depending on the value before, is possible
\* in one way: what the recursive functions of the length field and of the stream are.
LEMMA StepByStep ==
    ASSUME NEW N \in Nat, NEW S, NEW first \in S, NEW step \in [1..N -> [S -> S]]
    PROVE  \E f : Counts(f, N, S, first, step)
<1> DEFINE Steps(n, f) == f[0] = first /\ \A k \in 1..n : f[k] = step[k][f[k - 1]]
           Stuck == {n \in 0..N : ~\E f \in [0..N -> S] : Steps(n, f)}
<1>1. SUFFICES Stuck = {}
  <2>1. N \in 0..N
    OBVIOUS
  <2>2. PICK f \in [0..N -> S] : Steps(N, f)
    BY <1>1, <2>1
  <2> QED
    BY <2>2 DEF Counts
<1>2. SUFFICES ASSUME Stuck # {}
               PROVE  FALSE
  OBVIOUS
<1>3. PICK n \in Stuck : \A k \in Stuck : n <= k
  <2>1. Stuck \subseteq Nat
    OBVIOUS
  <2> HIDE DEF Stuck
  <2> QED
    BY <1>2, <2>1, LeastNumber
<1>4. n # 0
  <2>1. [k \in 0..N |-> first] \in [0..N -> S] /\ Steps(0, [k \in 0..N |-> first])
    OBVIOUS
  <2> QED
    BY <2>1
<1>5. n \in 1..N /\ n - 1 \in 0..N /\ n - 1 \notin Stuck
  <2>1. n \in 0..N
    OBVIOUS
  <2>2. ~(n <= n - 1) /\ n \in 1..N /\ n - 1 \in 0..N
    BY <1>4, <2>1
  <2> HIDE DEF Stuck
  <2> QED
    BY <1>3, <2>2
<1>6. PICK f \in [0..N -> S] : Steps(n - 1, f)
  BY <1>5
<1> DEFINE g == [f EXCEPT ![n] = step[n][f[n - 1]]]
<1>7. g \in [0..N -> S]
  BY <1>5, <1>6
<1>8. Steps(n, g)
  <2>1. g[0] = first
    BY <1>5, <1>6
  <2>2. ASSUME NEW k \in 1..n
        PROVE  g[k] = step[k][g[k - 1]]
    BY <1>5, <1>6, k \in 1..N, k - 1 \in 0..N, k - 1 # n
  <2> QED
    BY <2>1, <2>2
<1> QED
  BY <1>5, <1>7, <1>8

\* Two countings that take the same steps up to n agree up to n.
Alike(n, f, g) == f[0] = g[0] /\ \A k \in 1..n : f[k - 1] = g[k - 1] => f[k] = g[k]

\* Two functions that start alike and take the same steps are the same.
LEMMA SameSteps ==
    ASSUME NEW n \in Nat, NEW f, NEW g, Alike(n, f, g)
    PROVE  \A k \in 0..n : f[k] = g[k]
<1> DEFINE Apart == {k \in 0..n : f[k] # g[k]}
<1>1. SUFFICES ASSUME Apart # {}
               PROVE  FALSE
  OBVIOUS
<1>2. PICK m \in Apart : \A k \in Apart : m <= k
  <2>1. Apart \subseteq Nat
    OBVIOUS
  <2> HIDE DEF Apart
  <2> QED
    BY <1>1, <2>1, LeastNumber
<1>3. m \in 1..n /\ m - 1 \in 0..n /\ m - 1 \notin Apart
  BY <1>2 DEF Alike
<1> QED
  BY <1>2, <1>3 DEF Alike

-----------------------------------------------------------------------------
\* Bytes a length may be read from.  Damage and noise make any.
Constants == /\ LenBytes \in Nat \ {0} /\ ByteSize \in Nat \ {0}
             /\ FRAME_ESC_XOR \in Nat \ {0} /\ MaxLength \in Nat \ {0}
             /\ FRAME_START \in Int /\ FRAME_END \in Int /\ FRAME_ESC \in Int

\* What the assumption says of the numbers.
LEMMA ConstantsTyped == Constants
<1>1. /\ ByteSize \in Nat \ {0} /\ LenBytes \in Nat \ {0} /\ MaxLength \in Nat \ {0}
      /\ Special \subseteq Byte /\ FRAME_ESC_XOR \in Byte \ {0}
  BY FramingAssumption
<1>2. FRAME_START \in Byte /\ FRAME_END \in Byte /\ FRAME_ESC \in Byte
  BY <1>1 DEF Special
<1> QED
  BY <1>1, <1>2 DEF Constants, Byte

AfterByte(b, i) == IF i <= Len(b) /\ b[i] = FRAME_ESC THEN i + 2 ELSE i + 1

\* The places where the bytes of the length end, one after the other.
LEMMA FieldEnds ==
    ASSUME NEW b
    PROVE  /\ FieldEnd(b) \in [0..LenBytes -> Nat]
           /\ FieldEnd(b)[0] = 2
           /\ \A k \in 1..LenBytes : FieldEnd(b)[k] = AfterByte(b, FieldEnd(b)[k - 1])
<1> DEFINE Ends(f) == [k \in 0..LenBytes |->
                         IF k = 0 THEN 2
                         ELSE LET i == f[k - 1]
                              IN  IF i <= Len(b) /\ b[i] = FRAME_ESC THEN i + 2 ELSE i + 1]
           step == [k \in 1..LenBytes |-> [i \in Nat |-> AfterByte(b, i)]]
<1>1. LenBytes \in Nat
  BY ConstantsTyped DEF Constants
<1>2. PICK f \in [0..LenBytes -> Nat] :
         f[0] = 2 /\ \A k \in 1..LenBytes : f[k] = step[k][f[k - 1]]
  <2>1. step \in [1..LenBytes -> [Nat -> Nat]] /\ 2 \in Nat
    BY DEF AfterByte
  <2>2. \E f : Counts(f, LenBytes, Nat, 2, step)
    <3> HIDE DEF step
    <3> QED
      BY <1>1, <2>1, StepByStep
  <2> QED
    BY <2>2 DEF Counts
<1>3. \A k \in 1..LenBytes : f[k] = AfterByte(b, f[k - 1])
  <2> SUFFICES ASSUME NEW k \in 1..LenBytes
               PROVE  f[k] = AfterByte(b, f[k - 1])
    OBVIOUS
  <2>1. k - 1 \in 0..LenBytes
    BY <1>1
  <2> QED
    BY <1>2, <2>1
<1>4. f = Ends(f)
  <2>1. ASSUME NEW k \in 0..LenBytes
        PROVE  f[k] = Ends(f)[k]
    <3>1. CASE k = 0
      BY <1>2, <3>1
    <3>2. CASE k # 0
      <4>1. k \in 1..LenBytes
        BY <1>1, <3>2
      <4> QED
        BY <1>3, <3>2, <4>1 DEF AfterByte
    <3> QED
      BY <3>1, <3>2
  <2> QED
    BY <2>1
<1>5. FieldEnd(b) = CHOOSE g : g = Ends(g)
  BY DEF FieldEnd
<1>6. FieldEnd(b) = Ends(FieldEnd(b))
  BY <1>4, <1>5
<1> DEFINE g == FieldEnd(b)
<1>7. /\ DOMAIN g = 0..LenBytes
      /\ g = [k \in 0..LenBytes |-> g[k]]
      /\ g[0] = 2
      /\ \A k \in 1..LenBytes : g[k] = AfterByte(b, g[k - 1])
  BY <1>1, <1>6 DEF AfterByte
<1>8. \A k \in 0..LenBytes : f[k] = g[k]
  <2> HIDE DEF g, step
  <2>1. Alike(LenBytes, f, g)
    BY <1>2, <1>3, <1>7 DEF Alike
  <2> QED
    BY <1>1, <2>1, SameSteps
<1>9. f = g
  <2> HIDE DEF g, step
  <2> QED
    BY <1>2, <1>7, <1>8
<1> QED
  BY <1>2, <1>7, <1>9

\* Each byte of the length takes one or two bytes of the buffer.
LEMMA FieldGrows ==
    ASSUME NEW b, NEW k \in 1..LenBytes
    PROVE  /\ FieldEnd(b)[k - 1] \in Nat /\ FieldEnd(b)[k] \in Nat
           /\ FieldEnd(b)[k] \in {FieldEnd(b)[k - 1] + 1, FieldEnd(b)[k - 1] + 2}
<1>1. k - 1 \in 0..LenBytes /\ k \in 0..LenBytes
  BY ConstantsTyped DEF Constants
<1>2. /\ FieldEnd(b)[k - 1] \in Nat /\ FieldEnd(b)[k] \in Nat
      /\ FieldEnd(b)[k] = AfterByte(b, FieldEnd(b)[k - 1])
  BY <1>1, FieldEnds
<1> QED
  BY <1>2 DEF AfterByte

\* The field starts at 2, and each of its bytes takes one place or two.
LEMMA FieldBounds ==
    ASSUME NEW b
    PROVE  \A k \in 0..LenBytes : /\ FieldEnd(b)[k] \in (2 + k)..(2 + 2 * k)
                                  /\ FieldEnd(b)[k] <= FieldEnd(b)[LenBytes]
<1> DEFINE Low == {k \in 0..LenBytes : FieldEnd(b)[k] \notin (2 + k)..(2 + 2 * k)}
           High == {k \in 0..LenBytes : ~(FieldEnd(b)[LenBytes - k] <= FieldEnd(b)[LenBytes])}
<1>0. LenBytes \in Nat /\ FieldEnd(b) \in [0..LenBytes -> Nat] /\ FieldEnd(b)[0] = 2
  BY ConstantsTyped, FieldEnds DEF Constants
<1>1. Low = {}
  <2> SUFFICES ASSUME Low # {}
               PROVE  FALSE
    OBVIOUS
  <2>1. PICK m \in Low : \A k \in Low : m <= k
    <3>1. Low \subseteq Nat
      OBVIOUS
    <3> HIDE DEF Low
    <3> QED
      BY <3>1, LeastNumber
  <2>2. m \in 1..LenBytes /\ m - 1 \in 0..LenBytes /\ m - 1 \notin Low
    BY <1>0, <2>1
  <2>3. FieldEnd(b)[m - 1] \in (2 + (m - 1))..(2 + 2 * (m - 1))
    BY <2>2
  <2>4. FieldEnd(b)[m] \in {FieldEnd(b)[m - 1] + 1, FieldEnd(b)[m - 1] + 2}
    BY <2>2, FieldGrows
  <2>5. FieldEnd(b)[m] \in (2 + m)..(2 + 2 * m)
    BY <2>2, <2>3, <2>4
  <2> QED
    BY <2>5
<1>2. High = {}
  <2> SUFFICES ASSUME High # {}
               PROVE  FALSE
    OBVIOUS
  <2>1. PICK m \in High : \A k \in High : m <= k
    <3>1. High \subseteq Nat
      OBVIOUS
    <3> HIDE DEF High
    <3> QED
      BY <3>1, LeastNumber
  <2>2. m \in 1..LenBytes /\ m - 1 \in 0..LenBytes /\ m - 1 \notin High
    BY <1>0, <2>1
  <2>3. LenBytes - m + 1 \in 1..LenBytes /\ LenBytes - (m - 1) = LenBytes - m + 1
        /\ (LenBytes - m + 1) - 1 = LenBytes - m
    BY <1>0, <2>2
  <2>4. FieldEnd(b)[LenBytes - m + 1] <= FieldEnd(b)[LenBytes]
    BY <2>2, <2>3
  <2>5. /\ FieldEnd(b)[LenBytes - m] \in Nat
        /\ FieldEnd(b)[LenBytes - m + 1] \in {FieldEnd(b)[LenBytes - m] + 1,
                                              FieldEnd(b)[LenBytes - m] + 2}
    BY <2>3, FieldGrows
  <2>6. FieldEnd(b)[LenBytes - m] <= FieldEnd(b)[LenBytes]
    BY <1>0, <2>4, <2>5
  <2> QED
    BY <2>6
<1>3. ASSUME NEW k \in 0..LenBytes
      PROVE  FieldEnd(b)[k] <= FieldEnd(b)[LenBytes]
  <2>1. LenBytes - k \in 0..LenBytes /\ LenBytes - (LenBytes - k) = k
    BY <1>0
  <2> QED
    BY <1>2, <2>1
<1> QED
  BY <1>1, <1>3

-----------------------------------------------------------------------------
\* The k-th byte of the length in b.
Digit(b, k) == LET i == FieldEnd(b)[k - 1]
               IN  IF b[i] = FRAME_ESC THEN Flipped(b[i + 1]) ELSE b[i]

\* The escape mask applied to a number is a number.
LEMMA FlippedTyped ==
    ASSUME NEW x \in Int
    PROVE  Flipped(x) \in Int
  BY ConstantsTyped DEF Flipped, Constants

\* The bytes that a length is read from are in the buffer.
LEMMA DigitsThere ==
    ASSUME NEW b \in Seq(Int), HasLength(b), NEW k \in 1..LenBytes
    PROVE  /\ FieldEnd(b)[k - 1] \in 1..Len(b)
           /\ FieldEnd(b)[k] <= Len(b) + 1
           /\ b[FieldEnd(b)[k - 1]] = FRAME_ESC => FieldEnd(b)[k - 1] + 1 \in 1..Len(b)
           /\ Digit(b, k) \in Int
<1> DEFINE i == FieldEnd(b)[k - 1]
<1>1. LenBytes \in Nat /\ Len(b) \in Nat /\ k - 1 \in 0..LenBytes /\ k \in 0..LenBytes
  BY ConstantsTyped, LenProperties DEF Constants
<1>2. FieldEnd(b)[k] <= Len(b) + 1 /\ i \in Nat /\ i >= 2
  <2>1. FieldEnd(b)[k] <= FieldEnd(b)[LenBytes] /\ FieldEnd(b)[LenBytes] <= Len(b) + 1
    BY <1>1, FieldBounds DEF HasLength
  <2>2. FieldEnd(b)[k] \in Nat /\ FieldEnd(b)[LenBytes] \in Nat
    BY <1>1, FieldEnds
  <2>3. i \in (2 + (k - 1))..(2 + 2 * (k - 1))
    BY <1>1, FieldBounds
  <2> QED
    BY <1>1, <2>1, <2>2, <2>3
<1>3. FieldEnd(b)[k] = AfterByte(b, i) /\ FieldEnd(b)[k] \in {i + 1, i + 2}
  BY FieldEnds, FieldGrows
<1>4. i \in 1..Len(b)
  BY <1>1, <1>2, <1>3
<1>5. b[i] = FRAME_ESC => i + 1 \in 1..Len(b)
  BY <1>1, <1>2, <1>3, <1>4 DEF AfterByte
<1>6. Digit(b, k) \in Int
  <2>1. b[i] \in Int /\ (b[i] = FRAME_ESC => b[i + 1] \in Int)
    BY <1>4, <1>5, ElementOfSeq
  <2> QED
    BY <2>1, FlippedTyped DEF Digit
<1> QED
  BY <1>2, <1>4, <1>5, <1>6

\* v adds up the bytes of the length in b, the first the most significant.
AddsUp(b, v) == /\ v \in [0..LenBytes -> Int]
                /\ v[0] = 0
                /\ \A k \in 1..LenBytes : v[k] = v[k - 1] * ByteSize + Digit(b, k)

\* The length is the number its bytes add up to, most significant first.
LEMMA LengthByDigits ==
    ASSUME NEW b \in Seq(Int), HasLength(b)
    PROVE  \E v : AddsUp(b, v) /\ LengthOf(b) = v[LenBytes]
<1> DEFINE Values(f) == [k \in 0..LenBytes |->
                           IF k = 0 THEN 0 ELSE f[k - 1] * ByteSize + Digit(b, k)]
           step == [k \in 1..LenBytes |-> [x \in Int |-> x * ByteSize + Digit(b, k)]]
           value == CHOOSE f : f = Values(f)
<1>1. LenBytes \in Nat /\ ByteSize \in Int
  BY ConstantsTyped DEF Constants
<1>2. PICK f \in [0..LenBytes -> Int] :
         f[0] = 0 /\ \A k \in 1..LenBytes : f[k] = step[k][f[k - 1]]
  <2>1. step \in [1..LenBytes -> [Int -> Int]] /\ 0 \in Int
    BY <1>1, DigitsThere
  <2>2. \E f : Counts(f, LenBytes, Int, 0, step)
    <3> HIDE DEF step
    <3> QED
      BY <1>1, <2>1, StepByStep
  <2> QED
    BY <2>2 DEF Counts
<1>3. \A k \in 1..LenBytes : f[k] = f[k - 1] * ByteSize + Digit(b, k)
  <2> SUFFICES ASSUME NEW k \in 1..LenBytes
               PROVE  f[k] = f[k - 1] * ByteSize + Digit(b, k)
    OBVIOUS
  <2>1. f[k - 1] \in Int
    BY <1>1
  <2> QED
    BY <1>2, <2>1
<1>4. f = Values(f)
  <2>1. ASSUME NEW k \in 0..LenBytes
        PROVE  f[k] = Values(f)[k]
    BY <1>1, <1>2, <1>3
  <2> QED
    BY <2>1
<1>5. value = Values(value)
  BY <1>4
<1>6. /\ DOMAIN value = 0..LenBytes
      /\ value = [k \in 0..LenBytes |-> value[k]]
      /\ value[0] = 0
      /\ \A k \in 1..LenBytes : value[k] = value[k - 1] * ByteSize + Digit(b, k)
  <2> HIDE DEF value
  <2>1. ASSUME NEW k \in 0..LenBytes
        PROVE  value[k] = IF k = 0 THEN 0 ELSE value[k - 1] * ByteSize + Digit(b, k)
    BY <1>5, Zenon
  <2>2. DOMAIN value = 0..LenBytes /\ value = [k \in 0..LenBytes |-> value[k]]
    BY <1>5
  <2> QED
    BY <1>1, <2>1, <2>2
<1>7. \A k \in 0..LenBytes : f[k] = value[k]
  <2> HIDE DEF value, step
  <2>1. Alike(LenBytes, f, value)
    BY <1>2, <1>3, <1>6 DEF Alike
  <2> QED
    BY <1>1, <2>1, SameSteps
<1>8. f = value
  <2> HIDE DEF value, step
  <2> QED
    BY <1>2, <1>6, <1>7
<1>9. LengthOf(b) = value[LenBytes]
  BY DEF LengthOf, Digit
<1> QED
  BY <1>2, <1>3, <1>8, <1>9 DEF AddsUp

\* The decoded length is an integer.
LEMMA LengthTyped ==
    ASSUME NEW b \in Seq(Int), HasLength(b)
    PROVE  LengthOf(b) \in Int /\ FieldEnd(b)[LenBytes] \in Nat /\ FrameSize(b) \in Int
<1>1. LenBytes \in 0..LenBytes
  BY ConstantsTyped DEF Constants
<1> QED
  BY <1>1, LengthByDigits, FieldEnds DEF AddsUp, FrameSize

\* What comes behind a length does not change it.
LEMMA LengthStays ==
    ASSUME NEW b \in Seq(Int), HasLength(b), NEW c \in Seq(Int), Len(b) <= Len(c),
           \A i \in 1..Len(b) : c[i] = b[i]
    PROVE  /\ HasLength(c)
           /\ FieldEnd(c)[LenBytes] = FieldEnd(b)[LenBytes]
           /\ LengthOf(c) = LengthOf(b)
<1>0. LenBytes \in Nat /\ Len(b) \in Nat /\ Len(c) \in Nat /\ LenBytes \in 0..LenBytes
  BY ConstantsTyped, LenProperties DEF Constants
<1>1. \A k \in 0..LenBytes : FieldEnd(b)[k] = FieldEnd(c)[k]
  <2>1. ASSUME NEW k \in 1..LenBytes, FieldEnd(b)[k - 1] = FieldEnd(c)[k - 1]
        PROVE  FieldEnd(b)[k] = FieldEnd(c)[k]
    <3> DEFINE i == FieldEnd(b)[k - 1]
    <3>1. i \in 1..Len(b)
      BY DigitsThere
    <3>2. FieldEnd(b)[k] = AfterByte(b, i) /\ FieldEnd(c)[k] = AfterByte(c, i)
      BY <2>1, FieldEnds
    <3> HIDE DEF i
    <3>3. AfterByte(b, i) = AfterByte(c, i)
      BY <1>0, <3>1 DEF AfterByte
    <3> QED
      BY <3>2, <3>3
  <2>2. FieldEnd(b)[0] = FieldEnd(c)[0]
    BY FieldEnds
  <2>3. Alike(LenBytes, FieldEnd(b), FieldEnd(c))
    BY <2>1, <2>2 DEF Alike
  <2> QED
    BY <1>0, <2>3, SameSteps
<1>2. HasLength(c)
  <2>1. FieldEnd(b)[LenBytes] <= Len(b) + 1 /\ FieldEnd(c)[LenBytes] = FieldEnd(b)[LenBytes]
    BY <1>0, <1>1 DEF HasLength
  <2>2. FieldEnd(b)[LenBytes] \in Nat
    BY <1>0, FieldEnds
  <2> QED
    BY <1>0, <2>1, <2>2 DEF HasLength
<1>3. ASSUME NEW k \in 1..LenBytes
      PROVE  Digit(b, k) = Digit(c, k)
  <2>1. FieldEnd(c)[k - 1] = FieldEnd(b)[k - 1]
    BY <1>0, <1>1
  <2>2. /\ FieldEnd(b)[k - 1] \in 1..Len(b)
        /\ b[FieldEnd(b)[k - 1]] = FRAME_ESC => FieldEnd(b)[k - 1] + 1 \in 1..Len(b)
    BY DigitsThere
  <2> QED
    BY <2>1, <2>2 DEF Digit
<1>4. PICK v : AddsUp(b, v) /\ LengthOf(b) = v[LenBytes]
  BY LengthByDigits
<1>5. PICK w : AddsUp(c, w) /\ LengthOf(c) = w[LenBytes]
  BY <1>2, LengthByDigits
<1>6. \A k \in 0..LenBytes : v[k] = w[k]
  <2>1. Alike(LenBytes, v, w)
    BY <1>3, <1>4, <1>5 DEF AddsUp, Alike
  <2> QED
    BY <1>0, <2>1, SameSteps
<1> QED
  BY <1>0, <1>1, <1>2, <1>4, <1>5, <1>6

-----------------------------------------------------------------------------
\* The first start marker of b is at m.
StartAt(b, m) == /\ m \in 1..Len(b)
                 /\ b[m] = FRAME_START
                 /\ \A i \in 1..(m - 1) : b[i] # FRAME_START

\* A buffer with a start marker has a first one.
LEMMA FirstStart ==
    ASSUME NEW S, NEW b \in Seq(S)
    PROVE  \/ /\ \A i \in 1..Len(b) : b[i] # FRAME_START
              /\ FromStart(b) = <<>>
           \/ \E m : StartAt(b, m) /\ FromStart(b) = SubSeq(b, m, Len(b))
<1> DEFINE Starts == {i \in 1..Len(b) : b[i] = FRAME_START}
<1>0. Len(b) \in Nat
  BY LenProperties
<1>1. CASE Starts = {}
  BY <1>1 DEF FromStart, Contains
<1>2. CASE Starts # {}
  <2>1. Starts \subseteq Nat
    OBVIOUS
  <2>2. PICK m \in Starts : \A k \in Starts : m <= k
    <3> HIDE DEF Starts
    <3> QED
      BY <1>2, <2>1, LeastNumber
  <2>3. Min(Starts) = m
    <3>1. \A x \in Starts : (\A k \in Starts : x <= k) => x = m
      BY <2>1, <2>2
    <3> HIDE DEF Starts
    <3> QED
      BY <2>2, <3>1 DEF Min
  <2>4. SelectInSeq(b, LAMBDA x : x = FRAME_START) = m
    BY <1>2, <2>3 DEF SelectInSeq
  <2>5. FromStart(b) = SubSeq(b, m, Len(b))
    BY <2>2, <2>4 DEF FromStart, Contains
  <2>6. StartAt(b, m)
    BY <1>0, <2>2 DEF StartAt
  <2> QED
    BY <2>5, <2>6
<1> QED
  BY <1>1, <1>2

\* There is only one first start marker.
LEMMA StartIsUnique ==
    ASSUME NEW S, NEW b \in Seq(S), NEW m, NEW n, StartAt(b, m), StartAt(b, n)
    PROVE  m = n
<1>1. Len(b) \in Nat /\ m \in 1..Len(b) /\ n \in 1..Len(b)
  BY LenProperties DEF StartAt
<1>2. ~(m < n) /\ ~(n < m)
  BY <1>1 DEF StartAt
<1> QED
  BY <1>1, <1>2

\* Junk goes, and what is left begins with a start marker.
LEMMA FromStartTyped ==
    ASSUME NEW S, NEW b \in Seq(S)
    PROVE  /\ FromStart(b) \in Seq(S)
           /\ Len(FromStart(b)) <= Len(b)
           /\ FromStart(b) # <<>> => FromStart(b)[1] = FRAME_START
<1>0. Len(b) \in Nat
  BY LenProperties
<1>1. CASE FromStart(b) = <<>>
  BY <1>0, <1>1, EmptySeq
<1>2. CASE FromStart(b) # <<>>
  <2>1. PICK m : StartAt(b, m) /\ FromStart(b) = SubSeq(b, m, Len(b))
    BY <1>2, FirstStart
  <2>2. m \in 1..Len(b) /\ m \in Int /\ \A i \in m..Len(b) : b[i] \in S
    BY <1>0, <2>1, ElementOfSeq DEF StartAt
  <2>3. /\ FromStart(b) \in Seq(S)
        /\ Len(FromStart(b)) = Len(b) - m + 1
        /\ FromStart(b)[1] = b[m]
    BY <1>0, <2>1, <2>2, SubSeqProperties
  <2> QED
    BY <1>0, <2>1, <2>2, <2>3 DEF StartAt
<1> QED
  BY <1>1, <1>2

\* What begins with a start marker has no junk to drop.
LEMMA FromStartSame ==
    ASSUME NEW S, NEW b \in Seq(S), b # <<>>, b[1] = FRAME_START
    PROVE  FromStart(b) = b
<1>1. Len(b) \in Nat /\ 1 \in 1..Len(b)
  BY EmptySeq
<1>2. StartAt(b, 1)
  BY <1>1 DEF StartAt
<1>3. PICK m : StartAt(b, m) /\ FromStart(b) = SubSeq(b, m, Len(b))
  BY <1>1, FirstStart
<1>4. m = 1
  BY <1>2, <1>3, StartIsUnique
<1> QED
  BY <1>3, <1>4, SubSeqFull

\* Junk is judged alike before and after more bytes come.
LEMMA FromStartAppended ==
    ASSUME NEW S, NEW a \in Seq(S), NEW t \in Seq(S)
    PROVE  FromStart(a \o t) = IF FromStart(a) = <<>> THEN FromStart(t) ELSE FromStart(a) \o t
<1> DEFINE b == a \o t
<1>0. /\ Len(a) \in Nat /\ Len(t) \in Nat
      /\ b \in Seq(S) /\ Len(b) = Len(a) + Len(t)
      /\ \A i \in 1..Len(b) : b[i] = IF i <= Len(a) THEN a[i] ELSE t[i - Len(a)]
  BY LenProperties, ConcatProperties
<1> HIDE DEF b
<1>1. CASE FromStart(a) = <<>>
  <2>1. \A i \in 1..Len(a) : a[i] # FRAME_START
    <3>1. ASSUME NEW m, StartAt(a, m), FromStart(a) = SubSeq(a, m, Len(a))
          PROVE  FALSE
      <4>1. m \in 1..Len(a) /\ m \in Int /\ \A i \in m..Len(a) : a[i] \in S
        BY <1>0, <3>1, ElementOfSeq DEF StartAt
      <4>2. Len(FromStart(a)) = Len(a) - m + 1
        BY <1>0, <3>1, <4>1, SubSeqProperties
      <4> QED
        BY <1>0, <1>1, <4>1, <4>2
    <3> QED
      BY <3>1, FirstStart
  <2>2. CASE FromStart(t) = <<>> /\ \A i \in 1..Len(t) : t[i] # FRAME_START
    <3>1. \A i \in 1..Len(b) : b[i] # FRAME_START
      BY <1>0, <2>1, <2>2
    <3>2. FromStart(b) = <<>>
      BY <1>0, <3>1, FirstStart DEF StartAt
    <3> QED
      BY <1>1, <2>2, <3>2 DEF b
  <2>3. ASSUME NEW m, StartAt(t, m), FromStart(t) = SubSeq(t, m, Len(t))
        PROVE  FromStart(b) = FromStart(t)
    <3>1. m \in 1..Len(t)
      BY <2>3 DEF StartAt
    <3>2. StartAt(b, m + Len(a))
      <4>1. m + Len(a) \in 1..Len(b) /\ ~(m + Len(a) <= Len(a)) /\ (m + Len(a)) - Len(a) = m
        BY <1>0, <3>1
      <4>2. b[m + Len(a)] = FRAME_START
        BY <1>0, <2>3, <4>1 DEF StartAt
      <4>3. ASSUME NEW i \in 1..(m + Len(a) - 1)
            PROVE  b[i] # FRAME_START
        <5>1. i \in 1..Len(b)
          BY <1>0, <3>1
        <5>2. CASE i <= Len(a)
          BY <1>0, <2>1, <3>1, <5>1, <5>2
        <5>3. CASE ~(i <= Len(a))
          <6>1. i - Len(a) \in 1..(m - 1)
            BY <1>0, <3>1, <5>3
          <6> QED
            BY <1>0, <2>3, <5>1, <5>3, <6>1 DEF StartAt
        <5> QED
          BY <5>2, <5>3
      <4> QED
        BY <4>1, <4>2, <4>3 DEF StartAt
    <3>3. FromStart(b) = SubSeq(b, m + Len(a), Len(b))
      BY <1>0, <3>2, FirstStart, StartIsUnique DEF StartAt
    <3>4. SubSeq(b, m + Len(a), Len(b)) = SubSeq(t, m, Len(t))
      <4> DEFINE from == m + Len(a)
                 to == Len(b)
      <4>1. from \in Len(a) + 1 .. Len(a) + Len(t) /\ to \in Len(a) + 1 .. Len(a) + Len(t)
        BY <1>0, <3>1
      <4>2. from - Len(a) = m /\ to - Len(a) = Len(t)
        BY <1>0, <3>1
      <4> HIDE DEF from, to
      <4>3. SubSeq(a \o t, from, to) = SubSeq(t, from - Len(a), to - Len(a))
        BY <4>1, SubSeqOfConcat2
      <4> QED
        BY <4>2, <4>3 DEF b, from, to
    <3> QED
      BY <2>3, <3>3, <3>4
  <2> QED
    BY <1>1, <2>2, <2>3, FirstStart DEF b
<1>2. CASE FromStart(a) # <<>>
  <2>1. PICK m : StartAt(a, m) /\ FromStart(a) = SubSeq(a, m, Len(a))
    BY <1>2, FirstStart
  <2>2. m \in 1..Len(a)
    BY <2>1 DEF StartAt
  <2>3. StartAt(b, m)
    <3>1. m \in 1..Len(b) /\ \A i \in 1..m : i \in 1..Len(b) /\ i <= Len(a)
      BY <1>0, <2>2
    <3>2. m \in 1..m /\ \A i \in 1..(m - 1) : i \in 1..m
      BY <2>2
    <3>3. \A i \in 1..m : b[i] = a[i]
      BY <1>0, <3>1
    <3> QED
      BY <2>1, <3>1, <3>2, <3>3 DEF StartAt
  <2>4. FromStart(b) = SubSeq(b, m, Len(b))
    BY <1>0, <2>3, FirstStart, StartIsUnique DEF StartAt
  <2>5. SubSeq(b, m, Len(b)) = SubSeq(a, m, Len(a)) \o t
    <3> DEFINE x == SubSeq(b, m, Len(b))
               y == SubSeq(a, m, Len(a))
    <3>1. \A i \in m..Len(b) : b[i] \in S
      BY <1>0, <2>2, ElementOfSeq
    <3>2. \A i \in m..Len(a) : a[i] \in S
      BY <1>0, <2>2, ElementOfSeq
    <3>3. m \in Int /\ Len(b) \in Int /\ Len(a) \in Int /\ m <= Len(a) /\ m <= Len(b)
      BY <1>0, <2>2
    <3>4. /\ x \in Seq(S) /\ Len(x) = Len(b) - m + 1
          /\ \A i \in 1..(Len(b) - m + 1) : x[i] = b[m + i - 1]
      BY <3>1, <3>3, SubSeqProperties
    <3>5. /\ y \in Seq(S) /\ Len(y) = Len(a) - m + 1
          /\ \A i \in 1..(Len(a) - m + 1) : y[i] = a[m + i - 1]
      BY <3>2, <3>3, SubSeqProperties
    <3> HIDE DEF x, y
    <3>6. /\ y \o t \in Seq(S) /\ Len(y \o t) = Len(y) + Len(t)
          /\ \A i \in 1..(Len(y) + Len(t)) : (y \o t)[i] = IF i <= Len(y) THEN y[i] ELSE t[i - Len(y)]
      BY <3>5, ConcatProperties
    <3>7. Len(x) = Len(y \o t) /\ Len(x) = Len(y) + Len(t) /\ Len(x) \in Nat
      BY <1>0, <2>2, <3>4, <3>5, <3>6
    <3>8. ASSUME NEW i \in 1..Len(x)
          PROVE  x[i] = (y \o t)[i]
      <4>1. i \in 1..(Len(b) - m + 1) /\ m + i - 1 \in 1..Len(b)
        BY <1>0, <2>2, <3>4
      <4>2. x[i] = IF m + i - 1 <= Len(a) THEN a[m + i - 1] ELSE t[(m + i - 1) - Len(a)]
        BY <1>0, <3>4, <4>1
      <4>3. CASE i <= Len(y)
        <5>1. i \in 1..(Len(a) - m + 1) /\ m + i - 1 <= Len(a)
          BY <1>0, <2>2, <3>5, <4>3
        <5> QED
          BY <3>5, <3>6, <3>7, <4>2, <4>3, <5>1
      <4>4. CASE ~(i <= Len(y))
        <5>1. ~(m + i - 1 <= Len(a)) /\ (m + i - 1) - Len(a) = i - Len(y)
          BY <1>0, <2>2, <3>5, <4>4
        <5> QED
          BY <3>6, <3>7, <4>2, <4>4, <5>1
      <4> QED
        BY <4>3, <4>4
    <3>9. x = y \o t
      BY <3>4, <3>6, <3>7, <3>8, SeqEqual
    <3> QED
      BY <3>9 DEF x, y
  <2> QED
    BY <1>2, <2>1, <2>4, <2>5 DEF b
<1> QED
  BY <1>1, <1>2

-----------------------------------------------------------------------------
\* What the parser does with a buffer without junk: it waits for more bytes, drops the
\* start marker and tries again, or takes a frame and goes on behind it.
Waits(s) == \/ s = <<>> \/ ~HasLength(s)
            \/ ~BadLength(LengthOf(s)) /\ Len(s) < FrameSize(s)
Retries(s) == /\ s # <<>> /\ HasLength(s)
              /\ \/ BadLength(LengthOf(s))
                 \/ ~(Len(s) < FrameSize(s)) /\ s[FrameSize(s)] # FRAME_END
Framed(s) == /\ s # <<>> /\ HasLength(s) /\ ~BadLength(LengthOf(s))
             /\ ~(Len(s) < FrameSize(s)) /\ s[FrameSize(s)] = FRAME_END

Behind(s) == SubSeq(s, FrameSize(s) + 1, Len(s))

Nothing(s) == [frames |-> <<>>, rest |-> s]
Then(payload, found) == [frames |-> <<payload>> \o found.frames, rest |-> found.rest]

\* One pass of the loop, with f for the passes that follow.
Parse(f, b) == LET s == FromStart(b)
               IN  IF Waits(s) THEN Nothing(s)
                   ELSE IF Retries(s) THEN f[Tail(s)]
                   ELSE Then(PayloadOf(s), f[Behind(s)])

Found(S) == [frames : Seq(Seq(S)), rest : Seq(S)]

\* The parser waits, tries from the next byte, or takes a frame.
LEMMA OneOfThree ==
    ASSUME NEW s
    PROVE  /\ Waits(s) \/ Retries(s) \/ Framed(s)
           /\ Waits(s) => ~Retries(s) /\ ~Framed(s)
           /\ Retries(s) => ~Framed(s)
  BY DEF Waits, Retries, Framed

\* The length of a frame that is taken, and where the frame ends.
LEMMA SizeOfFrame ==
    ASSUME NEW s \in Seq(Int), HasLength(s), ~BadLength(LengthOf(s))
    PROVE  /\ LengthOf(s) \in 1..MaxLength
           /\ FieldEnd(s)[LenBytes] \in 2..(2 + 2 * LenBytes)
           /\ FrameSize(s) = FieldEnd(s)[LenBytes] + LengthOf(s)
<1>1. LenBytes \in Nat /\ MaxLength \in Nat /\ LenBytes \in 0..LenBytes
  BY ConstantsTyped DEF Constants
<1>2. FieldEnd(s)[LenBytes] \in (2 + LenBytes)..(2 + 2 * LenBytes)
  BY <1>1, FieldBounds
<1>3. LengthOf(s) \in Int
  BY LengthTyped
<1> QED
  BY <1>1, <1>2, <1>3 DEF BadLength, FrameSize

\* Each time the parser goes round its loop, the buffer gets shorter.
LEMMA PassesShorten ==
    ASSUME NEW S, S \subseteq Int, NEW s \in Seq(S)
    PROVE  /\ Retries(s) => Tail(s) \in Seq(S) /\ Len(Tail(s)) < Len(s)
           /\ Framed(s) => /\ Behind(s) \in Seq(S) /\ Len(Behind(s)) = Len(s) - FrameSize(s)
                           /\ \A i \in 1..(Len(s) - FrameSize(s)) :
                                 Behind(s)[i] = s[FrameSize(s) + i]
                           /\ PayloadOf(s) \in Seq(S)
                           /\ FrameSize(s) \in 3..Len(s)
<1>0. Len(s) \in Nat /\ s \in Seq(Int)
  BY LenProperties, SeqMonotonic
<1>1. ASSUME Retries(s)
      PROVE  Tail(s) \in Seq(S) /\ Len(Tail(s)) < Len(s)
  <2>1. s # <<>>
    BY <1>1 DEF Retries
  <2> QED
    BY <1>0, <2>1, HeadTailProperties
<1>2. ASSUME Framed(s)
      PROVE  /\ Behind(s) \in Seq(S) /\ Len(Behind(s)) = Len(s) - FrameSize(s)
             /\ \A i \in 1..(Len(s) - FrameSize(s)) : Behind(s)[i] = s[FrameSize(s) + i]
             /\ PayloadOf(s) \in Seq(S)
             /\ FrameSize(s) \in 3..Len(s)
  <2>1. /\ LengthOf(s) \in 1..MaxLength
        /\ FieldEnd(s)[LenBytes] \in 2..(2 + 2 * LenBytes)
        /\ FrameSize(s) = FieldEnd(s)[LenBytes] + LengthOf(s)
    BY <1>0, <1>2, SizeOfFrame DEF Framed
  <2>2. FrameSize(s) \in 3..Len(s) /\ FieldEnd(s)[LenBytes] \in 2..FrameSize(s)
    <3>1. LenBytes \in Nat /\ MaxLength \in Nat
      BY ConstantsTyped DEF Constants
    <3> QED
      BY <1>0, <1>2, <2>1, <3>1 DEF Framed
  <2>3. /\ \A i \in (FrameSize(s) + 1)..Len(s) : s[i] \in S
        /\ \A i \in FieldEnd(s)[LenBytes]..(FrameSize(s) - 1) : s[i] \in S
    <3>1. \A i \in (FrameSize(s) + 1)..Len(s) : i \in 1..Len(s)
      BY <1>0, <2>2
    <3>2. \A i \in FieldEnd(s)[LenBytes]..(FrameSize(s) - 1) : i \in 1..Len(s)
      BY <1>0, <2>2
    <3> QED
      BY <3>1, <3>2, ElementOfSeq
  <2>4. FrameSize(s) + 1 \in Int /\ FrameSize(s) - 1 \in Int /\ FieldEnd(s)[LenBytes] \in Int
    BY <2>2
  <2>5. PayloadOf(s) \in Seq(S)
    BY <2>3, <2>4, SubSeqProperties DEF PayloadOf
  <2>6. /\ Behind(s) \in Seq(S)
        /\ Len(Behind(s)) = IF FrameSize(s) + 1 <= Len(s) THEN Len(s) - (FrameSize(s) + 1) + 1 ELSE 0
        /\ \A i \in 1..(Len(s) - (FrameSize(s) + 1) + 1) :
              Behind(s)[i] = s[(FrameSize(s) + 1) + i - 1]
    BY <1>0, <2>3, <2>4, SubSeqProperties DEF Behind
  <2>7. Len(Behind(s)) = Len(s) - FrameSize(s)
    <3>1. FrameSize(s) + 1 <= Len(s) => Len(s) - (FrameSize(s) + 1) + 1 = Len(s) - FrameSize(s)
      BY <1>0, <2>2
    <3>2. ~(FrameSize(s) + 1 <= Len(s)) => 0 = Len(s) - FrameSize(s)
      BY <1>0, <2>2
    <3> QED
      BY <2>6, <3>1, <3>2
  <2>8. ASSUME NEW i \in 1..(Len(s) - FrameSize(s))
        PROVE  Behind(s)[i] = s[FrameSize(s) + i]
    <3>1. i \in 1..(Len(s) - (FrameSize(s) + 1) + 1) /\ (FrameSize(s) + 1) + i - 1 = FrameSize(s) + i
      BY <1>0, <2>2
    <3> QED
      BY <2>6, <3>1
  <2> QED
    BY <2>2, <2>5, <2>6, <2>7, <2>8
<1> QED
  BY <1>1, <1>2

\* A pass uses the passes that follow on shorter buffers only.
LEMMA ParseShortens ==
    ASSUME NEW b \in Seq(Int), NEW f, NEW g,
           \A c \in Seq(Int) : Len(c) < Len(b) => f[c] = g[c]
    PROVE  Parse(f, b) = Parse(g, b)
<1> DEFINE s == FromStart(b)
<1>1. s \in Seq(Int) /\ Len(s) <= Len(b) /\ Len(b) \in Nat /\ Len(s) \in Nat
  BY FromStartTyped, LenProperties
<1> HIDE DEF s
<1>2. Retries(s) => f[Tail(s)] = g[Tail(s)]
  <2> SUFFICES ASSUME Retries(s)
               PROVE  f[Tail(s)] = g[Tail(s)]
    OBVIOUS
  <2>1. Tail(s) \in Seq(Int) /\ Len(Tail(s)) < Len(s)
    BY <1>1, PassesShorten
  <2>2. Len(Tail(s)) < Len(b)
    BY <1>1, <2>1, LenProperties
  <2> QED
    BY <2>1, <2>2
<1>3. Framed(s) => f[Behind(s)] = g[Behind(s)]
  <2> SUFFICES ASSUME Framed(s)
               PROVE  f[Behind(s)] = g[Behind(s)]
    OBVIOUS
  <2>1. Behind(s) \in Seq(Int) /\ Len(Behind(s)) = Len(s) - FrameSize(s) /\ FrameSize(s) \in 3..Len(s)
    BY <1>1, PassesShorten
  <2>2. Len(Behind(s)) < Len(b)
    BY <1>1, <2>1
  <2> QED
    BY <2>1, <2>2
<1> QED
  BY <1>2, <1>3, OneOfThree DEF Parse, s

\* One pass of the parser finds sequences of bytes if the next ones do.
LEMMA ParseTyped ==
    ASSUME NEW S, S \subseteq Int, NEW b \in Seq(S), NEW f,
           \A c \in Seq(S) : Len(c) < Len(b) => f[c] \in Found(S)
    PROVE  Parse(f, b) \in Found(S)
<1> DEFINE s == FromStart(b)
<1>1. s \in Seq(S) /\ Len(s) <= Len(b) /\ Len(b) \in Nat /\ Len(s) \in Nat
  BY FromStartTyped, LenProperties
<1>2. Parse(f, b) = IF Waits(s) THEN Nothing(s)
                    ELSE IF Retries(s) THEN f[Tail(s)] ELSE Then(PayloadOf(s), f[Behind(s)])
  BY DEF Parse
<1> HIDE DEF s
<1>3. CASE Waits(s)
  <2>1. <<>> \in Seq(Seq(S))
    BY EmptySeq
  <2> QED
    BY <1>1, <1>2, <1>3, <2>1 DEF Nothing, Found
<1>4. CASE Retries(s)
  <2>1. Tail(s) \in Seq(S) /\ Len(Tail(s)) < Len(s) /\ Len(Tail(s)) \in Nat
    BY <1>1, <1>4, PassesShorten, LenProperties
  <2>2. Len(Tail(s)) < Len(b)
    BY <1>1, <2>1
  <2> QED
    BY <1>2, <1>4, <2>1, <2>2, OneOfThree
<1>5. CASE Framed(s)
  <2>1. /\ Behind(s) \in Seq(S) /\ Len(Behind(s)) = Len(s) - FrameSize(s)
        /\ FrameSize(s) \in 3..Len(s) /\ PayloadOf(s) \in Seq(S)
    BY <1>1, <1>5, PassesShorten
  <2>2. f[Behind(s)] \in Found(S)
    BY <1>1, <2>1
  <2>3. f[Behind(s)].frames \in Seq(Seq(S)) /\ f[Behind(s)].rest \in Seq(S)
    BY <2>2 DEF Found
  <2>4. <<PayloadOf(s)>> \o f[Behind(s)].frames \in Seq(Seq(S))
    <3>1. <<PayloadOf(s)>> \in Seq(Seq(S))
      BY <2>1
    <3> QED
      BY <2>3, <3>1, ConcatProperties
  <2> QED
    BY <1>2, <1>5, <2>3, <2>4, OneOfThree DEF Then, Found
<1> QED
  BY <1>3, <1>4, <1>5, OneOfThree

-----------------------------------------------------------------------------
\* f is the parser on buffers of up to n bytes.
Solves(n, f) == /\ f \in [Seq(Int) -> Found(Int)]
                /\ \A b \in Seq(Int) : Len(b) <= n => f[b] = Parse(f, b)

\* A parser of the buffers up to one length gives a parser of those one byte longer.
LEMMA SolvedOneFurther ==
    ASSUME NEW n \in Nat, NEW f \in [Seq(Int) -> Found(Int)], n = 0 \/ Solves(n - 1, f)
    PROVE  \E g : Solves(n, g)
<1> DEFINE g == [b \in Seq(Int) |-> IF Len(b) = n THEN Parse(f, b) ELSE f[b]]
<1>1. g \in [Seq(Int) -> Found(Int)]
  <2>1. ASSUME NEW b \in Seq(Int)
        PROVE  Parse(f, b) \in Found(Int)
    BY ParseTyped
  <2> QED
    BY <2>1
<1>2. \A c \in Seq(Int) : Len(c) < n => g[c] = f[c]
  OBVIOUS
<1>3. ASSUME NEW b \in Seq(Int), Len(b) <= n
      PROVE  g[b] = Parse(g, b)
  <2>0. Len(b) \in Nat
    BY LenProperties
  <2>1. g[b] = Parse(f, b)
    <3>1. CASE Len(b) = n
      BY <3>1
    <3>2. CASE Len(b) # n
      <4>1. n # 0 /\ Len(b) <= n - 1
        BY <1>3, <2>0, <3>2
      <4>2. f[b] = Parse(f, b)
        BY <4>1 DEF Solves
      <4> QED
        BY <3>2, <4>2
    <3> QED
      BY <3>1, <3>2
  <2>2. \A c \in Seq(Int) : Len(c) < Len(b) => f[c] = g[c]
    <3> SUFFICES ASSUME NEW c \in Seq(Int), Len(c) < Len(b)
                 PROVE  f[c] = g[c]
      OBVIOUS
    <3>1. Len(c) < n
      BY <1>3, <2>0, LenProperties
    <3> QED
      BY <1>2, <3>1
  <2> HIDE DEF g
  <2>3. Parse(f, b) = Parse(g, b)
    BY <2>2, ParseShortens
  <2> QED
    BY <2>1, <2>3
<1> HIDE DEF g
<1> QED
  BY <1>1, <1>3 DEF Solves

\* There is a parser of all buffers up to any length.
LEMMA SolvedForAll ==
    ASSUME NEW n \in Nat
    PROVE  \E f : Solves(n, f)
<1> DEFINE Unsolved == {k \in Nat : ~\E f : Solves(k, f)}
<1>1. SUFFICES ASSUME Unsolved # {}
               PROVE  FALSE
  OBVIOUS
<1>2. PICK m \in Unsolved : \A k \in Unsolved : m <= k
  <2>1. Unsolved \subseteq Nat
    OBVIOUS
  <2> HIDE DEF Unsolved
  <2> QED
    BY <1>1, <2>1, LeastNumber
<1>3. m \in Nat
  OBVIOUS
<1>4. \E f \in [Seq(Int) -> Found(Int)] : m = 0 \/ Solves(m - 1, f)
  <2>1. CASE m = 0
    <3>1. Nothing(<<>>) \in Found(Int)
      <4>1. <<>> \in Seq(Int) /\ <<>> \in Seq(Seq(Int))
        BY EmptySeq
      <4> QED
        BY <4>1 DEF Nothing, Found
    <3>2. [b \in Seq(Int) |-> Nothing(<<>>)] \in [Seq(Int) -> Found(Int)]
      BY <3>1
    <3> QED
      BY <2>1, <3>2
  <2>2. CASE m # 0
    <3>1. m - 1 \in Nat /\ ~(m <= m - 1)
      BY <1>3, <2>2
    <3>2. PICK f : Solves(m - 1, f)
      BY <1>2, <3>1
    <3> QED
      BY <3>2 DEF Solves
  <2> QED
    BY <2>1, <2>2
<1>5. \E g : Solves(m, g)
  BY <1>3, <1>4, SolvedOneFurther
<1> QED
  BY <1>5

\* Two parsers agree on every buffer that both are right about.
LEMMA SolvedAlike ==
    ASSUME NEW m \in Nat, NEW n \in Nat, NEW f, NEW g, Solves(m, f), Solves(n, g),
           NEW b \in Seq(Int), Len(b) <= m, Len(b) <= n
    PROVE  f[b] = g[b]
<1> DEFINE Apart == {c \in Seq(Int) : Len(c) <= m /\ Len(c) <= n /\ f[c] # g[c]}
<1>1. SUFFICES ASSUME Apart # {}
               PROVE  FALSE
  OBVIOUS
<1>2. PICK c \in Apart : \A d \in Seq(Int) : Len(d) < Len(c) => d \notin Apart
  <2>1. Apart \subseteq Seq(Int)
    OBVIOUS
  <2> HIDE DEF Apart
  <2> QED
    BY <1>1, <2>1, ShortestBuffer
<1>3. c \in Seq(Int) /\ Len(c) <= m /\ Len(c) <= n /\ f[c] # g[c] /\ Len(c) \in Nat
  BY LenProperties
<1>4. ASSUME NEW d \in Seq(Int), Len(d) < Len(c)
      PROVE  f[d] = g[d]
  <2>1. Len(d) <= m /\ Len(d) <= n
    BY <1>3, <1>4, LenProperties
  <2> QED
    BY <1>2, <1>4, <2>1
<1>5. Parse(f, c) = Parse(g, c)
  BY <1>3, <1>4, ParseShortens
<1> QED
  BY <1>3, <1>5 DEF Solves

\* The parser is defined on every buffer: it is what one pass makes of it, with the
\* parser itself for the passes that follow.
LEMMA ExtractIsParse == Extract = [b \in Seq(Int) |-> Parse(Extract, b)]
<1> DEFINE Body(f, b) ==
             LET s == FromStart(b)
                 Wait == [frames |-> <<>>, rest |-> s]
             IN  IF s = <<>> \/ ~HasLength(s) THEN Wait
                 ELSE IF BadLength(LengthOf(s)) THEN f[Resync(s)]
                 ELSE IF Len(s) < FrameSize(s) THEN Wait
                 ELSE IF s[FrameSize(s)] # FRAME_END THEN f[Resync(s)]
                 ELSE LET others == f[SubSeq(s, FrameSize(s) + 1, Len(s))]
                      IN  [frames |-> <<PayloadOf(s)>> \o others.frames,
                           rest   |-> others.rest]
           Whole == [b \in Seq(Int) |-> (CHOOSE f : Solves(Len(b), f))[b]]
<1>1. \A f, b : Body(f, b) = Parse(f, b)
  <2> SUFFICES ASSUME NEW f, NEW b
               PROVE  Body(f, b) = Parse(f, b)
    OBVIOUS
  <2> QED
    BY DEF Parse, Waits, Retries, Nothing, Then, Behind, Resync
<1>2. Extract = CHOOSE f : f = [b \in Seq(Int) |-> Body(f, b)]
  BY DEF Extract
<1> HIDE DEF Body
<1>3. ASSUME NEW b \in Seq(Int)
      PROVE  Whole[b] = Parse(Whole, b)
  <2> DEFINE f == CHOOSE f : Solves(Len(b), f)
  <2>0. Len(b) \in Nat
    BY LenProperties
  <2>1. Solves(Len(b), f)
    BY <2>0, SolvedForAll
  <2>2. Whole[b] = f[b]
    OBVIOUS
  <2>3. ASSUME NEW c \in Seq(Int), Len(c) < Len(b)
        PROVE  f[c] = Whole[c]
    <3> DEFINE g == CHOOSE g : Solves(Len(c), g)
    <3>1. Len(c) \in Nat /\ Len(c) <= Len(b) /\ Len(c) <= Len(c)
      BY <2>0, <2>3, LenProperties
    <3>2. Solves(Len(c), g)
      BY <3>1, SolvedForAll
    <3>3. Whole[c] = g[c]
      OBVIOUS
    <3> HIDE DEF f, g, Whole
    <3> QED
      BY <2>0, <2>1, <3>1, <3>2, <3>3, SolvedAlike
  <2> HIDE DEF f, Whole
  <2>4. Parse(f, b) = Parse(Whole, b)
    BY <2>3, ParseShortens
  <2>5. f[b] = Parse(f, b)
    BY <2>0, <2>1 DEF Solves
  <2> QED
    BY <2>2, <2>4, <2>5
<1>4. Whole = [b \in Seq(Int) |-> Body(Whole, b)]
  BY <1>1, <1>3
<1> HIDE DEF Whole
<1>5. Extract = [b \in Seq(Int) |-> Body(Extract, b)]
  BY <1>2, <1>4
<1> QED
  BY <1>1, <1>5

-----------------------------------------------------------------------------
\* What the parser makes of a buffer, case by case.
LEMMA ExtractCases ==
    ASSUME NEW b \in Seq(Int), NEW s, s = FromStart(b)
    PROVE  /\ Waits(s) => Extract[b] = Nothing(s)
           /\ Retries(s) => Extract[b] = Extract[Tail(s)]
           /\ Framed(s) => Extract[b] = Then(PayloadOf(s), Extract[Behind(s)])
<1>1. Extract[b] = Parse(Extract, b)
  BY ExtractIsParse
<1> QED
  BY <1>1, OneOfThree DEF Parse

\* Bytes in, bytes out.
LEMMA ExtractTyped ==
    ASSUME NEW S, S \subseteq Int, NEW b \in Seq(S)
    PROVE  Extract[b] \in Found(S)
<1> DEFINE Wrong == {c \in Seq(S) : Extract[c] \notin Found(S)}
<1>0. \A c \in Seq(S) : c \in Seq(Int)
  BY SeqMonotonic
<1>1. SUFFICES ASSUME Wrong # {}
               PROVE  FALSE
  OBVIOUS
<1>2. PICK c \in Wrong : \A d \in Seq(Int) : Len(d) < Len(c) => d \notin Wrong
  <2>1. Wrong \subseteq Seq(Int)
    BY <1>0
  <2> HIDE DEF Wrong
  <2> QED
    BY <1>1, <2>1, ShortestBuffer
<1>3. ASSUME NEW d \in Seq(S), Len(d) < Len(c)
      PROVE  Extract[d] \in Found(S)
  BY <1>0, <1>2, <1>3
<1>4. c \in Seq(S) /\ Extract[c] = Parse(Extract, c)
  BY <1>0, ExtractIsParse
<1>5. Parse(Extract, c) \in Found(S)
  BY <1>3, <1>4, ParseTyped
<1> QED
  BY <1>4, <1>5

\* What the parser finds is decided behind the junk.
LEMMA ExtractFromStart ==
    ASSUME NEW b \in Seq(Int), NEW c \in Seq(Int), FromStart(b) = FromStart(c)
    PROVE  Extract[b] = Extract[c]
  BY ExtractIsParse DEF Parse

\* What is left over after what was found, and then what is found in that with more bytes.
Joined(x, y) == [frames |-> x.frames \o y.frames, rest |-> y.rest]
InTwoReads(a, t) == Joined(Extract[a], Extract[Extract[a].rest \o t])

\* A parser that waits has lost nothing when more bytes come.
LEMMA WaitsInTwo ==
    ASSUME NEW a \in Seq(Int), NEW t \in Seq(Int), Waits(FromStart(a))
    PROVE  Extract[a \o t] = InTwoReads(a, t)
<1> DEFINE s == FromStart(a)
<1>1. s \in Seq(Int) /\ (s # <<>> => s[1] = FRAME_START) /\ a \o t \in Seq(Int) /\ s \o t \in Seq(Int)
  BY FromStartTyped, ConcatProperties
<1>2. Extract[a] = Nothing(s)
  BY ExtractCases
<1>3. FromStart(a \o t) = FromStart(s \o t)
  <2>1. CASE s = <<>>
    BY <2>1, FromStartAppended, ConcatEmptySeq
  <2>2. CASE s # <<>>
    <3>1. FromStart(s) = s
      BY <1>1, <2>2, FromStartSame
    <3>2. FromStart(a \o t) = s \o t
      BY <2>2, FromStartAppended
    <3> HIDE DEF s
    <3>3. FromStart(s \o t) = FromStart(s) \o t
      BY <1>1, <2>2, <3>1, FromStartAppended
    <3> QED
      BY <3>1, <3>2, <3>3
  <2> QED
    BY <2>1, <2>2
<1>4. Extract[a \o t] = Extract[s \o t]
  BY <1>1, <1>3, ExtractFromStart
<1> HIDE DEF s
<1> DEFINE y == Extract[s \o t]
<1>5. y \in Found(Int)
  BY <1>1, ExtractTyped
<1> HIDE DEF y
<1>6. y.frames \in Seq(Seq(Int)) /\ y = [frames |-> y.frames, rest |-> y.rest]
  BY <1>5 DEF Found
<1>7. <<>> \o y.frames = y.frames
  BY <1>6, ConcatEmptySeq
<1>8. InTwoReads(a, t) = [frames |-> <<>> \o y.frames, rest |-> y.rest]
  BY <1>2 DEF InTwoReads, Joined, Nothing, y
<1> QED
  BY <1>4, <1>6, <1>7, <1>8 DEF y

\* Bytes behind a finished frame, or behind a length that makes the parser start over,
\* change nothing of what it does.
LEMMA DecidedStays ==
    ASSUME NEW s \in Seq(Int), NEW t \in Seq(Int), NEW u, u = s \o t
    PROVE  /\ Retries(s) => Retries(u) /\ Tail(u) = Tail(s) \o t
           /\ Framed(s) => Framed(u) /\ PayloadOf(u) = PayloadOf(s) /\ Behind(u) = Behind(s) \o t
<1>0. /\ Len(s) \in Nat /\ Len(t) \in Nat /\ u \in Seq(Int) /\ Len(u) = Len(s) + Len(t)
      /\ \A i \in 1..Len(u) : u[i] = IF i <= Len(s) THEN s[i] ELSE t[i - Len(s)]
  BY LenProperties, ConcatProperties
<1>1. Len(s) <= Len(u) /\ Len(u) \in Nat /\ \A i \in 1..Len(s) : i \in 1..Len(u) /\ u[i] = s[i]
  <2>1. Len(s) <= Len(u) /\ Len(u) \in Nat /\ \A i \in 1..Len(s) : i \in 1..Len(u) /\ i <= Len(s)
    BY <1>0
  <2> QED
    BY <1>0, <2>1
<1>2. s # <<>> => u # <<>>
  BY <1>0, ConcatEqualIffEmpty
<1>3. ASSUME HasLength(s)
      PROVE  /\ HasLength(u) /\ LengthOf(u) = LengthOf(s)
             /\ FieldEnd(u)[LenBytes] = FieldEnd(s)[LenBytes] /\ FrameSize(u) = FrameSize(s)
  BY <1>0, <1>1, <1>3, LengthStays DEF FrameSize
<1>4. ASSUME HasLength(s), ~BadLength(LengthOf(s)), ~(Len(s) < FrameSize(s))
      PROVE  FrameSize(s) \in 1..Len(s) /\ ~(Len(u) < FrameSize(s))
  <2>1. LengthOf(s) \in 1..MaxLength /\ FieldEnd(s)[LenBytes] \in 2..(2 + 2 * LenBytes)
        /\ FrameSize(s) = FieldEnd(s)[LenBytes] + LengthOf(s)
    BY <1>4, SizeOfFrame
  <2>2. LenBytes \in Nat /\ MaxLength \in Nat
    BY ConstantsTyped DEF Constants
  <2>3. FrameSize(s) \in Nat /\ FrameSize(s) >= 1
    BY <2>1, <2>2
  <2> QED
    BY <1>0, <1>4, <2>3
<1>5. ASSUME Retries(s)
      PROVE  Retries(u) /\ Tail(u) = Tail(s) \o t
  <2>1. s # <<>> /\ HasLength(s)
    BY <1>5 DEF Retries
  <2>2. Retries(u)
    BY <1>1, <1>2, <1>3, <1>4, <1>5 DEF Retries
  <2>3. /\ Tail(s) \in Seq(Int) /\ Len(Tail(s)) = Len(s) - 1
        /\ \A i \in 1..Len(Tail(s)) : Tail(s)[i] = s[i + 1]
    BY <2>1, HeadTailProperties
  <2>4. /\ Tail(u) \in Seq(Int) /\ Len(Tail(u)) = Len(u) - 1
        /\ \A i \in 1..Len(Tail(u)) : Tail(u)[i] = u[i + 1]
    BY <1>0, <1>2, <2>1, HeadTailProperties
  <2>5. /\ Tail(s) \o t \in Seq(Int) /\ Len(Tail(s) \o t) = Len(Tail(s)) + Len(t)
        /\ \A i \in 1..(Len(Tail(s)) + Len(t)) :
              (Tail(s) \o t)[i] = IF i <= Len(Tail(s)) THEN Tail(s)[i] ELSE t[i - Len(Tail(s))]
    BY <2>3, ConcatProperties
  <2>6. Len(Tail(u)) = Len(Tail(s) \o t)
    BY <1>0, <2>3, <2>4, <2>5
  <2>7. ASSUME NEW i \in 1..Len(Tail(u))
        PROVE  Tail(u)[i] = (Tail(s) \o t)[i]
    <3>1. i \in 1..(Len(Tail(s)) + Len(t)) /\ i + 1 \in 1..Len(u) /\ i \in Nat
      BY <1>0, <2>3, <2>4
    <3>2. CASE i <= Len(Tail(s))
      <4>1. i \in 1..Len(Tail(s)) /\ i + 1 <= Len(s)
        BY <1>0, <2>3, <3>1, <3>2
      <4> QED
        BY <1>0, <2>3, <2>4, <2>5, <3>1, <3>2, <4>1
    <3>3. CASE ~(i <= Len(Tail(s)))
      <4>1. ~(i + 1 <= Len(s)) /\ (i + 1) - Len(s) = i - Len(Tail(s))
        BY <1>0, <2>3, <3>1, <3>3
      <4> QED
        BY <1>0, <2>4, <2>5, <3>1, <3>3, <4>1
    <3> QED
      BY <3>2, <3>3
  <2>8. Tail(u) = Tail(s) \o t
    BY <2>4, <2>5, <2>6, <2>7, SeqEqual
  <2> QED
    BY <2>2, <2>8
<1>6. ASSUME Framed(s)
      PROVE  Framed(u) /\ PayloadOf(u) = PayloadOf(s) /\ Behind(u) = Behind(s) \o t
  <2> DEFINE z == FrameSize(s)
  <2>1. Framed(u)
    BY <1>1, <1>2, <1>3, <1>4, <1>6 DEF Framed
  <2>2. FrameSize(u) = z /\ FieldEnd(u)[LenBytes] = FieldEnd(s)[LenBytes]
    BY <1>3, <1>6 DEF Framed
  <2>3. /\ Behind(s) \in Seq(Int) /\ Len(Behind(s)) = Len(s) - z /\ z \in 3..Len(s)
        /\ \A i \in 1..(Len(s) - z) : Behind(s)[i] = s[z + i]
    BY <1>6, PassesShorten
  <2>4. /\ Behind(u) \in Seq(Int) /\ Len(Behind(u)) = Len(u) - z
        /\ \A i \in 1..(Len(u) - z) : Behind(u)[i] = u[z + i]
    <3>1. /\ Behind(u) \in Seq(Int) /\ Len(Behind(u)) = Len(u) - FrameSize(u)
          /\ \A i \in 1..(Len(u) - FrameSize(u)) : Behind(u)[i] = u[FrameSize(u) + i]
      BY <1>0, <2>1, PassesShorten
    <3> HIDE DEF z
    <3> QED
      BY <2>2, <3>1
  <2>5. PayloadOf(u) = PayloadOf(s)
    <3>1. /\ LengthOf(s) \in 1..MaxLength /\ FieldEnd(s)[LenBytes] \in 2..(2 + 2 * LenBytes)
          /\ z = FieldEnd(s)[LenBytes] + LengthOf(s)
      BY <1>6, SizeOfFrame DEF Framed
    <3>2. LenBytes \in Nat /\ MaxLength \in Nat
      BY ConstantsTyped DEF Constants
    <3>3. FieldEnd(s)[LenBytes] \in 1..Len(s) /\ z - 1 \in 1..Len(s)
      <4> DEFINE length == LengthOf(s)
                 ends == FieldEnd(s)[LenBytes]
      <4>1. /\ length \in Nat /\ length >= 1 /\ ends \in Nat /\ ends >= 2
            /\ z = ends + length
        BY <3>1, <3>2
      <4>2. z \in Nat /\ z <= Len(s)
        BY <1>0, <2>3
      <4> HIDE DEF z, length, ends
      <4>3. ends \in 1..Len(s) /\ z - 1 \in 1..Len(s)
        BY <1>0, <4>1, <4>2
      <4> QED
        BY <4>3 DEF ends
    <3>4. SubSeq(s \o t, FieldEnd(s)[LenBytes], z - 1) = SubSeq(s, FieldEnd(s)[LenBytes], z - 1)
      <4> DEFINE from == FieldEnd(s)[LenBytes]
                 to == z - 1
      <4>1. from \in 1..Len(s) /\ to \in 1..Len(s)
        BY <3>3
      <4> HIDE DEF from, to
      <4>2. SubSeq(s \o t, from, to) = SubSeq(s, from, to)
        BY <4>1, SubSeqOfConcat1
      <4> QED
        BY <4>2 DEF from, to
    <3> QED
      BY <2>2, <3>4 DEF PayloadOf
  <2> HIDE DEF z
  <2>6. /\ Behind(s) \o t \in Seq(Int) /\ Len(Behind(s) \o t) = Len(Behind(s)) + Len(t)
        /\ \A i \in 1..(Len(Behind(s)) + Len(t)) :
              (Behind(s) \o t)[i] = IF i <= Len(Behind(s)) THEN Behind(s)[i]
                                    ELSE t[i - Len(Behind(s))]
    BY <2>3, ConcatProperties
  <2>7. Len(Behind(u)) = Len(Behind(s) \o t)
    BY <1>0, <2>3, <2>4, <2>6
  <2>8. ASSUME NEW i \in 1..Len(Behind(u))
        PROVE  Behind(u)[i] = (Behind(s) \o t)[i]
    <3>1. i \in 1..(Len(u) - z) /\ i \in 1..(Len(Behind(s)) + Len(t)) /\ z + i \in 1..Len(u)
      BY <1>0, <2>3, <2>4
    <3>2. CASE i <= Len(Behind(s))
      <4>1. i \in 1..(Len(s) - z) /\ z + i <= Len(s)
        BY <1>0, <2>3, <3>1, <3>2
      <4> QED
        BY <1>0, <2>3, <2>4, <2>6, <3>1, <3>2, <4>1
    <3>3. CASE ~(i <= Len(Behind(s)))
      <4>1. ~(z + i <= Len(s)) /\ (z + i) - Len(s) = i - Len(Behind(s))
        BY <1>0, <2>3, <3>1, <3>3
      <4> QED
        BY <1>0, <2>4, <2>6, <3>1, <3>3, <4>1
    <3> QED
      BY <3>2, <3>3
  <2>9. Behind(u) = Behind(s) \o t
    BY <2>4, <2>6, <2>7, <2>8, SeqEqual
  <2> QED
    BY <2>1, <2>5, <2>9
<1> QED
  BY <1>5, <1>6

\* However the stream is cut in two, what is found is that of the whole.
LEMMA ExtractInTwo ==
    ASSUME NEW a \in Seq(Int), NEW t \in Seq(Int)
    PROVE  Extract[a \o t] = InTwoReads(a, t)
<1> DEFINE Wrong == {c \in Seq(Int) : Extract[c \o t] # InTwoReads(c, t)}
<1>1. SUFFICES ASSUME Wrong # {}
               PROVE  FALSE
  OBVIOUS
<1>2. PICK c \in Wrong : \A d \in Seq(Int) : Len(d) < Len(c) => d \notin Wrong
  <2>1. Wrong \subseteq Seq(Int)
    OBVIOUS
  <2> HIDE DEF Wrong
  <2> QED
    BY <1>1, <2>1, ShortestBuffer
<1>3. c \in Seq(Int) /\ Len(c) \in Nat /\ Extract[c \o t] # InTwoReads(c, t)
  BY LenProperties
<1>4. ASSUME NEW d \in Seq(Int), Len(d) < Len(c)
      PROVE  Extract[d \o t] = InTwoReads(d, t)
  BY <1>2, <1>4
<1> DEFINE s == FromStart(c)
           u == s \o t
<1>5. /\ s \in Seq(Int) /\ Len(s) \in Nat /\ Len(s) <= Len(c)
      /\ u \in Seq(Int) /\ c \o t \in Seq(Int)
  BY <1>3, FromStartTyped, ConcatProperties, LenProperties
<1>6. CASE Waits(s)
  BY <1>3, <1>6, WaitsInTwo
<1>7. ASSUME Retries(s) \/ Framed(s)
      PROVE  FromStart(c \o t) = u
  <2>1. s # <<>>
    BY <1>7 DEF Retries, Framed
  <2> QED
    BY <1>3, <2>1, FromStartAppended
<1> HIDE DEF s, u
<1>8. CASE Retries(s)
  <2>1. Extract[c] = Extract[Tail(s)]
    BY <1>3, <1>8, ExtractCases DEF s
  <2>2. Retries(u) /\ Tail(u) = Tail(s) \o t
    BY <1>5, <1>8, DecidedStays DEF u
  <2>3. Extract[c \o t] = Extract[Tail(s) \o t]
    BY <1>5, <1>7, <1>8, <2>2, ExtractCases
  <2>4. Tail(s) \in Seq(Int) /\ Len(Tail(s)) < Len(c)
    <3>1. Tail(s) \in Seq(Int) /\ Len(Tail(s)) < Len(s)
      BY <1>5, <1>8, PassesShorten
    <3>2. Len(Tail(s)) \in Nat
      BY <3>1, LenProperties
    <3> QED
      BY <1>3, <1>5, <3>1, <3>2
  <2>5. Extract[Tail(s) \o t] = InTwoReads(Tail(s), t)
    BY <1>4, <2>4
  <2> QED
    BY <1>3, <2>1, <2>3, <2>5 DEF InTwoReads
<1>9. CASE Framed(s)
  <2> DEFINE r == Behind(s)
             p == PayloadOf(s)
             x == Extract[r]
             y == Extract[x.rest \o t]
  <2>1. r \in Seq(Int) /\ Len(r) < Len(c) /\ p \in Seq(Int)
    <3>1. /\ r \in Seq(Int) /\ Len(r) = Len(s) - FrameSize(s) /\ FrameSize(s) \in 3..Len(s)
          /\ p \in Seq(Int)
      BY <1>5, <1>9, PassesShorten
    <3>2. Len(r) < Len(c)
      BY <1>3, <1>5, <3>1
    <3> QED
      BY <3>1, <3>2
  <2>2. Framed(u) /\ PayloadOf(u) = p /\ Behind(u) = r \o t
    BY <1>5, <1>9, DecidedStays DEF u
  <2>3. Extract[c] = Then(p, x)
    BY <1>3, <1>9, ExtractCases DEF s
  <2>4. Extract[c \o t] = Then(p, Extract[r \o t])
    BY <1>5, <1>7, <1>9, <2>2, ExtractCases
  <2>5. Extract[r \o t] = InTwoReads(r, t)
    BY <1>4, <2>1
  <2>6. x.frames \in Seq(Seq(Int)) /\ x.rest \in Seq(Int)
    BY <2>1, ExtractTyped DEF Found
  <2>7. y.frames \in Seq(Seq(Int))
    <3>1. x.rest \o t \in Seq(Int)
      BY <2>6, ConcatProperties
    <3> HIDE DEF x
    <3> QED
      BY <3>1, ExtractTyped DEF Found
  <2> HIDE DEF r, p, x, y
  <2>8. Extract[c \o t] = [frames |-> <<p>> \o (x.frames \o y.frames), rest |-> y.rest]
    BY <2>4, <2>5 DEF Then, InTwoReads, Joined, x, y
  <2>9. InTwoReads(c, t) = [frames |-> (<<p>> \o x.frames) \o y.frames, rest |-> y.rest]
    <3>1. Extract[c].frames = <<p>> \o x.frames /\ Extract[c].rest = x.rest
      BY <2>3 DEF Then
    <3> QED
      BY <3>1 DEF InTwoReads, Joined, y
  <2>10. (<<p>> \o x.frames) \o y.frames = <<p>> \o (x.frames \o y.frames)
    <3> DEFINE first == <<p>>
               more == x.frames
               others == y.frames
    <3>1. first \in Seq(Seq(Int)) /\ more \in Seq(Seq(Int)) /\ others \in Seq(Seq(Int))
      BY <2>1, <2>6, <2>7
    <3> HIDE DEF first, more, others
    <3>2. (first \o more) \o others = first \o (more \o others)
      BY <3>1, ConcatAssociative
    <3> QED
      BY <3>2 DEF first, more, others
  <2> QED
    BY <1>3, <2>8, <2>9, <2>10
<1> QED
  BY <1>6, <1>8, <1>9, OneOfThree

\* What is held back is less than a frame, and begins with a start marker.
LEMMA RestIsShort ==
    ASSUME NEW b \in Seq(Int), Extract[b].rest # <<>>
    PROVE  Extract[b].rest[1] = FRAME_START /\ Len(Extract[b].rest) < LongestFrame
<1> DEFINE Short(r) == r # <<>> => r[1] = FRAME_START /\ Len(r) < LongestFrame
           Wrong == {c \in Seq(Int) : ~Short(Extract[c].rest)}
<1>1. SUFFICES ASSUME Wrong # {}
               PROVE  FALSE
  OBVIOUS
<1>2. PICK c \in Wrong : \A d \in Seq(Int) : Len(d) < Len(c) => d \notin Wrong
  <2>1. Wrong \subseteq Seq(Int)
    OBVIOUS
  <2> HIDE DEF Wrong
  <2> QED
    BY <1>1, <2>1, ShortestBuffer
<1> HIDE DEF Short
<1>3. c \in Seq(Int) /\ Len(c) \in Nat /\ ~Short(Extract[c].rest)
  BY LenProperties
<1>4. ASSUME NEW d \in Seq(Int), Len(d) < Len(c)
      PROVE  Short(Extract[d].rest)
  BY <1>2, <1>4
<1> DEFINE s == FromStart(c)
<1>5. /\ s \in Seq(Int) /\ Len(s) \in Nat /\ Len(s) <= Len(c)
      /\ s # <<>> => s[1] = FRAME_START
  BY <1>3, FromStartTyped, LenProperties
<1>6. /\ Waits(s) => Extract[c] = Nothing(s)
      /\ Retries(s) => Extract[c] = Extract[Tail(s)]
      /\ Framed(s) => Extract[c] = Then(PayloadOf(s), Extract[Behind(s)])
  BY <1>3, ExtractCases
<1> HIDE DEF s
<1>7. CASE Waits(s)
  <2>1. LenBytes \in Nat /\ MaxLength \in Nat /\ LenBytes \in 0..LenBytes
        /\ LongestFrame = 2 + 2 * LenBytes + MaxLength
    BY ConstantsTyped DEF Constants, LongestFrame
  <2>2. FieldEnd(s)[LenBytes] \in (2 + LenBytes)..(2 + 2 * LenBytes)
    BY <2>1, FieldBounds
  <2>3. s # <<>> => Len(s) < LongestFrame
    <3>1. CASE ~HasLength(s)
      <4>1. ~(FieldEnd(s)[LenBytes] <= Len(s) + 1)
        BY <3>1 DEF HasLength
      <4> QED
        BY <1>5, <2>1, <2>2, <4>1
    <3>2. CASE HasLength(s) /\ ~BadLength(LengthOf(s)) /\ Len(s) < FrameSize(s)
      <4> DEFINE length == LengthOf(s)
                 ends == FieldEnd(s)[LenBytes]
      <4>1. length \in 1..MaxLength /\ Len(s) < ends + length
        BY <1>5, <3>2, SizeOfFrame
      <4>2. ends \in (2 + LenBytes)..(2 + 2 * LenBytes)
        BY <2>2
      <4> HIDE DEF length, ends
      <4> QED
        BY <1>5, <2>1, <4>1, <4>2
    <3> QED
      BY <1>7, <3>1, <3>2 DEF Waits
  <2> QED
    BY <1>3, <1>5, <1>6, <1>7, <2>3 DEF Nothing, Short
<1>8. CASE Retries(s)
  <2>1. Tail(s) \in Seq(Int) /\ Len(Tail(s)) < Len(s)
    BY <1>5, <1>8, PassesShorten
  <2>2. Len(Tail(s)) < Len(c)
    BY <1>3, <1>5, <2>1, LenProperties
  <2> QED
    BY <1>3, <1>4, <1>6, <1>8, <2>1, <2>2
<1>9. CASE Framed(s)
  <2>1. /\ Behind(s) \in Seq(Int) /\ Len(Behind(s)) = Len(s) - FrameSize(s)
        /\ FrameSize(s) \in 3..Len(s)
    BY <1>5, <1>9, PassesShorten
  <2>2. Len(Behind(s)) < Len(c)
    BY <1>3, <1>5, <2>1
  <2>3. Extract[c].rest = Extract[Behind(s)].rest
    BY <1>6, <1>9 DEF Then
  <2> QED
    BY <1>3, <1>4, <2>1, <2>2, <2>3
<1> QED
  BY <1>7, <1>8, <1>9, OneOfThree

-----------------------------------------------------------------------------
\* f puts the members of w behind each other, one more at each step.
Chains(S, w, f) == /\ f \in [0..Len(w) -> Seq(S)]
                   /\ f[0] = <<>>
                   /\ \A k \in 1..Len(w) : f[k] = f[k - 1] \o w[k]

\* Flattening is chaining, one sequence after the other.
LEMMA FlattenChains ==
    ASSUME NEW S, NEW w \in Seq(Seq(S))
    PROVE  \E f : Chains(S, w, f) /\ FlattenSeq(w) = f[Len(w)]
<1> DEFINE n == Len(w)
           step == [k \in 1..n |-> [x \in Seq(S) |-> x \o w[k]]]
           Flat(g) == [i \in 1..n |-> IF i = 1 THEN w[i] ELSE g[i - 1] \o w[i]]
           flat == CHOOSE g : g = Flat(g)
<1>0. n \in Nat /\ \A k \in 1..n : w[k] \in Seq(S)
  BY LenProperties, ElementOfSeq
<1>1. FlattenSeq(w) = IF n = 0 THEN w ELSE flat[n]
  BY DEF FlattenSeq
<1> HIDE DEF n
<1>2. PICK f \in [0..n -> Seq(S)] : f[0] = <<>> /\ \A k \in 1..n : f[k] = step[k][f[k - 1]]
  <2>1. step \in [1..n -> [Seq(S) -> Seq(S)]] /\ <<>> \in Seq(S)
    BY <1>0, ConcatProperties, EmptySeq
  <2>2. \E f : Counts(f, n, Seq(S), <<>>, step)
    <3> HIDE DEF step
    <3> QED
      BY <1>0, <2>1, StepByStep
  <2> QED
    BY <2>2 DEF Counts
<1>3. \A k \in 1..n : f[k - 1] \in Seq(S) /\ f[k] = f[k - 1] \o w[k]
  <2> SUFFICES ASSUME NEW k \in 1..n
               PROVE  f[k - 1] \in Seq(S) /\ f[k] = f[k - 1] \o w[k]
    OBVIOUS
  <2>1. f[k - 1] \in Seq(S)
    BY <1>0
  <2> QED
    BY <1>2, <2>1
<1>4. Chains(S, w, f)
  BY <1>2, <1>3 DEF Chains, n
<1>5. CASE n = 0
  <2>1. w = <<>>
    BY <1>5, EmptySeq DEF n
  <2> QED
    BY <1>1, <1>2, <1>4, <1>5, <2>1 DEF n
<1>6. CASE n # 0
  <2> DEFINE h == [i \in 1..n |-> f[i]]
  <2>1. h = Flat(h)
    <3>1. ASSUME NEW i \in 1..n
          PROVE  h[i] = Flat(h)[i]
      <4>1. CASE i = 1
        <5>1. f[1] = <<>> \o w[1]
          <6>1. 1 \in 1..n /\ 1 - 1 = 0
            BY <4>1
          <6> QED
            BY <1>2, <1>3, <6>1
        <5> QED
          BY <1>0, <4>1, <5>1, ConcatEmptySeq
      <4>2. CASE i # 1
        <5>1. i - 1 \in 1..n
          BY <1>0, <4>2
        <5> QED
          BY <1>3, <4>2, <5>1
      <4> QED
        BY <4>1, <4>2
    <3> QED
      BY <3>1
  <2>2. flat = Flat(flat)
    BY <2>1
  <2> DEFINE g == [k \in 0..n |-> IF k = 0 THEN <<>> ELSE flat[k]]
  <2>3. ASSUME NEW k \in 1..n, f[k - 1] = g[k - 1]
        PROVE  f[k] = g[k]
    <3> HIDE DEF flat
    <3>1. flat[k] = IF k = 1 THEN w[k] ELSE flat[k - 1] \o w[k]
      BY <2>2
    <3>2. k \in 0..n /\ k - 1 \in 0..n /\ k # 0
      BY <1>0
    <3>3. CASE k = 1
      <4>1. f[1] = <<>> \o w[1]
        <5>1. 1 \in 1..n /\ 1 - 1 = 0
          BY <3>3
        <5> QED
          BY <1>2, <1>3, <5>1
      <4> QED
        BY <1>0, <3>1, <3>2, <3>3, <4>1, ConcatEmptySeq
    <3>4. CASE k # 1
      <4>1. k - 1 # 0 /\ g[k] = flat[k] /\ g[k - 1] = flat[k - 1]
        BY <3>2, <3>4
      <4> QED
        BY <1>3, <2>3, <3>1, <3>4, <4>1
    <3> QED
      BY <3>3, <3>4
  <2>4. f[0] = g[0]
    BY <1>0, <1>2
  <2>5. g[n] = flat[n]
    BY <1>0, <1>6
  <2> HIDE DEF g, flat
  <2>6. Alike(n, f, g)
    BY <2>3, <2>4 DEF Alike
  <2>7. \A k \in 0..n : f[k] = g[k]
    BY <1>0, <2>6, SameSteps
  <2>8. FlattenSeq(w) = f[n]
    BY <1>0, <1>1, <1>6, <2>5, <2>7
  <2> QED
    BY <1>4, <2>8 DEF n
<1> QED
  BY <1>5, <1>6

\* Sequences over a set are flattened to one over that set.
LEMMA FlattenTyped ==
    ASSUME NEW S, NEW w \in Seq(Seq(S))
    PROVE  FlattenSeq(w) \in Seq(S)
<1>1. PICK f : Chains(S, w, f) /\ FlattenSeq(w) = f[Len(w)]
  BY FlattenChains
<1>2. Len(w) \in 0..Len(w)
  BY LenProperties
<1> QED
  BY <1>1, <1>2 DEF Chains

\* No sequences are flattened to nothing.
LEMMA FlattenNone ==
    FlattenSeq(<<>>) = <<>>
  BY DEF FlattenSeq

\* Three sequences in a row, whichever two are joined first.
LEMMA InARow ==
    \A S : \A x \in Seq(S) : \A y \in Seq(S) : \A z \in Seq(S) : (x \o y) \o z = x \o (y \o z)
  BY ConcatAssociative

\* At the other end: one more in front.
InFront(x, w, v) == Len(v) = Len(w) + 1 /\ v[1] = x /\ \A k \in 1..Len(w) : v[k + 1] = w[k]

\* A sequence put in front of the others comes first when they are flattened.
LEMMA FlattenInFront ==
    ASSUME NEW S, NEW w \in Seq(Seq(S)), NEW v \in Seq(Seq(S)), NEW x \in Seq(S),
           InFront(x, w, v)
    PROVE  FlattenSeq(v) = x \o FlattenSeq(w)
<1> DEFINE n == Len(w)
<1>0. /\ n \in Nat /\ Len(v) = n + 1 /\ v[1] = x
      /\ \A k \in 1..n : v[k + 1] = w[k]
      /\ \A k \in 1..n : w[k] \in Seq(S)
  BY LenProperties, ElementOfSeq DEF InFront
<1>1. PICK f : Chains(S, w, f) /\ FlattenSeq(w) = f[n]
  BY FlattenChains
<1>2. PICK g : Chains(S, v, g) /\ FlattenSeq(v) = g[n + 1]
  BY <1>0, FlattenChains
<1>3. f \in [0..n -> Seq(S)] /\ f[0] = <<>> /\ \A k \in 1..n : f[k] = f[k - 1] \o w[k]
  BY <1>1 DEF Chains
<1>4. g[0] = <<>> /\ \A k \in 1..(n + 1) : g[k] = g[k - 1] \o v[k]
  BY <1>0, <1>2 DEF Chains
<1> HIDE DEF n
<1> DEFINE left == [k \in 0..n |-> g[k + 1]]
           right == [k \in 0..n |-> x \o f[k]]
<1>5. left[0] = right[0]
  <2>1. g[1] = <<>> \o x
    <3>1. 1 \in 1..(n + 1) /\ 1 - 1 = 0
      BY <1>0
    <3> QED
      BY <1>0, <1>4, <3>1
  <2>2. left[0] = g[1] /\ right[0] = x \o <<>>
    <3>1. 0 \in 0..n /\ 0 + 1 = 1
      BY <1>0
    <3> QED
      BY <1>3, <3>1
  <2>3. <<>> \o x = x /\ x \o <<>> = x
    BY ConcatEmptySeq
  <2> HIDE DEF left, right
  <2> QED
    BY <2>1, <2>2, <2>3
<1>6. ASSUME NEW k \in 1..n, left[k - 1] = right[k - 1]
      PROVE  left[k] = right[k]
  <2>1. k - 1 \in 0..n /\ k \in 0..n /\ k + 1 \in 1..(n + 1) /\ (k - 1) + 1 = k /\ (k + 1) - 1 = k
    BY <1>0
  <2>2. g[k] = x \o f[k - 1]
    BY <1>6, <2>1
  <2>3. g[k + 1] = (x \o f[k - 1]) \o w[k]
    <3>1. v[k + 1] = w[k]
      BY <1>0
    <3> QED
      BY <1>4, <2>1, <2>2, <3>1
  <2>4. f[k - 1] \in Seq(S) /\ w[k] \in Seq(S)
    BY <1>0, <1>3, <2>1
  <2>5. (x \o f[k - 1]) \o w[k] = x \o (f[k - 1] \o w[k])
    <3>1. \A y \in Seq(S) : \A z \in Seq(S) : (x \o y) \o z = x \o (y \o z)
      BY InARow
    <3> HIDE DEF left, right
    <3> QED
      BY <2>4, <3>1
  <2> QED
    BY <1>3, <2>1, <2>3, <2>5
<1>7. Alike(n, left, right)
  <2> HIDE DEF left, right
  <2> QED
    BY <1>5, <1>6 DEF Alike
<1>8. left[n] = right[n]
  <2> HIDE DEF left, right
  <2>0. n \in Nat
    BY <1>0
  <2>1. \A k \in 0..n : left[k] = right[k]
    BY <1>7, <2>0, SameSteps
  <2> QED
    BY <2>0, <2>1
<1>9. left[n] = g[n + 1] /\ right[n] = x \o f[n]
  BY <1>0
<1> HIDE DEF left, right
<1> QED
  BY <1>1, <1>2, <1>8, <1>9 DEF n

\* And at the end: one more behind.
LEMMA FlattenBehind ==
    ASSUME NEW S, NEW w \in Seq(Seq(S)), NEW v \in Seq(Seq(S)), NEW x \in Seq(S),
           Len(v) = Len(w) + 1, v[Len(w) + 1] = x, \A k \in 1..Len(w) : v[k] = w[k]
    PROVE  FlattenSeq(v) = FlattenSeq(w) \o x
<1> DEFINE n == Len(w)
<1>0. n \in Nat /\ Len(v) = n + 1
  BY LenProperties
<1>1. PICK f : Chains(S, w, f) /\ FlattenSeq(w) = f[n]
  BY FlattenChains
<1>2. PICK g : Chains(S, v, g) /\ FlattenSeq(v) = g[n + 1]
  BY <1>0, FlattenChains
<1>3. f[0] = <<>> /\ \A k \in 1..n : f[k] = f[k - 1] \o w[k]
  BY <1>1 DEF Chains
<1>4. g[0] = <<>> /\ \A k \in 1..(n + 1) : g[k] = g[k - 1] \o v[k]
  BY <1>0, <1>2 DEF Chains
<1>5. \A k \in 1..n : k \in 1..(n + 1) /\ v[k] = w[k]
  BY <1>0
<1> HIDE DEF n
<1>6. Alike(n, f, g)
  BY <1>3, <1>4, <1>5 DEF Alike
<1>7. f[n] = g[n]
  <2>1. \A k \in 0..n : f[k] = g[k]
    BY <1>0, <1>6, SameSteps
  <2> QED
    BY <1>0, <2>1
<1>8. g[n + 1] = g[n] \o x
  <2>1. n + 1 \in 1..(n + 1) /\ (n + 1) - 1 = n
    BY <1>0
  <2> QED
    BY <1>4, <2>1 DEF n
<1> QED
  BY <1>1, <1>2, <1>7, <1>8

-----------------------------------------------------------------------------
\* What is written to the wire.
LEMMA Divided ==
    ASSUME NEW a \in Nat
    PROVE  a \div ByteSize \in Nat /\ a % ByteSize \in Byte
  BY ConstantsTyped DEF Constants, Byte

\* The quotients of a number are natural numbers.
LEMMA QuotientsTyped ==
    ASSUME NEW n \in Nat
    PROVE  /\ Quotients(n) \in [0..LenBytes -> Nat]
           /\ Quotients(n)[0] = n
           /\ \A k \in 1..LenBytes : Quotients(n)[k] = Quotients(n)[k - 1] \div ByteSize
<1> DEFINE Parts(f) == [k \in 0..LenBytes |-> IF k = 0 THEN n ELSE f[k - 1] \div ByteSize]
           step == [k \in 1..LenBytes |-> [a \in Nat |-> a \div ByteSize]]
           q == Quotients(n)
<1>1. LenBytes \in Nat
  BY ConstantsTyped DEF Constants
<1>2. PICK f \in [0..LenBytes -> Nat] :
         f[0] = n /\ \A k \in 1..LenBytes : f[k] = step[k][f[k - 1]]
  <2>1. step \in [1..LenBytes -> [Nat -> Nat]]
    BY Divided
  <2>2. \E f : Counts(f, LenBytes, Nat, n, step)
    <3> HIDE DEF step
    <3> QED
      BY <1>1, <2>1, StepByStep
  <2> QED
    BY <2>2 DEF Counts
<1>3. \A k \in 1..LenBytes : f[k] = f[k - 1] \div ByteSize
  <2> SUFFICES ASSUME NEW k \in 1..LenBytes
               PROVE  f[k] = f[k - 1] \div ByteSize
    OBVIOUS
  <2>1. f[k - 1] \in Nat
    BY <1>1
  <2> QED
    BY <1>2, <2>1
<1>4. f = Parts(f)
  <2>1. ASSUME NEW k \in 0..LenBytes
        PROVE  f[k] = Parts(f)[k]
    BY <1>1, <1>2, <1>3
  <2> QED
    BY <2>1
<1>5. q = CHOOSE g : g = Parts(g)
  BY DEF Quotients
<1>6. q = Parts(q)
  BY <1>4, <1>5
<1>7. /\ DOMAIN q = 0..LenBytes
      /\ q = [k \in 0..LenBytes |-> q[k]]
      /\ q[0] = n
      /\ \A k \in 1..LenBytes : q[k] = q[k - 1] \div ByteSize
  <2> HIDE DEF q
  <2>1. ASSUME NEW k \in 0..LenBytes
        PROVE  q[k] = IF k = 0 THEN n ELSE q[k - 1] \div ByteSize
    BY <1>6, Zenon
  <2>2. DOMAIN q = 0..LenBytes /\ q = [k \in 0..LenBytes |-> q[k]]
    BY <1>6
  <2>3. q[0] = n
    BY <1>1, <2>1
  <2>4. ASSUME NEW k \in 1..LenBytes
        PROVE  q[k] = q[k - 1] \div ByteSize
    <3>1. k \in 0..LenBytes /\ k # 0
      BY <1>1
    <3> QED
      BY <2>1, <3>1, Zenon
  <2> QED
    BY <2>2, <2>3, <2>4
<1>8. \A k \in 0..LenBytes : f[k] = q[k]
  <2> HIDE DEF q, step
  <2>1. Alike(LenBytes, f, q)
    BY <1>2, <1>3, <1>7 DEF Alike
  <2> QED
    BY <1>1, <2>1, SameSteps
<1>9. f = q
  <2> HIDE DEF q, step
  <2> QED
    BY <1>2, <1>7, <1>8
<1> QED
  BY <1>2, <1>7, <1>9

\* to_bytes() makes bytes, LenBytes of them.
LEMMA BigEndianTyped ==
    ASSUME NEW n \in Nat, NEW k \in 1..LenBytes
    PROVE  /\ BigEndian(n)[k] = Quotients(n)[LenBytes - k] % ByteSize
           /\ BigEndian(n)[k] \in Byte
<1>1. LenBytes - k \in 0..LenBytes
  BY ConstantsTyped DEF Constants
<1>2. Quotients(n)[LenBytes - k] \in Nat
  BY <1>1, QuotientsTyped
<1> QED
  BY <1>2, Divided DEF BigEndian

\* A byte of the length takes one place or two, and no marker of a frame is among them.
LEMMA StuffedTyped ==
    ASSUME NEW b \in Byte
    PROVE  Stuffed(b) \in Seq(Byte) /\ Len(Stuffed(b)) \in 1..2
<1>1. Special \subseteq Byte /\ FRAME_ESC \in Byte /\ (b \in Special => Flipped(b) \in Byte)
  BY FramingAssumption DEF Special
<1> HIDE DEF Byte
<1>2. CASE b \in Special
  BY <1>1, <1>2 DEF Stuffed
<1>3. CASE b \notin Special
  BY <1>3 DEF Stuffed
<1> QED
  BY <1>2, <1>3

\* The length of a payload as it is written.
Field(n) == [k \in 1..LenBytes |-> Stuffed(BigEndian(n)[k])]

\* The stuffed length consists of LenBytes sequences of bytes.
LEMMA FieldTyped ==
    ASSUME NEW n \in Nat
    PROVE  Field(n) \in Seq(Seq(Byte)) /\ Len(Field(n)) = LenBytes /\ FlattenSeq(Field(n)) \in Seq(Byte)
<1>1. \A k \in 1..LenBytes : Stuffed(BigEndian(n)[k]) \in Seq(Byte)
  BY BigEndianTyped, StuffedTyped
<1>2. LenBytes \in Nat
  BY ConstantsTyped DEF Constants
<1>3. Field(n) \in Seq(Seq(Byte)) /\ Len(Field(n)) = LenBytes
  BY <1>1, <1>2 DEF Field
<1> QED
  BY <1>3, FlattenTyped

\* A payload is a sequence of bytes, none of them a start or an end marker.
LEMMA PayloadTyped ==
    ASSUME NEW p \in Payloads
    PROVE  /\ p \in Seq(Byte) /\ p \in Seq(Byte \ {0, FRAME_START, FRAME_END})
           /\ Len(p) \in 1..MaxLength /\ Len(p) \in Nat
<1>1. p \in Seq(Byte \ {0, FRAME_START, FRAME_END}) /\ Len(p) \in 1..MaxLength
  BY FramingAssumption
<1>2. p \in Seq(Byte)
  BY <1>1, SeqMonotonic
<1> QED
  BY <1>1, <1>2, LenProperties

\* A frame is a sequence of bytes.
LEMMA OnWireTyped ==
    ASSUME NEW p \in Payloads
    PROVE  /\ OnWire(p) = <<FRAME_START>> \o FlattenSeq(Field(Len(p))) \o p \o <<FRAME_END>>
           /\ OnWire(p) \in Seq(Byte)
<1>1. OnWire(p) = <<FRAME_START>> \o FlattenSeq(Field(Len(p))) \o p \o <<FRAME_END>>
  BY DEF OnWire, Field
<1>2. p \in Seq(Byte) /\ FlattenSeq(Field(Len(p))) \in Seq(Byte)
  BY PayloadTyped, FieldTyped
<1>3. FRAME_START \in Byte /\ FRAME_END \in Byte
  BY FramingAssumption DEF Special
<1> DEFINE f == FlattenSeq(Field(Len(p)))
<1> HIDE DEF f, Byte
<1>4. <<FRAME_START>> \o f \o p \o <<FRAME_END>> \in Seq(Byte)
  <2>1. <<FRAME_START>> \in Seq(Byte) /\ <<FRAME_END>> \in Seq(Byte) /\ f \in Seq(Byte)
    BY <1>2, <1>3 DEF f
  <2>2. <<FRAME_START>> \o f \in Seq(Byte)
    BY <2>1, ConcatProperties
  <2>3. <<FRAME_START>> \o f \o p \in Seq(Byte)
    BY <1>2, <2>2, ConcatProperties
  <2> QED
    BY <2>1, <2>3, ConcatProperties
<1> QED
  BY <1>1, <1>4 DEF f

\* One packet more is its bytes more.
LEMMA OneMoreWritten ==
    ASSUME NEW P \in Seq(Payloads), NEW p \in Payloads
    PROVE  /\ BytesOf(P) \in Seq(Byte)
           /\ BytesOf(Append(P, p)) = BytesOf(P) \o OnWire(p)
           /\ BytesOf(<<p>> \o P) = OnWire(p) \o BytesOf(P)
<1> DEFINE Each(Q) == [k \in 1..Len(Q) |-> OnWire(Q[k])]
           q == Append(P, p)
           r == <<p>> \o P
<1>0. Len(P) \in Nat /\ \A k \in 1..Len(P) : P[k] \in Payloads
  BY LenProperties, ElementOfSeq
<1>1. /\ q \in Seq(Payloads) /\ Len(q) = Len(P) + 1 /\ q[Len(P) + 1] = p
      /\ \A k \in 1..Len(P) : q[k] = P[k]
  BY AppendProperties
<1>2. /\ r \in Seq(Payloads) /\ Len(r) = Len(P) + 1 /\ r[1] = p
      /\ \A k \in 1..Len(P) : r[k + 1] = P[k]
  <2>1. <<p>> \in Seq(Payloads) /\ Len(<<p>>) = 1 /\ <<p>>[1] = p
    OBVIOUS
  <2>2. /\ r \in Seq(Payloads) /\ Len(r) = 1 + Len(P)
        /\ \A k \in 1..Len(r) : r[k] = IF k <= 1 THEN <<p>>[k] ELSE P[k - 1]
    BY <2>1, ConcatProperties
  <2> HIDE DEF r
  <2>3. r[1] = p
    BY <1>0, <2>1, <2>2
  <2>4. ASSUME NEW k \in 1..Len(P)
        PROVE  r[k + 1] = P[k]
    <3>1. k + 1 \in 1..Len(r) /\ ~(k + 1 <= 1) /\ (k + 1) - 1 = k
      BY <1>0, <2>2
    <3> QED
      BY <2>2, <3>1
  <2> QED
    BY <1>0, <2>2, <2>3, <2>4
<1> HIDE DEF q, r
<1>3. ASSUME NEW Q \in Seq(Payloads)
      PROVE  Each(Q) \in Seq(Seq(Byte)) /\ Len(Each(Q)) = Len(Q)
  <2>1. Len(Q) \in Nat /\ \A k \in 1..Len(Q) : OnWire(Q[k]) \in Seq(Byte)
    BY OnWireTyped, LenProperties, ElementOfSeq
  <2> QED
    BY <2>1
<1>4. FlattenSeq(Each(P)) \in Seq(Byte)
  BY <1>3, FlattenTyped
<1>5. FlattenSeq(Each(q)) = FlattenSeq(Each(P)) \o OnWire(p)
  <2>1. /\ Len(Each(q)) = Len(Each(P)) + 1
        /\ Each(q)[Len(Each(P)) + 1] = OnWire(p)
        /\ \A k \in 1..Len(Each(P)) : Each(q)[k] = Each(P)[k]
    <3>1. Len(Each(q)) = Len(Each(P)) + 1 /\ Len(Each(P)) = Len(P)
      BY <1>1, <1>3
    <3>2. Each(q)[Len(P) + 1] = OnWire(p)
      BY <1>0, <1>1
    <3>3. \A k \in 1..Len(P) : Each(q)[k] = Each(P)[k]
      BY <1>0, <1>1
    <3> HIDE DEF Each
    <3> QED
      BY <3>1, <3>2, <3>3
  <2>2. Each(q) \in Seq(Seq(Byte)) /\ Each(P) \in Seq(Seq(Byte)) /\ OnWire(p) \in Seq(Byte)
    BY <1>1, <1>3, OnWireTyped
  <2> HIDE DEF Each
  <2> QED
    BY <2>1, <2>2, FlattenBehind
<1>6. FlattenSeq(Each(r)) = OnWire(p) \o FlattenSeq(Each(P))
  <2>1. InFront(OnWire(p), Each(P), Each(r))
    <3>1. Len(Each(r)) = Len(Each(P)) + 1 /\ Len(Each(P)) = Len(P)
      BY <1>2, <1>3
    <3>2. Each(r)[1] = OnWire(p)
      BY <1>0, <1>2
    <3>3. \A k \in 1..Len(P) : Each(r)[k + 1] = Each(P)[k]
      BY <1>0, <1>2
    <3> HIDE DEF Each
    <3> QED
      BY <3>1, <3>2, <3>3 DEF InFront
  <2>2. Each(r) \in Seq(Seq(Byte)) /\ Each(P) \in Seq(Seq(Byte)) /\ OnWire(p) \in Seq(Byte)
    BY <1>2, <1>3, OnWireTyped
  <2> HIDE DEF Each
  <2> QED
    BY <2>1, <2>2, FlattenInFront
<1> QED
  BY <1>4, <1>5, <1>6 DEF BytesOf, q, r

-----------------------------------------------------------------------------
\* Where the members of two sequences are when one is put behind the other.
Row(S, x, y, z) ==
    /\ z \in Seq(S) /\ Len(x) \in Nat /\ Len(y) \in Nat /\ Len(z) = Len(x) + Len(y)
    /\ \A i \in 1..Len(x) : i \in 1..Len(z) /\ z[i] = x[i]
    /\ \A i \in 1..Len(y) : Len(x) + i \in 1..Len(z) /\ z[Len(x) + i] = y[i]

\* Such are two sequences of which one is put behind the other.
LEMMA TwoInARow ==
    ASSUME NEW S, NEW x \in Seq(S), NEW y \in Seq(S), NEW z, z = x \o y
    PROVE  Row(S, x, y, z)
<1>1. /\ z \in Seq(S) /\ Len(z) = Len(x) + Len(y) /\ Len(x) \in Nat /\ Len(y) \in Nat
      /\ \A i \in 1..(Len(x) + Len(y)) : z[i] = IF i <= Len(x) THEN x[i] ELSE y[i - Len(x)]
  BY ConcatProperties, LenProperties
<1>2. ASSUME NEW i \in 1..Len(x)
      PROVE  i \in 1..Len(z) /\ z[i] = x[i]
  <2>1. i \in 1..(Len(x) + Len(y)) /\ i <= Len(x)
    BY <1>1
  <2> QED
    BY <1>1, <2>1
<1>3. ASSUME NEW i \in 1..Len(y)
      PROVE  Len(x) + i \in 1..Len(z) /\ z[Len(x) + i] = y[i]
  <2>1. Len(x) + i \in 1..(Len(x) + Len(y)) /\ ~(Len(x) + i <= Len(x)) /\ (Len(x) + i) - Len(x) = i
    BY <1>1
  <2> QED
    BY <1>1, <2>1
<1> QED
  BY <1>1, <1>2, <1>3 DEF Row

\* A buffer is what it begins with and what is behind that.
LEMMA CutAt ==
    ASSUME NEW b \in Seq(Byte), NEW n \in 0..Len(b)
    PROVE  /\ SubSeq(b, 1, n) \in Seq(Byte) /\ Len(SubSeq(b, 1, n)) = n
           /\ SubSeq(b, n + 1, Len(b)) \in Seq(Byte) /\ Len(SubSeq(b, n + 1, Len(b))) = Len(b) - n
           /\ b = SubSeq(b, 1, n) \o SubSeq(b, n + 1, Len(b))
<1> DEFINE x == SubSeq(b, 1, n)
           y == SubSeq(b, n + 1, Len(b))
           z == x \o y
<1>1. Len(b) \in Nat /\ n \in Nat /\ \A i \in 1..Len(b) : b[i] \in Byte
  BY LenProperties, ElementOfSeq
<1>2. x \in Seq(Byte) /\ Len(x) = n /\ \A i \in 1..n : x[i] = b[i]
  <2>1. \A i \in 1..n : b[i] \in Byte /\ 1 + i - 1 = i
    BY <1>1
  <2> QED
    BY <1>1, <2>1, SubSeqProperties
<1>3. y \in Seq(Byte) /\ Len(y) = Len(b) - n /\ \A i \in 1..(Len(b) - n) : y[i] = b[n + i]
  <2> DEFINE m == n + 1
             e == Len(b)
  <2>1. /\ m \in Int /\ e \in Int /\ \A i \in m..e : b[i] \in Byte
        /\ e - m + 1 = Len(b) - n /\ (~(m <= e) => Len(b) - n = 0)
        /\ \A i \in 1..(Len(b) - n) : m + i - 1 = n + i
    BY <1>1
  <2> DEFINE v == SubSeq(b, m, e)
  <2> HIDE DEF m, e
  <2>2. /\ v \in Seq(Byte) /\ Len(v) = Len(b) - n
        /\ \A i \in 1..(Len(b) - n) : v[i] = b[m + i - 1]
    BY <2>1, SubSeqProperties
  <2> QED
    BY <2>1, <2>2 DEF m, e
<1>4. z = x \o y
  OBVIOUS
<1> HIDE DEF x, y, z
<1>5. Row(Byte, x, y, z)
  BY <1>2, <1>3, <1>4, TwoInARow
<1>6. z \in Seq(Byte) /\ Len(z) = Len(b)
  BY <1>1, <1>2, <1>3, <1>5 DEF Row
<1>7. ASSUME NEW i \in 1..Len(b)
      PROVE  b[i] = z[i]
  <2>1. CASE i <= n
    <3>1. i \in 1..n
      BY <1>1, <2>1
    <3> QED
      BY <1>2, <1>5, <3>1 DEF Row
  <2>2. CASE ~(i <= n)
    <3>1. i - n \in 1..(Len(b) - n) /\ n + (i - n) = i
      BY <1>1, <2>2
    <3>2. z[n + (i - n)] = y[i - n]
      BY <1>2, <1>3, <1>5, <3>1 DEF Row
    <3> QED
      BY <1>3, <3>1, <3>2
  <2> QED
    BY <2>1, <2>2
<1>8. b = z
  BY <1>6, <1>7, SeqEqual
<1> QED
  BY <1>2, <1>3, <1>4, <1>8 DEF x, y

-----------------------------------------------------------------------------
\* What has been heard and what is under way is all that was written, as long as the
\* radio has not touched it; damage never makes it more.
NothingLost == /\ Len(wire) <= Len(BytesOf(sent))
               /\ hit = 0 => heard \o wire = BytesOf(sent)

StreamInv == TypeOK /\ NothingLost /\ ReadsDoNotMatter

\* The frames of any packets are a sequence of bytes.
LEMMA AllTyped ==
    ASSUME NEW P \in Seq(Payloads)
    PROVE  BytesOf(P) \in Seq(Byte)
<1> DEFINE each == [k \in 1..Len(P) |-> OnWire(P[k])]
<1>1. Len(P) \in Nat /\ \A k \in 1..Len(P) : OnWire(P[k]) \in Seq(Byte)
  BY OnWireTyped, LenProperties, ElementOfSeq
<1>2. each \in Seq(Seq(Byte))
  BY <1>1
<1> QED
  BY <1>2, FlattenTyped DEF BytesOf

\* No packets, no bytes.
LEMMA NoneWritten == BytesOf(<<>>) = <<>>
  BY FlattenNone DEF BytesOf

\* The parser makes nothing of nothing.
LEMMA NothingHeard == Extract[<<>>] = [frames |-> <<>>, rest |-> <<>>]
<1> DEFINE b == <<>>
<1>1. b \in Seq(Int) /\ Len(b) = 0
  OBVIOUS
<1>2. b = <<>>
  OBVIOUS
<1> HIDE DEF b
<1>3. ~\E m : StartAt(b, m)
  BY <1>1 DEF StartAt
<1>4. FromStart(b) = <<>>
  BY <1>1, <1>3, FirstStart
<1>5. Waits(FromStart(b))
  BY <1>4 DEF Waits
<1>6. Extract[b] = Nothing(FromStart(b))
  BY <1>1, <1>5, ExtractCases
<1> QED
  BY <1>2, <1>4, <1>6 DEF Nothing

\* A byte is an integer.
LEMMA ByteIsInt == Byte \subseteq Int
  BY DEF Byte

\* The stream invariant holds when nothing has been written.
LEMMA StreamInit == Init => StreamInv
<1> SUFFICES ASSUME Init
             PROVE  StreamInv
  OBVIOUS
<1>1. /\ sent = <<>> /\ wire = <<>> /\ buffer = <<>> /\ frames = <<>>
      /\ heard = <<>> /\ hit = 0
  BY DEF Init
<1>2. BytesOf(sent) = <<>> /\ Len(BytesOf(sent)) = 0
  BY <1>1, NoneWritten
<1>3. TypeOK
  BY <1>1, <1>2 DEF TypeOK
<1>4. NothingLost
  BY <1>1, <1>2 DEF NothingLost
<1>5. ReadsDoNotMatter
  BY <1>1, NothingHeard DEF ReadsDoNotMatter
<1> QED
  BY <1>3, <1>4, <1>5 DEF StreamInv

\* A packet is written behind the bytes that are under way.
LEMMA WriteKeepsStream ==
    ASSUME StreamInv, NEW p \in Payloads, Write(p)
    PROVE  StreamInv'
<1>0. /\ sent \in Seq(Payloads) /\ wire \in Seq(Byte) /\ heard \in Seq(Byte)
      /\ hit \in 0..Len(BytesOf(sent)) /\ Len(wire) <= Len(BytesOf(sent))
      /\ hit = 0 => heard \o wire = BytesOf(sent)
  BY DEF StreamInv, TypeOK, NothingLost
<1>1. /\ sent' = Append(sent, p) /\ wire' = wire \o OnWire(p)
      /\ UNCHANGED <<buffer, frames, heard, hit>>
  BY DEF Write
<1> DEFINE all == BytesOf(sent)
           more == OnWire(p)
<1>2. /\ all \in Seq(Byte) /\ more \in Seq(Byte) /\ BytesOf(Append(sent, p)) = all \o more
  BY <1>0, OneMoreWritten, OnWireTyped
<1>3. BytesOf(sent)' = BytesOf(sent')
  BY DEF BytesOf
<1>4. BytesOf(sent') = all \o more
  BY <1>1, <1>2
<1> HIDE DEF all, more
<1>5. /\ Len(all \o more) = Len(all) + Len(more) /\ all \o more \in Seq(Byte)
      /\ wire \o more \in Seq(Byte) /\ Len(wire \o more) = Len(wire) + Len(more)
      /\ Len(all) \in Nat /\ Len(more) \in Nat /\ Len(wire) \in Nat
  BY <1>0, <1>2, ConcatProperties, LenProperties
<1>6. TypeOK'
  <2>1. sent' \in Seq(Payloads)
    BY <1>0, <1>1, AppendProperties
  <2>2. wire' \in Seq(Byte)
    BY <1>1, <1>5 DEF more
  <2>3. hit' \in 0..Len(BytesOf(sent'))
    <3>1. hit \in 0..Len(all)
      BY <1>0 DEF all
    <3> QED
      BY <1>1, <1>4, <1>5, <3>1
  <2>4. buffer' \in Seq(Byte) /\ heard' \in Seq(Byte) /\ frames' \in Seq(Seq(Byte))
    BY <1>1 DEF StreamInv, TypeOK
  <2> QED
    BY <1>3, <2>1, <2>2, <2>3, <2>4 DEF TypeOK
<1>7. NothingLost'
  <2>1. Len(wire') <= Len(BytesOf(sent'))
    <3>1. Len(wire) <= Len(all) /\ wire' = wire \o more
      BY <1>0, <1>1 DEF all, more
    <3> QED
      BY <1>4, <1>5, <3>1
  <2>2. ASSUME hit = 0
        PROVE  heard' \o wire' = BytesOf(sent')
    <3>1. heard \o (wire \o more) = (heard \o wire) \o more
      BY <1>0, <1>2, ConcatAssociative
    <3>2. heard \o wire = all
      BY <1>0, <2>2 DEF all
    <3> QED
      BY <1>1, <1>4, <3>1, <3>2 DEF more
  <2> QED
    BY <1>1, <1>3, <2>1, <2>2 DEF NothingLost
<1>8. ReadsDoNotMatter'
  BY <1>1 DEF StreamInv, ReadsDoNotMatter
<1> QED
  BY <1>6, <1>7, <1>8 DEF StreamInv

\* A read goes on where the last one stopped.
LEMMA ReadKeepsStream ==
    ASSUME StreamInv, NEW n \in 1..Len(wire), Read(n)
    PROVE  StreamInv'
<1> DEFINE incoming == SubSeq(wire, 1, n)
           behind == SubSeq(wire, n + 1, Len(wire))
           found == Extract[buffer \o incoming]
<1>0. /\ sent \in Seq(Payloads) /\ wire \in Seq(Byte) /\ heard \in Seq(Byte)
      /\ buffer \in Seq(Byte) /\ frames \in Seq(Seq(Byte))
      /\ hit \in 0..Len(BytesOf(sent)) /\ Len(wire) <= Len(BytesOf(sent))
      /\ hit = 0 => heard \o wire = BytesOf(sent)
      /\ Extract[heard] = [frames |-> frames, rest |-> buffer]
  BY DEF StreamInv, TypeOK, NothingLost, ReadsDoNotMatter
<1>1. /\ wire' = behind /\ buffer' = found.rest /\ frames' = frames \o found.frames
      /\ heard' = heard \o incoming /\ sent' = sent /\ hit' = hit
  BY DEF Read
<1>2. /\ incoming \in Seq(Byte) /\ behind \in Seq(Byte)
      /\ Len(behind) <= Len(wire) /\ Len(behind) \in Nat /\ Len(wire) \in Nat
      /\ wire = incoming \o behind
  <2>1. n \in 0..Len(wire) /\ Len(wire) \in Nat
    BY <1>0, LenProperties
  <2>2. /\ incoming \in Seq(Byte) /\ behind \in Seq(Byte) /\ Len(behind) = Len(wire) - n
        /\ wire = incoming \o behind
    BY <1>0, <2>1, CutAt
  <2> HIDE DEF incoming, behind
  <2>3. Len(behind) <= Len(wire) /\ Len(behind) \in Nat
    BY <2>1, <2>2
  <2> QED
    BY <2>1, <2>2, <2>3
<1> HIDE DEF incoming, behind
<1>3. /\ heard \in Seq(Int) /\ incoming \in Seq(Int) /\ buffer \in Seq(Int)
      /\ buffer \o incoming \in Seq(Byte) /\ heard \o incoming \in Seq(Byte)
  BY <1>0, <1>2, ByteIsInt, SeqMonotonic, ConcatProperties
<1>4. found \in Found(Byte) /\ found.rest \in Seq(Byte) /\ found.frames \in Seq(Seq(Byte))
  <2>1. found \in Found(Byte)
    BY <1>3, ByteIsInt, ExtractTyped
  <2> HIDE DEF found
  <2> QED
    BY <2>1 DEF Found
<1>5. Extract[heard \o incoming] = [frames |-> frames \o found.frames, rest |-> found.rest]
  <2>1. Extract[heard \o incoming] = InTwoReads(heard, incoming)
    BY <1>3, ExtractInTwo
  <2>2. Extract[heard].frames = frames /\ Extract[heard].rest = buffer
    BY <1>0
  <2> QED
    BY <2>1, <2>2 DEF InTwoReads, Joined
<1> HIDE DEF found
<1>6. ReadsDoNotMatter'
  BY <1>1, <1>5 DEF ReadsDoNotMatter
<1>7. BytesOf(sent)' = BytesOf(sent) /\ Len(BytesOf(sent)) \in Nat
  <2>1. BytesOf(sent)' = BytesOf(sent)
    BY <1>1 DEF BytesOf
  <2>2. BytesOf(sent) \in Seq(Byte)
    BY <1>0, AllTyped
  <2> QED
    BY <2>1, <2>2, LenProperties
<1>8. TypeOK'
  <2>1. frames \o found.frames \in Seq(Seq(Byte))
    BY <1>0, <1>4, ConcatProperties
  <2> QED
    BY <1>0, <1>1, <1>2, <1>3, <1>4, <1>7, <2>1 DEF TypeOK
<1>9. NothingLost'
  <2>1. ASSUME hit = 0
        PROVE  heard' \o wire' = BytesOf(sent)
    <3>1. (heard \o incoming) \o behind = heard \o (incoming \o behind)
      <4>1. heard \in Seq(Byte) /\ incoming \in Seq(Byte) /\ behind \in Seq(Byte)
        BY <1>0, <1>2
      <4> QED
        BY <4>1, ConcatAssociative
    <3>2. heard \o (incoming \o behind) = BytesOf(sent)
      BY <1>0, <1>2, <2>1
    <3> QED
      BY <1>1, <3>1, <3>2
  <2>2. Len(wire') <= Len(BytesOf(sent))
    BY <1>0, <1>1, <1>2, <1>7
  <2> QED
    BY <1>1, <1>7, <2>1, <2>2 DEF NothingLost
<1> QED
  BY <1>6, <1>8, <1>9 DEF StreamInv

\* Damage is to one byte that is under way, and the parser does not see it yet.
LEMMA DamageKeepsStream ==
    ASSUME StreamInv, Damage
    PROVE  StreamInv'
<1>0. /\ sent \in Seq(Payloads) /\ wire \in Seq(Byte) /\ wire # <<>>
      /\ Len(wire) <= Len(BytesOf(sent)) /\ BytesOf(sent) \in Seq(Byte)
  BY AllTyped DEF StreamInv, TypeOK, NothingLost, Damage
<1>1. /\ hit' = Passed + 1 /\ UNCHANGED <<sent, buffer, frames, heard>>
      /\ (\E b \in Byte : wire' = <<b>> \o Tail(wire)) \/ wire' = Tail(wire)
  BY DEF Damage
<1>2. BytesOf(sent)' = BytesOf(sent)
  BY <1>1 DEF BytesOf
<1>3. Len(wire) \in Nat /\ Len(wire) > 0 /\ Len(BytesOf(sent)) \in Nat
  BY <1>0, LenProperties, EmptySeq
<1>4. Tail(wire) \in Seq(Byte) /\ Len(Tail(wire)) = Len(wire) - 1
  BY <1>0, HeadTailProperties
<1>5. wire' \in Seq(Byte) /\ Len(wire') <= Len(wire) /\ Len(wire') \in Nat
  <2>1. ASSUME NEW b \in Byte, wire' = <<b>> \o Tail(wire)
        PROVE  wire' \in Seq(Byte) /\ Len(wire') <= Len(wire)
    <3>1. <<b>> \in Seq(Byte) /\ Len(<<b>>) = 1
      OBVIOUS
    <3>2. <<b>> \o Tail(wire) \in Seq(Byte) /\ Len(<<b>> \o Tail(wire)) = 1 + (Len(wire) - 1)
      BY <1>4, <3>1, ConcatProperties
    <3> QED
      BY <1>3, <2>1, <3>2
  <2>2. ASSUME wire' = Tail(wire)
        PROVE  wire' \in Seq(Byte) /\ Len(wire') <= Len(wire)
    <3>1. Tail(wire) \in Seq(Byte) /\ Len(Tail(wire)) <= Len(wire)
      BY <1>3, <1>4
    <3> QED
      BY <2>2, <3>1
  <2> QED
    BY <1>1, <2>1, <2>2, LenProperties
<1>6. hit' \in 1..Len(BytesOf(sent))
  BY <1>0, <1>1, <1>3 DEF Passed
<1>7. TypeOK'
  BY <1>1, <1>2, <1>3, <1>5, <1>6 DEF StreamInv, TypeOK
<1>8. NothingLost'
  BY <1>0, <1>2, <1>3, <1>5, <1>6 DEF NothingLost
<1>9. ReadsDoNotMatter'
  BY <1>1 DEF StreamInv, ReadsDoNotMatter
<1> QED
  BY <1>7, <1>8, <1>9 DEF StreamInv

\* Every step keeps the stream invariant.
LEMMA NextKeepsStream == StreamInv /\ [Next]_vars => StreamInv'
<1> SUFFICES ASSUME StreamInv, [Next]_vars
             PROVE  StreamInv'
  OBVIOUS
<1>1. CASE \E p \in Payloads : Write(p)
  BY <1>1, WriteKeepsStream
<1>2. CASE \E n \in 1..Len(wire) : Read(n)
  BY <1>2, ReadKeepsStream
<1>3. CASE Damage
  BY <1>3, DamageKeepsStream
<1>4. CASE UNCHANGED vars
  <2>1. UNCHANGED <<sent, wire, buffer, frames, heard, hit>>
    BY <1>4 DEF vars
  <2>2. BytesOf(sent)' = BytesOf(sent)
    BY <2>1 DEF BytesOf
  <2> QED
    BY <2>1, <2>2 DEF StreamInv, TypeOK, NothingLost, ReadsDoNotMatter
<1> QED
  BY <1>1, <1>2, <1>3, <1>4 DEF Next

\* The inductive invariant of the stream: the types, what has been heard and is still
\* under way is what was written unless the radio has touched it (ser.write(), ser.read()),
\* and parsing read by read has the result of parsing everything heard at once.
THEOREM StreamInvHolds == Spec => []StreamInv
  BY StreamInit, NextKeepsStream, PTL DEF Spec

\* What the code keeps has its types: whatever the bytes of a damaged stream, the
\* parser makes byte strings of them and never fails.
THEOREM FramingTypeCorrect == Spec => []TypeOK
<1>1. StreamInv => TypeOK
  BY DEF StreamInv
<1> QED
  BY <1>1, StreamInvHolds, PTL

\* However the serial port cuts or merges the stream, damaged or not, the frames that
\* extract_framed_packets() has returned and the bytes it holds are those of the
\* whole stream parsed at once.
THEOREM FramesDoNotDependOnReads == Spec => []ReadsDoNotMatter
<1>1. StreamInv => ReadsDoNotMatter
  BY DEF StreamInv
<1> QED
  BY <1>1, StreamInvHolds, PTL

\* serial_buffer and rx_buffer hold less than one longest frame after every read, and
\* only from a start marker on.
THEOREM BufferIsBounded == Spec => []HoldsPartOfOneFrame
<1>1. StreamInv => HoldsPartOfOneFrame
  <2> SUFFICES ASSUME StreamInv, buffer # <<>>
               PROVE  Head(buffer) = FRAME_START /\ Len(buffer) < LongestFrame
    BY DEF HoldsPartOfOneFrame
  <2>1. /\ heard \in Seq(Int) /\ buffer \in Seq(Byte)
        /\ Extract[heard] = [frames |-> frames, rest |-> buffer]
    BY ByteIsInt, SeqMonotonic DEF StreamInv, TypeOK, ReadsDoNotMatter
  <2>2. Extract[heard].rest = buffer
    BY <2>1
  <2>3. buffer[1] = FRAME_START /\ Len(buffer) < LongestFrame
    BY <2>1, <2>2, RestIsShort
  <2>4. Head(buffer) = buffer[1]
    BY DEF Head
  <2> QED
    BY <2>3, <2>4
<1> QED
  BY <1>1, StreamInvHolds, PTL

-----------------------------------------------------------------------------
\* A bit that is flipped twice is as it was.
LEMMA DivUp ==
    ASSUME NEW a \in Nat, NEW x \in Nat \ {0}
    PROVE  (a + x) \div x = (a \div x) + 1
  OBVIOUS

\* One divisor less is one less in the quotient.
LEMMA DivDown ==
    ASSUME NEW a \in Nat, NEW x \in Nat \ {0}, a >= x
    PROVE  (a - x) \div x = (a \div x) - 1
<1>1. a - x \in Nat /\ (a - x) + x = a
  OBVIOUS
<1>2. ((a - x) + x) \div x = ((a - x) \div x) + 1
  BY <1>1, DivUp
<1>3. (a - x) \div x \in Int
  BY <1>1
<1> QED
  BY <1>1, <1>2, <1>3

\* An XOR with one bit, applied twice, changes nothing.
LEMMA FlippedTwice ==
    ASSUME NEW a \in Nat
    PROVE  Flipped(Flipped(a)) = a
<1> DEFINE x == FRAME_ESC_XOR
           q == a \div x
<1>1. x \in Nat \ {0}
  BY ConstantsTyped DEF Constants
<1>2. q \in Nat
  BY <1>1
<1>3. CASE q % 2 = 1
  <2>1. a >= x
    BY <1>1, <1>2, <1>3
  <2>2. (a - x) \div x = q - 1
    BY <1>1, <2>1, DivDown
  <2>3. (q - 1) % 2 # 1
    BY <1>2, <1>3
  <2>4. Flipped(a) = a - x
    BY <1>3 DEF Flipped
  <2>5. Flipped(a - x) = (a - x) + x
    BY <2>2, <2>3 DEF Flipped
  <2> QED
    BY <1>1, <2>4, <2>5
<1>4. CASE q % 2 # 1
  <2>1. (a + x) \div x = q + 1
    BY <1>1, DivUp
  <2>2. (q + 1) % 2 = 1
    BY <1>2, <1>4
  <2>3. Flipped(a) = a + x
    BY <1>4 DEF Flipped
  <2>4. Flipped(a + x) = (a + x) - x
    BY <2>1, <2>2 DEF Flipped
  <2> QED
    BY <1>1, <2>3, <2>4
<1> QED
  BY <1>3, <1>4

\* What is chained up first stays in front.
Stays(S, n, f) == \A k \in 0..n : /\ f[k] \in Seq(S) /\ Len(f[k]) \in Nat
                                  /\ Len(f[k]) <= Len(f[n])
                                  /\ \A i \in 1..Len(f[k]) : f[n][i] = f[k][i]

\* The parts of a chain are where the chain says, whatever comes behind.
LEMMA ChainsFront ==
    ASSUME NEW S, NEW w \in Seq(Seq(S)), NEW f, Chains(S, w, f), NEW n, n = Len(w)
    PROVE  Stays(S, n, f)
<1> DEFINE Leads(k) == Len(f[k]) <= Len(f[n]) /\ \A i \in 1..Len(f[k]) : f[n][i] = f[k][i]
           Wrong == {k \in 0..n : ~Leads(n - k)}
<1>0. /\ n \in Nat /\ \A k \in 0..n : f[k] \in Seq(S) /\ Len(f[k]) \in Nat
      /\ \A k \in 1..n : f[k] = f[k - 1] \o w[k] /\ w[k] \in Seq(S)
  BY LenProperties, ElementOfSeq DEF Chains
<1>1. Wrong = {}
  <2> SUFFICES ASSUME Wrong # {}
               PROVE  FALSE
    OBVIOUS
  <2>1. PICK m \in Wrong : \A k \in Wrong : m <= k
    <3>1. Wrong \subseteq Nat
      OBVIOUS
    <3> HIDE DEF Wrong
    <3> QED
      BY <3>1, LeastNumber
  <2>2. m # 0
    <3>1. Leads(n - 0)
      BY <1>0
    <3> QED
      BY <2>1, <3>1
  <2>3. m \in 1..n /\ m - 1 \in 0..n /\ m - 1 \notin Wrong /\ ~Leads(n - m)
    <3>1. m \in 1..n /\ m - 1 \in 0..n /\ ~(m <= m - 1)
      BY <1>0, <2>1, <2>2
    <3> QED
      BY <2>1, <3>1
  <2> DEFINE k == n - m
  <2>4. k \in 0..n /\ k + 1 \in 1..n /\ (k + 1) - 1 = k /\ n - (m - 1) = k + 1 /\ k + 1 \in 0..n
    BY <1>0, <2>3
  <2>5. Leads(k + 1)
    BY <2>3, <2>4
  <2>6. f[k + 1] = f[k] \o w[k + 1] /\ f[k] \in Seq(S) /\ w[k + 1] \in Seq(S)
    BY <1>0, <2>4
  <2> HIDE DEF k, Leads, Wrong
  <2>7. /\ Len(f[k]) \in Nat /\ Len(f[n]) \in Nat
        /\ Len(f[k + 1]) \in Nat /\ Len(f[k]) <= Len(f[k + 1])
        /\ \A i \in 1..Len(f[k]) : i \in 1..Len(f[k + 1]) /\ f[k + 1][i] = f[k][i]
    <3> DEFINE x == f[k]
               y == w[k + 1]
               z == f[k + 1]
    <3>1. x \in Seq(S) /\ y \in Seq(S) /\ z = x \o y
      BY <2>6
    <3>2. Len(f[n]) \in Nat
      BY <1>0
    <3> HIDE DEF x, y, z
    <3>3. /\ Len(x) \in Nat /\ Len(y) \in Nat /\ Len(z) = Len(x) + Len(y)
          /\ \A i \in 1..Len(x) : i \in 1..Len(z) /\ z[i] = x[i]
      <4>1. Row(S, x, y, z)
        BY <3>1, TwoInARow
      <4> QED
        BY <4>1 DEF Row
    <3>4. Len(z) \in Nat /\ Len(x) <= Len(z)
      BY <3>3
    <3> QED
      BY <3>2, <3>3, <3>4 DEF x, z
  <2>8. Leads(k)
    <3> USE DEF Leads
    <3>2. ASSUME NEW i \in 1..Len(f[k])
          PROVE  f[n][i] = f[k][i]
      <4>1. i \in 1..Len(f[k + 1]) /\ f[k + 1][i] = f[k][i]
        BY <2>7
      <4>2. f[n][i] = f[k + 1][i]
        BY <2>5, <4>1
      <4> QED
        BY <4>1, <4>2
    <3> QED
      BY <2>5, <2>7, <3>2
  <2> QED
    BY <2>3, <2>8 DEF k
<1>2. ASSUME NEW k \in 0..n
      PROVE  Leads(k)
  <2>1. n - k \in 0..n /\ n - (n - k) = k
    BY <1>0
  <2>2. n - k \notin Wrong
    BY <1>1
  <2>3. Leads(n - (n - k))
    BY <2>1, <2>2
  <2> QED
    BY <2>1, <2>3
<1> QED
  BY <1>0, <1>2 DEF Stays

-----------------------------------------------------------------------------
\* u begins with a start marker and the length n as it is stuffed; f chains up the
\* bytes of that length.
Opens(u, n, f) == /\ u \in Seq(Int) /\ u # <<>> /\ u[1] = FRAME_START
                  /\ Chains(Byte, Field(n), f) /\ FlattenSeq(Field(n)) = f[LenBytes]
                  /\ \A i \in 1..Len(f[LenBytes]) : 1 + i \in 1..Len(u) /\ u[1 + i] = f[LenBytes][i]

\* s is in u, m bytes behind the start marker.
Placed(u, m, s) == \A j \in 1..Len(s) : 1 + (m + j) \in 1..Len(u) /\ u[1 + (m + j)] = s[j]

\* Byte k of the length is where the bytes before it end.
LEMMA BytePlaces ==
    ASSUME NEW n \in Nat, NEW u, NEW f, Opens(u, n, f), NEW k \in 1..LenBytes
    PROVE  /\ Len(f[k - 1]) \in Nat /\ BigEndian(n)[k] \in Byte
           /\ Len(f[k]) = Len(f[k - 1]) + Len(Stuffed(BigEndian(n)[k]))
           /\ Placed(u, Len(f[k - 1]), Stuffed(BigEndian(n)[k]))
<1> DEFINE w == Field(n)
           b == BigEndian(n)[k]
           m == Len(f[k - 1])
<1>0. /\ LenBytes \in Nat /\ k - 1 \in 0..LenBytes /\ k \in 0..LenBytes
      /\ w \in Seq(Seq(Byte)) /\ Len(w) = LenBytes /\ w[k] = Stuffed(b) /\ b \in Byte
  <2>1. LenBytes \in Nat /\ k - 1 \in 0..LenBytes /\ k \in 0..LenBytes
    BY ConstantsTyped DEF Constants
  <2>2. w[k] = Stuffed(b)
    BY DEF Field
  <2> QED
    BY <2>1, <2>2, FieldTyped, BigEndianTyped
<1>1. /\ Chains(Byte, w, f)
      /\ \A i \in 1..Len(f[LenBytes]) : 1 + i \in 1..Len(u) /\ u[1 + i] = f[LenBytes][i]
  BY DEF Opens
<1> HIDE DEF w
<1>2. \A j \in 0..LenBytes : /\ f[j] \in Seq(Byte) /\ Len(f[j]) \in Nat
                             /\ Len(f[j]) <= Len(f[LenBytes])
                             /\ \A i \in 1..Len(f[j]) : f[LenBytes][i] = f[j][i]
  <2>1. Stays(Byte, LenBytes, f)
    <3> DEFINE c == LenBytes
    <3>1. c = Len(w)
      BY <1>0
    <3> HIDE DEF c
    <3>2. Stays(Byte, c, f)
      BY <1>0, <1>1, <3>1, ChainsFront
    <3> QED
      BY <3>2 DEF c
  <2> QED
    BY <2>1 DEF Stays
<1> DEFINE x == f[k - 1]
           y == Stuffed(b)
           z == f[k]
<1>3. x \in Seq(Byte) /\ y \in Seq(Byte) /\ z = x \o y /\ m = Len(x)
  <2>1. x \in Seq(Byte)
    BY <1>0, <1>2
  <2>2. y \in Seq(Byte)
    BY <1>0, StuffedTyped
  <2>3. f[k] = f[k - 1] \o w[k]
    BY <1>0, <1>1 DEF Chains
  <2> QED
    BY <1>0, <2>1, <2>2, <2>3
<1>4. /\ Len(z) \in Nat /\ Len(z) <= Len(f[LenBytes]) /\ Len(f[LenBytes]) \in Nat
      /\ \A i \in 1..Len(z) : f[LenBytes][i] = z[i]
  BY <1>0, <1>2
<1> HIDE DEF b, m, x, y, z
<1>5. /\ Len(x) \in Nat /\ Len(y) \in Nat /\ Len(z) = Len(x) + Len(y)
      /\ \A i \in 1..Len(y) : Len(x) + i \in 1..Len(z) /\ z[Len(x) + i] = y[i]
  <2>1. Row(Byte, x, y, z)
    BY <1>3, TwoInARow
  <2> QED
    BY <2>1 DEF Row
<1>6. ASSUME NEW j \in 1..Len(y)
      PROVE  1 + (m + j) \in 1..Len(u) /\ u[1 + (m + j)] = y[j]
  <2>1. m + j \in 1..Len(z) /\ z[m + j] = y[j]
    BY <1>3, <1>5
  <2>2. m + j \in 1..Len(f[LenBytes])
    BY <1>4, <2>1
  <2> QED
    BY <1>1, <1>4, <2>1, <2>2
<1> QED
  <2>1. Placed(u, m, y)
    BY <1>6 DEF Placed
  <2> QED
    BY <1>0, <1>3, <1>5, <2>1 DEF b, m, y, z

\* A stuffed byte is the byte itself or the escape byte and the altered byte.
LEMMA EscapedOrNot ==
    ASSUME NEW b \in Byte
    PROVE  \/ /\ Len(Stuffed(b)) = 2 /\ Stuffed(b)[1] = FRAME_ESC /\ Stuffed(b)[2] = Flipped(b)
           \/ /\ Len(Stuffed(b)) = 1 /\ Stuffed(b)[1] = b /\ b # FRAME_ESC
<1>1. CASE b \in Special
  BY <1>1 DEF Stuffed
<1>2. CASE b \notin Special
  BY <1>2 DEF Stuffed, Special
<1> QED
  BY <1>1, <1>2

\* Every byte of the length is found where it was put and decoded to what it was.
LEMMA ByteArrives ==
    ASSUME NEW n \in Nat, NEW u, NEW f, Opens(u, n, f), NEW k \in 1..LenBytes,
           FieldEnd(u)[k - 1] = 2 + Len(f[k - 1])
    PROVE  FieldEnd(u)[k] = 2 + Len(f[k]) /\ Digit(u, k) = BigEndian(n)[k]
<1> DEFINE b == BigEndian(n)[k]
           m == Len(f[k - 1])
           s == Stuffed(b)
           i == 2 + m
<1>1. m \in Nat /\ Len(f[k]) = m + Len(s) /\ b \in Byte /\ Placed(u, m, s)
  BY BytePlaces
<1>2. \/ Len(s) = 2 /\ s[1] = FRAME_ESC /\ s[2] = Flipped(b)
      \/ Len(s) = 1 /\ s[1] = b /\ b # FRAME_ESC
  BY <1>1, EscapedOrNot
<1>3. /\ FieldEnd(u)[k - 1] = i /\ FieldEnd(u)[k] = AfterByte(u, i)
      /\ Digit(u, k) = IF u[i] = FRAME_ESC THEN Flipped(u[i + 1]) ELSE u[i]
  BY FieldEnds DEF Digit
<1>4. Flipped(Flipped(b)) = b
  BY <1>1, FlippedTwice DEF Byte
<1>5. Len(u) \in Nat
  BY LenProperties DEF Opens
<1> HIDE DEF b, m, s
<1>6. i \in 1..Len(u) /\ u[i] = s[1] /\ (Len(s) = 2 => u[i + 1] = s[2])
  <2>1. 1 + (m + 1) = i /\ 1 + (m + 2) = i + 1
    BY <1>1
  <2>2. 1 \in 1..Len(s) /\ (Len(s) = 2 => 2 \in 1..Len(s))
    BY <1>2
  <2> QED
    BY <1>1, <2>1, <2>2 DEF Placed
<1>7. CASE Len(s) = 2 /\ s[1] = FRAME_ESC /\ s[2] = Flipped(b)
  <2>1. AfterByte(u, i) = i + 2 /\ Digit(u, k) = b
    BY <1>3, <1>4, <1>5, <1>6, <1>7 DEF AfterByte
  <2>2. i + 2 = 2 + Len(f[k])
    BY <1>1, <1>7
  <2> QED
    BY <1>3, <2>1, <2>2 DEF b
<1>8. CASE Len(s) = 1 /\ s[1] = b /\ b # FRAME_ESC
  <2>1. AfterByte(u, i) = i + 1 /\ Digit(u, k) = b
    BY <1>3, <1>5, <1>6, <1>8 DEF AfterByte
  <2>2. i + 1 = 2 + Len(f[k])
    BY <1>1, <1>8
  <2> QED
    BY <1>3, <2>1, <2>2 DEF b
<1> QED
  BY <1>2, <1>7, <1>8

\* So the length is read as it was written.
LEMMA LengthArrives ==
    ASSUME NEW n \in 1..MaxLength, NEW u, NEW f, Opens(u, n, f)
    PROVE  /\ HasLength(u) /\ LengthOf(u) = n
           /\ FieldEnd(u)[LenBytes] = 2 + Len(f[LenBytes]) /\ Len(f[LenBytes]) \in Nat
<1>0. /\ LenBytes \in Nat /\ LenBytes \in 0..LenBytes /\ 0 \in 0..LenBytes
      /\ n \in Nat /\ u \in Seq(Int) /\ Len(u) \in Nat /\ Len(u) # 0
      /\ ByteSize \in Nat \ {0}
  BY ConstantsTyped, EmptySeq, LenProperties DEF Constants, Opens
<1>1. Len(f[LenBytes]) \in Nat /\ f[0] = <<>>
  <2>1. Chains(Byte, Field(n), f) /\ Len(Field(n)) = LenBytes
    BY <1>0, FieldTyped DEF Opens
  <2> QED
    BY <1>0, <2>1, LenProperties DEF Chains
<1> DEFINE ends == [k \in 0..LenBytes |-> 2 + Len(f[k])]
<1>2. Alike(LenBytes, FieldEnd(u), ends)
  <2>1. FieldEnd(u)[0] = ends[0]
    BY <1>0, <1>1, FieldEnds
  <2>2. ASSUME NEW k \in 1..LenBytes, FieldEnd(u)[k - 1] = ends[k - 1]
        PROVE  FieldEnd(u)[k] = ends[k]
    <3>1. k - 1 \in 0..LenBytes /\ k \in 0..LenBytes
      BY <1>0
    <3>2. FieldEnd(u)[k - 1] = 2 + Len(f[k - 1]) /\ ends[k] = 2 + Len(f[k])
      BY <2>2, <3>1
    <3> HIDE DEF ends
    <3>3. FieldEnd(u)[k] = 2 + Len(f[k])
      BY <1>0, <3>2, ByteArrives
    <3> QED
      BY <3>2, <3>3
  <2> HIDE DEF ends
  <2> QED
    BY <2>1, <2>2 DEF Alike
<1>3. \A k \in 0..LenBytes : FieldEnd(u)[k] = 2 + Len(f[k])
  <2>1. \A k \in 0..LenBytes : ends[k] = 2 + Len(f[k])
    OBVIOUS
  <2> HIDE DEF ends
  <2>2. \A k \in 0..LenBytes : FieldEnd(u)[k] = ends[k]
    BY <1>0, <1>2, SameSteps
  <2> QED
    BY <2>1, <2>2
<1>4. ASSUME NEW k \in 1..LenBytes
      PROVE  Digit(u, k) = BigEndian(n)[k]
  <2>1. k - 1 \in 0..LenBytes
    BY <1>0
  <2>2. FieldEnd(u)[k - 1] = 2 + Len(f[k - 1])
    BY <1>3, <2>1
  <2> QED
    BY <1>0, <2>2, ByteArrives
<1>5. FieldEnd(u)[LenBytes] = 2 + Len(f[LenBytes])
  BY <1>0, <1>3
<1>6. HasLength(u)
  <2>1. CASE Len(f[LenBytes]) = 0
    BY <1>0, <1>5, <2>1 DEF HasLength
  <2>2. CASE Len(f[LenBytes]) # 0
    <3>1. Len(f[LenBytes]) \in 1..Len(f[LenBytes])
      BY <1>1, <2>2
    <3>2. 1 + Len(f[LenBytes]) \in 1..Len(u)
      BY <3>1 DEF Opens
    <3> QED
      BY <1>0, <1>1, <1>5, <3>2 DEF HasLength
  <2> QED
    BY <2>1, <2>2
<1>7. LengthOf(u) = n
  <2>1. PICK v : AddsUp(u, v) /\ LengthOf(u) = v[LenBytes]
    BY <1>0, <1>6, LengthByDigits
  <2> DEFINE q == Quotients(n)
             back == [k \in 0..LenBytes |-> q[LenBytes - k]]
  <2>2. /\ q \in [0..LenBytes -> Nat] /\ q[0] = n /\ q[LenBytes] = 0
        /\ \A k \in 1..LenBytes : q[k] = q[k - 1] \div ByteSize
    BY <1>0, QuotientsTyped, FramingAssumption DEF FitsField
  <2> HIDE DEF q
  <2>3. back[0] = 0 /\ back[LenBytes] = n
    <3>1. LenBytes - 0 = LenBytes /\ LenBytes - LenBytes = 0
      BY <1>0
    <3> QED
      BY <1>0, <2>2, <3>1
  <2>4. ASSUME NEW k \in 1..LenBytes
        PROVE  back[k] = back[k - 1] * ByteSize + Digit(u, k)
    <3> DEFINE j == LenBytes - k
    <3>1. /\ j \in 0..LenBytes /\ j + 1 \in 1..LenBytes /\ (j + 1) - 1 = j
          /\ LenBytes - (k - 1) = j + 1 /\ k - 1 \in 0..LenBytes /\ k \in 0..LenBytes
      BY <1>0
    <3>2. back[k] = q[j] /\ back[k - 1] = q[j + 1]
      BY <3>1
    <3>3. Digit(u, k) = q[j] % ByteSize
      BY <1>0, <1>4, BigEndianTyped DEF q
    <3> HIDE DEF j, back
    <3>4. q[j + 1] = q[j] \div ByteSize /\ q[j] \in Nat
      BY <2>2, <3>1
    <3>5. \A a \in Nat : (a \div ByteSize) * ByteSize + (a % ByteSize) = a
      BY <1>0
    <3> QED
      BY <3>2, <3>3, <3>4, <3>5
  <2>5. Alike(LenBytes, v, back)
    <3> HIDE DEF back
    <3> QED
      BY <2>1, <2>3, <2>4 DEF AddsUp, Alike
  <2>6. v[LenBytes] = back[LenBytes]
    <3> HIDE DEF back
    <3>1. \A k \in 0..LenBytes : v[k] = back[k]
      BY <1>0, <2>5, SameSteps
    <3> QED
      BY <1>0, <3>1
  <2> QED
    BY <2>1, <2>3, <2>6
<1> QED
  BY <1>1, <1>5, <1>6, <1>7

-----------------------------------------------------------------------------
\* A frame as it is written: the start marker and the length, the payload behind the
\* d bytes of the length, the end marker at its last byte.
Whole(w, p, f, d) == /\ Opens(w, Len(p), f) /\ d = Len(f[LenBytes]) /\ d \in Nat
                     /\ Len(w) = 2 + d + Len(p) /\ w[Len(w)] = FRAME_END
                     /\ \A i \in 1..Len(p) : w[1 + d + i] = p[i]

\* A frame consists of start marker, stuffed length, payload and end marker, each at its place.
LEMMA OnWireWhole ==
    ASSUME NEW p \in Payloads
    PROVE  \E f : \E d : Whole(OnWire(p), p, f, d)
<1> DEFINE w == OnWire(p)
<1>0. /\ Len(p) \in Nat /\ p \in Seq(Byte) /\ LenBytes \in Nat
      /\ Field(Len(p)) \in Seq(Seq(Byte)) /\ Len(Field(Len(p))) = LenBytes
  BY PayloadTyped, FieldTyped, ConstantsTyped DEF Constants
<1>1. PICK f : Chains(Byte, Field(Len(p)), f) /\ FlattenSeq(Field(Len(p))) = f[Len(Field(Len(p)))]
  BY <1>0, FlattenChains
<1>2. FlattenSeq(Field(Len(p))) = f[LenBytes] /\ f[LenBytes] \in Seq(Byte)
  BY <1>0, <1>1 DEF Chains
<1> DEFINE a == <<FRAME_START>>
           l == f[LenBytes]
           z == <<FRAME_END>>
           al == a \o l
           alp == al \o p
<1>3. /\ a \in Seq(Byte) /\ Len(a) = 1 /\ a[1] = FRAME_START
      /\ z \in Seq(Byte) /\ Len(z) = 1 /\ z[1] = FRAME_END
      /\ l \in Seq(Byte) /\ p \in Seq(Byte)
  <2>1. FRAME_START \in Byte /\ FRAME_END \in Byte
    BY FramingAssumption DEF Special
  <2> HIDE DEF Byte
  <2> QED
    BY <1>0, <1>2, <2>1
<1>4. w = alp \o z /\ w \in Seq(Byte)
  BY <1>2, OnWireTyped
<1> HIDE DEF w, a, l, z
<1>5. /\ al \in Seq(Byte) /\ Len(al) = 1 + Len(l) /\ Len(l) \in Nat /\ al[1] = FRAME_START
      /\ \A i \in 1..Len(l) : 1 + i \in 1..Len(al) /\ al[1 + i] = l[i]
  <2>1. al = a \o l
    OBVIOUS
  <2> HIDE DEF al
  <2>2. Row(Byte, a, l, al)
    BY <1>3, <2>1, TwoInARow
  <2>3. 1 \in 1..Len(a)
    BY <1>3
  <2> QED
    BY <1>3, <2>2, <2>3 DEF Row
<1> HIDE DEF al
<1>6. /\ alp \in Seq(Byte) /\ Len(alp) = Len(al) + Len(p)
      /\ \A i \in 1..Len(al) : i \in 1..Len(alp) /\ alp[i] = al[i]
      /\ \A i \in 1..Len(p) : Len(al) + i \in 1..Len(alp) /\ alp[Len(al) + i] = p[i]
  <2>1. alp = al \o p
    OBVIOUS
  <2> HIDE DEF alp
  <2>2. Row(Byte, al, p, alp)
    BY <1>3, <1>5, <2>1, TwoInARow
  <2> QED
    BY <2>2 DEF Row
<1> HIDE DEF alp
<1>7. /\ Len(w) = Len(alp) + 1
      /\ \A i \in 1..Len(alp) : i \in 1..Len(w) /\ w[i] = alp[i]
      /\ w[Len(alp) + 1] = FRAME_END
  <2>1. /\ Len(w) = Len(alp) + Len(z)
        /\ \A i \in 1..Len(alp) : i \in 1..Len(w) /\ w[i] = alp[i]
        /\ \A i \in 1..Len(z) : Len(alp) + i \in 1..Len(w) /\ w[Len(alp) + i] = z[i]
    <3>1. Row(Byte, alp, z, w)
      BY <1>3, <1>4, <1>6, TwoInARow
    <3> QED
      BY <3>1 DEF Row
  <2>2. 1 \in 1..Len(z)
    BY <1>3
  <2> QED
    BY <1>3, <2>1, <2>2
<1>8. /\ Len(w) = 2 + Len(l) + Len(p) /\ w[Len(w)] = FRAME_END
      /\ \A i \in 1..Len(p) : w[1 + Len(l) + i] = p[i]
  <2>1. Len(w) = 2 + Len(l) + Len(p)
    BY <1>0, <1>5, <1>6, <1>7
  <2>2. ASSUME NEW i \in 1..Len(p)
        PROVE  w[1 + Len(l) + i] = p[i]
    <3>1. Len(al) + i = 1 + Len(l) + i
      BY <1>5
    <3>2. Len(al) + i \in 1..Len(alp) /\ alp[Len(al) + i] = p[i]
      BY <1>6
    <3> QED
      BY <1>7, <3>1, <3>2
  <2> QED
    BY <1>7, <2>1, <2>2
<1>9. Opens(w, Len(p), f)
  <2>1. \A i \in 1..Len(al) : i \in 1..Len(w) /\ w[i] = al[i]
    BY <1>6, <1>7
  <2>2. 1 \in 1..Len(al)
    BY <1>5
  <2>3. w[1] = FRAME_START /\ w # <<>> /\ w \in Seq(Int)
    <3>1. w \in Seq(Int)
      BY <1>4, ByteIsInt, SeqMonotonic
    <3>2. w[1] = FRAME_START /\ 1 \in 1..Len(w)
      BY <1>5, <2>1, <2>2
    <3> QED
      BY <3>1, <3>2, EmptySeq
  <2>4. \A i \in 1..Len(l) : 1 + i \in 1..Len(w) /\ w[1 + i] = l[i]
    BY <1>5, <2>1
  <2> QED
    BY <1>1, <1>2, <2>3, <2>4 DEF Opens, l
<1> QED
  BY <1>5, <1>8, <1>9 DEF Whole, w, l

\* More bytes behind the frame do not matter.
LEMMA OpensStays ==
    ASSUME NEW w, NEW n, NEW f, Opens(w, n, f), NEW t \in Seq(Int), NEW u, u = w \o t
    PROVE  Opens(u, n, f)
<1>1. w \in Seq(Int) /\ w # <<>> /\ w[1] = FRAME_START
  BY DEF Opens
<1>2. /\ u \in Seq(Int) /\ Len(u) = Len(w) + Len(t) /\ Len(w) \in Nat /\ Len(t) \in Nat
      /\ \A i \in 1..Len(w) : i \in 1..Len(u) /\ u[i] = w[i]
  <2>1. Row(Int, w, t, u)
    BY <1>1, TwoInARow
  <2> QED
    BY <2>1 DEF Row
<1>3. 1 \in 1..Len(w)
  BY <1>1, EmptySeq, LenProperties
<1>4. u[1] = FRAME_START /\ u # <<>>
  BY <1>1, <1>2, <1>3, EmptySeq
<1> QED
  BY <1>2, <1>4 DEF Opens

\* A whole frame is taken out as it was put in, and the parser goes on behind it.
LEMMA FrameArrives ==
    ASSUME NEW p \in Payloads, NEW t \in Seq(Byte)
    PROVE  Extract[OnWire(p) \o t] = Then(p, Extract[t])
<1> DEFINE w == OnWire(p)
           u == w \o t
<1>1. PICK f, d : Whole(w, p, f, d)
  BY OnWireWhole
<1>2. /\ Opens(w, Len(p), f) /\ d = Len(f[LenBytes]) /\ d \in Nat
      /\ Len(w) = 2 + d + Len(p) /\ w[Len(w)] = FRAME_END
      /\ \A i \in 1..Len(p) : w[1 + d + i] = p[i]
      /\ w \in Seq(Byte) /\ p \in Seq(Byte) /\ Len(p) \in 1..MaxLength /\ Len(p) \in Nat
      /\ MaxLength \in Nat
  BY <1>1, OnWireTyped, PayloadTyped, ConstantsTyped DEF Whole, Constants
<1> HIDE DEF w
<1>3. /\ u \in Seq(Byte) /\ Len(u) = Len(w) + Len(t) /\ Len(t) \in Nat
      /\ \A i \in 1..Len(w) : i \in 1..Len(u) /\ u[i] = w[i]
      /\ \A i \in 1..Len(t) : Len(w) + i \in 1..Len(u) /\ u[Len(w) + i] = t[i]
  <2>1. u = w \o t
    OBVIOUS
  <2> HIDE DEF u
  <2>2. Row(Byte, w, t, u)
    BY <1>2, <2>1, TwoInARow
  <2> QED
    BY <2>2 DEF Row
<1>4. Opens(u, Len(p), f)
  <2>1. t \in Seq(Int)
    BY ByteIsInt, SeqMonotonic
  <2> QED
    BY <1>2, <2>1, OpensStays
<1> HIDE DEF u
<1>5. u \in Seq(Int) /\ u # <<>> /\ u[1] = FRAME_START /\ FromStart(u) = u
  BY <1>4, FromStartSame DEF Opens
<1>6. /\ HasLength(u) /\ LengthOf(u) = Len(p) /\ FieldEnd(u)[LenBytes] = 2 + d
      /\ FrameSize(u) = Len(w)
  BY <1>2, <1>4, LengthArrives DEF FrameSize
<1>7. Framed(u)
  <2>1. ~BadLength(LengthOf(u))
    BY <1>2, <1>6 DEF BadLength
  <2>2. Len(w) \in 1..Len(w) /\ Len(w) \in Nat
    BY <1>2
  <2>3. u[FrameSize(u)] = FRAME_END /\ ~(Len(u) < FrameSize(u))
    <3>1. u[Len(w)] = w[Len(w)] /\ ~(Len(u) < Len(w))
      BY <1>3, <2>2
    <3> QED
      BY <1>2, <1>6, <3>1
  <2> QED
    BY <1>5, <1>6, <2>1, <2>3 DEF Framed
<1>8. PayloadOf(u) = p
  <2> DEFINE m == 2 + d
             n == Len(w) - 1
             x == SubSeq(u, m, n)
  <2>1. m \in Int /\ n \in Int /\ m <= n /\ n - m + 1 = Len(p) /\ m..n \subseteq 1..Len(u)
    BY <1>2, <1>3
  <2>2. \A i \in m..n : u[i] \in Byte
    BY <1>3, <2>1, ElementOfSeq
  <2> HIDE DEF m, n
  <2>3. /\ x \in Seq(Byte) /\ Len(x) = Len(p)
        /\ \A i \in 1..Len(p) : x[i] = u[m + i - 1]
    BY <2>1, <2>2, SubSeqProperties
  <2>4. ASSUME NEW i \in 1..Len(p)
        PROVE  x[i] = p[i]
    <3>1. m + i - 1 = 1 + d + i /\ 1 + d + i \in 1..Len(w)
      BY <1>2 DEF m
    <3> HIDE DEF x
    <3>2. u[1 + d + i] = w[1 + d + i]
      BY <1>3, <3>1
    <3> QED
      BY <1>2, <2>3, <3>1, <3>2
  <2>5. x = p
    BY <1>2, <2>3, <2>4, SeqEqual
  <2> QED
    BY <1>6, <2>5 DEF PayloadOf, m, n
<1>9. Behind(u) = t
  <2> DEFINE m == Len(w) + 1
             n == Len(u)
             x == SubSeq(u, m, n)
  <2>1. m \in Int /\ n \in Int /\ m..n \subseteq 1..Len(u) /\ n \in Nat
    BY <1>2, <1>3
  <2>2. \A i \in m..n : u[i] \in Byte
    BY <1>3, <2>1, ElementOfSeq
  <2>3. n - m + 1 = Len(t) /\ (~(m <= n) => Len(t) = 0)
    BY <1>2, <1>3
  <2>4. \A i \in 1..Len(t) : u[m + i - 1] = t[i]
    <3>1. \A i \in 1..Len(t) : m + i - 1 = Len(w) + i
      BY <1>2
    <3> HIDE DEF m
    <3> QED
      BY <1>3, <3>1
  <2> HIDE DEF m, n
  <2>5. /\ x \in Seq(Byte) /\ Len(x) = Len(t)
        /\ \A i \in 1..Len(t) : x[i] = u[m + i - 1]
    BY <1>3, <2>1, <2>2, <2>3, SubSeqProperties
  <2>6. x = t
    BY <2>4, <2>5, SeqEqual
  <2> QED
    BY <1>6, <2>6 DEF Behind, m, n
<1>10. Extract[u] = Then(PayloadOf(u), Extract[Behind(u)])
  BY <1>5, <1>7, ExtractCases
<1> QED
  BY <1>8, <1>9, <1>10 DEF u, w

\* The parser waits for the rest of a frame that has begun.
LEMMA PartWaits ==
    ASSUME NEW p \in Payloads, NEW x \in Seq(Byte), x # <<>>, Len(x) < Len(OnWire(p)),
           \A i \in 1..Len(x) : OnWire(p)[i] = x[i]
    PROVE  Waits(x) /\ Extract[x] = Nothing(x)
<1> DEFINE w == OnWire(p)
<1>1. PICK f, d : Whole(w, p, f, d)
  BY OnWireWhole
<1>2. /\ Opens(w, Len(p), f) /\ d = Len(f[LenBytes]) /\ d \in Nat
      /\ Len(w) = 2 + d + Len(p) /\ Len(p) \in 1..MaxLength /\ Len(p) \in Nat
      /\ w \in Seq(Int) /\ w[1] = FRAME_START /\ x \in Seq(Int) /\ Len(x) \in Nat
      /\ MaxLength \in Nat
  BY <1>1, PayloadTyped, ByteIsInt, SeqMonotonic, LenProperties, ConstantsTyped
     DEF Whole, Opens, Constants
<1>3. Len(x) <= Len(w) /\ \A i \in 1..Len(x) : w[i] = x[i]
  BY <1>2
<1> HIDE DEF w
<1>4. x[1] = FRAME_START /\ FromStart(x) = x
  <2>1. 1 \in 1..Len(x)
    BY <1>2, EmptySeq
  <2>2. x[1] = FRAME_START
    BY <1>2, <1>3, <2>1
  <2> QED
    BY <1>2, <2>2, FromStartSame
<1>5. LengthOf(w) = Len(p) /\ FieldEnd(w)[LenBytes] = 2 + d
  BY <1>2, LengthArrives
<1>6. CASE HasLength(x)
  <2>1. FieldEnd(x)[LenBytes] = 2 + d /\ LengthOf(x) = Len(p)
    BY <1>2, <1>3, <1>5, <1>6, LengthStays
  <2>2. ~BadLength(LengthOf(x)) /\ FrameSize(x) = Len(w)
    BY <1>2, <2>1 DEF BadLength, FrameSize
  <2>3. Len(x) < Len(w)
    BY DEF w
  <2> QED
    BY <1>2, <1>4, <2>2, <2>3, ExtractCases DEF Waits
<1>7. CASE ~HasLength(x)
  BY <1>2, <1>4, <1>7, ExtractCases DEF Waits
<1> QED
  BY <1>6, <1>7

-----------------------------------------------------------------------------
\* Two sequences behind each other, cut at another place further back.
Between(S, x, y, w, r, t) == t \in Seq(S) /\ x = w \o t /\ t \o y = r

\* Of two cuts of the same bytes, the one further on has what lies between in front of it.
LEMMA CutFurther ==
    ASSUME NEW S, NEW x \in Seq(S), NEW y \in Seq(S), NEW w \in Seq(S), NEW r \in Seq(S),
           NEW z, Row(S, x, y, z), Row(S, w, r, z), Len(w) <= Len(x)
    PROVE  \E t : Between(S, x, y, w, r, t)
<1>1. Row(S, x, y, z) /\ Row(S, w, r, z)
  OBVIOUS
<1>2. /\ Len(x) \in Nat /\ Len(y) \in Nat /\ Len(w) \in Nat /\ Len(r) \in Nat
      /\ Len(z) = Len(x) + Len(y) /\ Len(z) = Len(w) + Len(r)
      /\ \A i \in 1..Len(x) : z[i] = x[i]
      /\ \A i \in 1..Len(w) : z[i] = w[i]
      /\ \A i \in 1..Len(y) : z[Len(x) + i] = y[i]
      /\ \A i \in 1..Len(r) : z[Len(w) + i] = r[i]
  BY <1>1 DEF Row
<1> DEFINE n == Len(x) - Len(w)
           t == [i \in 1..n |-> x[Len(w) + i]]
<1>3. n \in Nat
  BY <1>2
<1>4. t \in Seq(S) /\ Len(t) = n /\ \A i \in 1..n : t[i] = x[Len(w) + i]
  <2>1. \A i \in 1..n : x[Len(w) + i] \in S
    <3>1. \A i \in 1..n : Len(w) + i \in 1..Len(x)
      BY <1>2
    <3> QED
      BY <3>1, ElementOfSeq
  <2> HIDE DEF n
  <2> QED
    BY <1>3, <2>1
<1> HIDE DEF t
<1>5. Row(S, w, t, w \o t) /\ Row(S, t, y, t \o y)
  <2>1. \A a \in Seq(S), b \in Seq(S) : Row(S, a, b, a \o b)
    BY TwoInARow
  <2> QED
    BY <1>4, <2>1
<1>6. x = w \o t
  <2> DEFINE v == w \o t
  <2>1. /\ v \in Seq(S) /\ Len(v) = Len(w) + n
        /\ \A i \in 1..Len(w) : v[i] = w[i]
        /\ \A i \in 1..n : v[Len(w) + i] = t[i]
    BY <1>4, <1>5 DEF Row
  <2> HIDE DEF v
  <2>2. ASSUME NEW i \in 1..Len(x)
        PROVE  x[i] = v[i]
    <3>1. CASE i <= Len(w)
      <4>1. i \in 1..Len(w)
        BY <1>2, <3>1
      <4> QED
        BY <1>2, <2>1, <4>1
    <3>2. CASE ~(i <= Len(w))
      <4>1. i - Len(w) \in 1..n /\ Len(w) + (i - Len(w)) = i
        BY <1>2, <3>2
      <4> QED
        BY <1>4, <2>1, <4>1
    <3> QED
      BY <3>1, <3>2
  <2>3. Len(x) = Len(v)
    BY <1>2, <2>1
  <2>4. x = v
    BY <2>1, <2>2, <2>3, SeqEqual
  <2> QED
    BY <2>4 DEF v
<1>7. t \o y = r
  <2> DEFINE v == t \o y
  <2>1. /\ v \in Seq(S) /\ Len(v) = n + Len(y)
        /\ \A i \in 1..n : v[i] = t[i]
        /\ \A i \in 1..Len(y) : v[n + i] = y[i]
    BY <1>4, <1>5 DEF Row
  <2> HIDE DEF v
  <2>2. ASSUME NEW i \in 1..Len(r)
        PROVE  r[i] = v[i]
    <3>1. r[i] = z[Len(w) + i]
      BY <1>2
    <3>2. CASE i <= n
      <4>1. i \in 1..n /\ Len(w) + i \in 1..Len(x)
        BY <1>2, <1>3, <3>2
      <4> QED
        BY <1>2, <1>4, <2>1, <3>1, <4>1
    <3>3. CASE ~(i <= n)
      <4>1. i - n \in 1..Len(y) /\ n + (i - n) = i /\ Len(x) + (i - n) = Len(w) + i
        BY <1>2, <3>3
      <4> QED
        BY <1>2, <2>1, <3>1, <4>1
    <3> QED
      BY <3>2, <3>3
  <2>3. Len(r) = Len(v)
    <3>1. Len(r) = n + Len(y)
      <4>1. \A a \in Nat, b \in Nat, c \in Nat, d \in Nat : a + b = c + d => d = (a - c) + b
        OBVIOUS
      <4>2. Len(x) + Len(y) = Len(w) + Len(r)
        BY <1>2, Zenon
      <4> QED
        BY <1>2, <4>1, <4>2
    <3> HIDE DEF n
    <3> QED
      BY <2>1, <3>1
  <2>4. r = v
    BY <2>1, <2>2, <2>3, SeqEqual
  <2> QED
    BY <2>4 DEF v
<1> QED
  BY <1>4, <1>6, <1>7 DEF Between

\* A sequence is its first member and the others.
LEMMA HeadAndTail ==
    ASSUME NEW S, NEW s \in Seq(S), s # <<>>
    PROVE  s = <<Head(s)>> \o Tail(s)
<1> DEFINE a == <<Head(s)>>
           b == Tail(s)
           z == a \o b
<1>1. /\ a \in Seq(S) /\ Len(a) = 1 /\ a[1] = s[1]
      /\ b \in Seq(S) /\ Len(b) = Len(s) - 1 /\ \A i \in 1..(Len(s) - 1) : b[i] = s[i + 1]
      /\ Len(s) \in Nat
  BY HeadTailProperties, LenProperties
<1>2. z = a \o b
  OBVIOUS
<1> HIDE DEF a, b, z
<1>3. Row(S, a, b, z)
  BY <1>1, <1>2, TwoInARow
<1>4. z \in Seq(S) /\ Len(z) = Len(s)
  BY <1>1, <1>3 DEF Row
<1>5. ASSUME NEW i \in 1..Len(s)
      PROVE  s[i] = z[i]
  <2>1. CASE i = 1
    <3>1. i \in 1..Len(a)
      BY <1>1, <2>1
    <3> QED
      BY <1>1, <1>3, <2>1, <3>1 DEF Row
  <2>2. CASE i # 1
    <3>1. i - 1 \in 1..Len(b) /\ Len(a) + (i - 1) = i /\ (i - 1) + 1 = i
      BY <1>1, <2>2
    <3> QED
      BY <1>1, <1>3, <3>1 DEF Row
  <2> QED
    BY <2>1, <2>2
<1>6. s = z
  BY <1>4, <1>5, SeqEqual
<1> QED
  BY <1>2, <1>6 DEF a, b

\* The parser has made of x, the front of the bytes of P, the first packets of P, and
\* all of them of all the bytes.
Clean(P, x, y) == /\ \E z \in Seq(Payloads) : P = Extract[x].frames \o z
                  /\ Extract[x].frames \in Seq(Payloads)
                  /\ y = <<>> => Extract[x] = [frames |-> P, rest |-> <<>>]

\* If the packets behind the first arrive, so do all.
LEMMA CleanOneMore ==
    ASSUME NEW P \in Seq(Payloads), NEW p \in Payloads, NEW x \in Seq(Byte), NEW y \in Seq(Byte),
           x \o y = OnWire(p) \o BytesOf(P),
           \A a \in Seq(Byte), b \in Seq(Byte) : a \o b = BytesOf(P) => Clean(P, a, b)
    PROVE  Clean(<<p>> \o P, x, y)
<1> DEFINE w == OnWire(p)
           r == BytesOf(P)
           Q == <<p>> \o P
<1>0. /\ w \in Seq(Byte) /\ r \in Seq(Byte) /\ Len(w) \in Nat /\ Len(x) \in Nat
      /\ <<p>> \in Seq(Payloads) /\ Q \in Seq(Payloads) /\ <<p>> # <<>>
  BY OnWireTyped, AllTyped, LenProperties, ConcatProperties
<1>1. CASE Len(w) <= Len(x)
  <2> DEFINE u == x \o y
  <2>0. u = x \o y /\ u = w \o r
    OBVIOUS
  <2> HIDE DEF u, w, r, Q
  <2>1. PICK t \in Seq(Byte) : x = w \o t /\ t \o y = r
    <3>1. Row(Byte, x, y, u) /\ Row(Byte, w, r, u)
      BY <1>0, <2>0, TwoInARow
    <3>2. \E t : Between(Byte, x, y, w, r, t)
      BY <1>0, <1>1, <3>1, CutFurther
    <3> QED
      BY <3>2 DEF Between
  <2>2. Clean(P, t, y)
    BY <2>1 DEF r
  <2> DEFINE g == Extract[t].frames
  <2>3. Extract[x] = Then(p, Extract[t])
    BY <2>1, FrameArrives DEF w
  <2>4. /\ Extract[x].frames = <<p>> \o g /\ Extract[x].rest = Extract[t].rest
        /\ Extract[x] = [frames |-> <<p>> \o g, rest |-> Extract[t].rest]
    BY <2>3 DEF Then
  <2>5. PICK z \in Seq(Payloads) : P = g \o z
    BY <2>2 DEF Clean
  <2>6. g \in Seq(Payloads)
    BY <2>2 DEF Clean
  <2>7. y = <<>> => g = P /\ Extract[t].rest = <<>>
    BY <2>2 DEF Clean
  <2> HIDE DEF g
  <2>8. (<<p>> \o g) \o z = <<p>> \o (g \o z)
    <3> DEFINE a == <<p>>
    <3>1. a \in Seq(Payloads)
      BY <1>0
    <3> HIDE DEF a
    <3>2. (a \o g) \o z = a \o (g \o z)
      BY <2>6, <3>1, ConcatAssociative
    <3> QED
      BY <3>2 DEF a
  <2>9. <<p>> \o g \in Seq(Payloads)
    BY <1>0, <2>6, ConcatProperties
  <2> QED
    BY <2>4, <2>5, <2>7, <2>8, <2>9 DEF Clean, Q
<1>2. CASE ~(Len(w) <= Len(x))
  <2> DEFINE u == x \o y
  <2>0. u = x \o y /\ u = w \o r
    OBVIOUS
  <2> HIDE DEF u, w, r, Q
  <2>1. Row(Byte, x, y, u) /\ Row(Byte, w, r, u)
    BY <1>0, <2>0, TwoInARow
  <2>2. Len(x) < Len(w) /\ \A i \in 1..Len(x) : w[i] = x[i]
    BY <1>0, <1>2, <2>1 DEF Row
  <2>3. y # <<>>
    <3>1. Len(y) > 0
      BY <1>0, <2>1, <2>2 DEF Row
    <3> QED
      BY <3>1
  <2>4. Extract[x].frames = <<>>
    <3>1. CASE x = <<>>
      BY <3>1, NothingHeard
    <3>2. CASE x # <<>>
      <4>1. Extract[x] = Nothing(x)
        BY <2>2, <3>2, PartWaits DEF w
      <4> QED
        BY <4>1 DEF Nothing
    <3> QED
      BY <3>1, <3>2
  <2>5. Q = <<>> \o Q /\ <<>> \in Seq(Payloads)
    BY <1>0, ConcatEmptySeq, EmptySeq
  <2> QED
    BY <1>0, <2>3, <2>4, <2>5 DEF Clean, Q
<1> QED
  BY <1>1, <1>2

\* Of undamaged bytes, however far they have been heard, the packets arrive.
LEMMA CleanStream ==
    ASSUME NEW Q \in Seq(Payloads), NEW x \in Seq(Byte), NEW y \in Seq(Byte), x \o y = BytesOf(Q)
    PROVE  Clean(Q, x, y)
<1> DEFINE Good(P) == \A a \in Seq(Byte), b \in Seq(Byte) : a \o b = BytesOf(P) => Clean(P, a, b)
           Wrong == {n \in Nat : \E P \in Seq(Payloads) : Len(P) = n /\ ~Good(P)}
<1>1. SUFFICES ASSUME Wrong # {}
               PROVE  FALSE
  <2>1. Len(Q) \in Nat
    BY LenProperties
  <2>2. Good(Q)
    BY <1>1, <2>1
  <2> QED
    BY <2>2
<1>2. PICK n \in Wrong : \A k \in Wrong : n <= k
  <2>1. Wrong \subseteq Nat
    OBVIOUS
  <2> HIDE DEF Wrong
  <2> QED
    BY <1>1, <2>1, LeastNumber
<1>3. PICK P \in Seq(Payloads) : Len(P) = n /\ ~Good(P)
  BY <1>2
<1>4. CASE P = <<>>
  <2>1. ASSUME NEW a \in Seq(Byte), NEW b \in Seq(Byte), a \o b = BytesOf(P)
        PROVE  Clean(P, a, b)
    <3>1. a \o b = <<>>
      BY <1>4, <2>1, NoneWritten
    <3>2. Len(a \o b) = Len(a) + Len(b) /\ Len(a) \in Nat /\ Len(b) \in Nat
      BY ConcatProperties, LenProperties
    <3>3. a = <<>>
      <4>1. Len(a) + Len(b) = 0
        BY <3>1, <3>2
      <4> QED
        BY <3>2, <4>1, EmptySeq
    <3>4. Extract[a].frames = <<>> /\ Extract[a] = [frames |-> P, rest |-> <<>>]
      BY <1>4, <3>3, NothingHeard
    <3>5. P = <<>> \o <<>> /\ <<>> \in Seq(Payloads)
      BY <1>4
    <3> QED
      BY <3>4, <3>5 DEF Clean
  <2> QED
    BY <1>3, <2>1
<1>5. CASE P # <<>>
  <2> DEFINE p == Head(P)
             T == Tail(P)
  <2>1. p \in Payloads /\ T \in Seq(Payloads) /\ Len(T) = n - 1 /\ n - 1 \in Nat /\ P = <<p>> \o T
    <3>1. /\ p \in Payloads /\ T \in Seq(Payloads) /\ Len(T) = Len(P) - 1
      BY <1>5, HeadTailProperties
    <3>2. P = <<p>> \o T
      BY <1>5, HeadAndTail
    <3> QED
      BY <1>3, <3>1, <3>2, LenProperties
  <2> HIDE DEF p, T
  <2>2. Good(T)
    <3>1. n - 1 \notin Wrong
      <4>1. n \in Nat /\ ~(n <= n - 1)
        BY <1>2
      <4> HIDE DEF Wrong
      <4> QED
        BY <1>2, <4>1
    <3> QED
      BY <2>1, <3>1
  <2>3. Good(P)
    <3> SUFFICES ASSUME NEW a \in Seq(Byte), NEW b \in Seq(Byte), a \o b = BytesOf(P)
                 PROVE  Clean(P, a, b)
      OBVIOUS
    <3>1. a \o b = OnWire(p) \o BytesOf(T)
      BY <2>1, OneMoreWritten
    <3>2. Clean(<<p>> \o T, a, b)
      BY <2>1, <2>2, <3>1, CleanOneMore
    <3> QED
      BY <2>1, <3>2
  <2> QED
    BY <1>3, <2>3
<1> QED
  BY <1>4, <1>5

\* What a sequence begins with is a prefix of it.
LEMMA FrontIsPrefix ==
    ASSUME NEW S, NEW g \in Seq(S), NEW z, NEW P, Row(S, g, z, P)
    PROVE  IsPrefix(g, P)
<1>1. Row(S, g, z, P)
  OBVIOUS
<1>2. Len(g) <= Len(P) /\ Len(g) \in Nat /\ \A i \in 1..Len(g) : P[i] = g[i] /\ g[i] \in S
  BY <1>1, ElementOfSeq DEF Row
<1> DEFINE n == Len(g)
           a == SubSeq(g, 1, n)
           b == SubSeq(P, 1, n)
<1>3. n \in Nat /\ \A i \in 1..n : P[i] = g[i] /\ g[i] \in S /\ P[i] \in S /\ 1 + i - 1 = i
  BY <1>2
<1> HIDE DEF n
<1>4. a \in Seq(S) /\ Len(a) = n /\ \A i \in 1..n : a[i] = g[i]
  BY <1>3, SubSeqProperties
<1>5. b \in Seq(S) /\ Len(b) = n /\ \A i \in 1..n : b[i] = P[i]
  BY <1>3, SubSeqProperties
<1>6. a = b
  BY <1>3, <1>4, <1>5, SeqEqual
<1> QED
  BY <1>2, <1>6 DEF IsPrefix, n

\* Without damage every frame arrives, in order and unaltered: whatever the bytes of
\* the payloads, the lengths that need stuffing and the way the reads cut the stream,
\* what extract_framed_packets() has returned is a beginning of what
\* write_transport_packet() wrote, and all of it when nothing is under way.
THEOREM FramesArrive == Spec => []UndamagedArrives
<1>1. StreamInv => UndamagedArrives
  <2> SUFFICES ASSUME StreamInv, hit = 0
               PROVE  /\ IsPrefix(frames, sent)
                      /\ wire = <<>> => frames = sent /\ buffer = <<>>
    BY DEF UndamagedArrives
  <2>1. /\ sent \in Seq(Payloads) /\ heard \in Seq(Byte) /\ wire \in Seq(Byte)
        /\ heard \o wire = BytesOf(sent)
        /\ Extract[heard] = [frames |-> frames, rest |-> buffer]
    BY DEF StreamInv, TypeOK, NothingLost, ReadsDoNotMatter
  <2>2. Clean(sent, heard, wire)
    BY <2>1, CleanStream
  <2>3. Extract[heard].frames = frames
    BY <2>1
  <2>4. frames \in Seq(Payloads) /\ \E z \in Seq(Payloads) : sent = frames \o z
    BY <2>2, <2>3 DEF Clean
  <2>5. IsPrefix(frames, sent)
    <3>1. PICK z \in Seq(Payloads) : sent = frames \o z
      BY <2>4
    <3>2. Row(Payloads, frames, z, sent)
      BY <2>4, <3>1, TwoInARow
    <3> QED
      BY <2>4, <3>2, FrontIsPrefix
  <2>6. ASSUME wire = <<>>
        PROVE  frames = sent /\ buffer = <<>>
    <3>1. Extract[heard] = [frames |-> sent, rest |-> <<>>]
      BY <2>2, <2>6 DEF Clean
    <3>2. Extract[heard].frames = sent /\ Extract[heard].rest = <<>>
      BY <3>1
    <3>3. Extract[heard].rest = buffer
      BY <2>1
    <3> QED
      BY <2>3, <3>2, <3>3
  <2> QED
    BY <2>5, <2>6
<1> QED
  BY <1>1, StreamInvHolds, PTL

-----------------------------------------------------------------------------
\* There is no start marker inside a frame: the payload is ASCII text, and in the
\* length it would have been escaped.
LEMMA NoStartInField ==
    ASSUME NEW n \in Nat
    PROVE  FlattenSeq(Field(n)) \in Seq(Byte \ {FRAME_START})
<1> DEFINE S == Byte \ {FRAME_START}
<1>0. LenBytes \in Nat
  BY ConstantsTyped DEF Constants
<1>1. ASSUME NEW k \in 1..LenBytes
      PROVE  Stuffed(BigEndian(n)[k]) \in Seq(S)
  <2> DEFINE b == BigEndian(n)[k]
  <2>1. b \in Byte
    BY BigEndianTyped
  <2>2. /\ FRAME_ESC \in S
        /\ b \in Special => Flipped(b) \in S
        /\ b \notin Special => b \in S
    BY <2>1, FramingAssumption DEF Special
  <2> HIDE DEF b, S
  <2>3. Stuffed(b) \in Seq(S)
    BY <2>2 DEF Stuffed
  <2> QED
    BY <2>3 DEF b
<1> HIDE DEF S
<1>2. Field(n) \in Seq(Seq(S))
  BY <1>0, <1>1 DEF Field
<1>3. FlattenSeq(Field(n)) \in Seq(S)
  BY <1>2, FlattenTyped
<1> QED
  BY <1>3 DEF S

\* The only start marker of a frame is its first byte.
LEMMA OneStart ==
    ASSUME NEW p \in Payloads, NEW i \in 1..Len(OnWire(p)), OnWire(p)[i] = FRAME_START
    PROVE  i = 1
<1> DEFINE w == OnWire(p)
<1>1. PICK f, d : Whole(w, p, f, d)
  BY OnWireWhole
<1>2. /\ Opens(w, Len(p), f) /\ d = Len(f[LenBytes]) /\ d \in Nat
      /\ Len(w) = 2 + d + Len(p) /\ w[Len(w)] = FRAME_END
      /\ \A j \in 1..Len(p) : w[1 + d + j] = p[j]
      /\ Len(p) \in Nat /\ FRAME_START # FRAME_END
  BY <1>1, PayloadTyped, FramingAssumption DEF Whole
<1>3. /\ f[LenBytes] = FlattenSeq(Field(Len(p)))
      /\ \A j \in 1..Len(f[LenBytes]) : w[1 + j] = f[LenBytes][j]
  BY <1>2 DEF Opens
<1>4. i \in 1..Len(w) /\ w[i] = FRAME_START
  OBVIOUS
<1> HIDE DEF w
<1> SUFFICES ASSUME i # 1
             PROVE  FALSE
  OBVIOUS
<1>5. CASE i <= 1 + d
  <2>1. i - 1 \in 1..d /\ 1 + (i - 1) = i
    BY <1>2, <1>4, <1>5
  <2>2. f[LenBytes][i - 1] = FRAME_START
    BY <1>2, <1>3, <1>4, <2>1
  <2>3. f[LenBytes] \in Seq(Byte \ {FRAME_START})
    BY <1>2, <1>3, NoStartInField
  <2>4. f[LenBytes][i - 1] \in Byte \ {FRAME_START}
    BY <1>2, <2>1, <2>3, ElementOfSeq
  <2> QED
    BY <2>2, <2>4
<1>6. CASE i > 1 + d /\ i < Len(w)
  <2>1. i - (1 + d) \in 1..Len(p) /\ 1 + d + (i - (1 + d)) = i
    BY <1>2, <1>4, <1>6
  <2>2. p[i - (1 + d)] = FRAME_START
    BY <1>2, <1>4, <2>1
  <2>3. p \in Seq(Byte \ {0, FRAME_START, FRAME_END})
    BY PayloadTyped
  <2>4. p[i - (1 + d)] \in Byte \ {0, FRAME_START, FRAME_END}
    BY <2>1, <2>3, ElementOfSeq
  <2> QED
    BY <2>2, <2>4
<1>7. CASE i = Len(w)
  BY <1>2, <1>4, <1>7
<1> QED
  BY <1>2, <1>4, <1>5, <1>6, <1>7

\* A piece of the end of the stream that begins with a start marker begins with a frame.
LEMMA StartIsFrame ==
    ASSUME NEW Q \in Seq(Payloads), NEW x \in Seq(Byte), NEW r \in Seq(Byte), x \o r = BytesOf(Q),
           r # <<>>, r[1] = FRAME_START
    PROVE  \E p \in Payloads : \E t \in Seq(Byte) : r = OnWire(p) \o t
<1> DEFINE Whose(c) == \E p \in Payloads : \E t \in Seq(Byte) : c = OnWire(p) \o t
           Good(P) == \A a \in Seq(Byte), c \in Seq(Byte) :
                         a \o c = BytesOf(P) /\ c # <<>> /\ c[1] = FRAME_START => Whose(c)
           Wrong == {n \in Nat : \E P \in Seq(Payloads) : Len(P) = n /\ ~Good(P)}
<1>1. SUFFICES ASSUME Wrong # {}
               PROVE  FALSE
  <2>1. Len(Q) \in Nat
    BY LenProperties
  <2>2. Good(Q)
    BY <1>1, <2>1
  <2> QED
    BY <2>2
<1>2. PICK n \in Wrong : \A k \in Wrong : n <= k
  <2>1. Wrong \subseteq Nat
    OBVIOUS
  <2> HIDE DEF Wrong
  <2> QED
    BY <1>1, <2>1, LeastNumber
<1>3. PICK P \in Seq(Payloads) : Len(P) = n /\ ~Good(P)
  BY <1>2
<1>4. PICK a \in Seq(Byte), c \in Seq(Byte) :
         a \o c = BytesOf(P) /\ c # <<>> /\ c[1] = FRAME_START /\ ~Whose(c)
  BY <1>3
<1>5. CASE P = <<>>
  <2>1. a \o c = <<>>
    BY <1>4, <1>5, NoneWritten
  <2>2. c = <<>>
    BY <2>1, ConcatEqualIffEmpty
  <2> QED
    BY <1>4, <2>2
<1>6. CASE P # <<>>
  <2> DEFINE p == Head(P)
             T == Tail(P)
             w == OnWire(p)
             u == BytesOf(P)
             b == BytesOf(T)
  <2>1. /\ p \in Payloads /\ T \in Seq(Payloads) /\ Len(T) = n - 1 /\ n - 1 \in Nat
        /\ P = <<p>> \o T
    <3>1. /\ p \in Payloads /\ T \in Seq(Payloads) /\ Len(T) = Len(P) - 1
      BY <1>6, HeadTailProperties
    <3>2. P = <<p>> \o T
      BY <1>6, HeadAndTail
    <3> QED
      BY <1>3, <3>1, <3>2, LenProperties
  <2>2. u = a \o c /\ w \in Seq(Byte) /\ b \in Seq(Byte)
    BY <1>4, <2>1, OnWireTyped, AllTyped
  <2>3. u = w \o b
    <3> HIDE DEF p, T
    <3> QED
      BY <2>1, OneMoreWritten
  <2> HIDE DEF p, T, w, u, b
  <2>4. Row(Byte, a, c, u) /\ Row(Byte, w, b, u)
    BY <2>2, <2>3, TwoInARow
  <2>5. CASE Len(w) <= Len(a)
    <3>1. PICK t : Between(Byte, a, c, w, b, t)
      BY <2>2, <2>4, <2>5, CutFurther
    <3>2. t \in Seq(Byte) /\ t \o c = BytesOf(T)
      BY <3>1 DEF Between, b
    <3>3. Good(T)
      <4>1. n - 1 \notin Wrong
        <5>1. n \in Nat /\ ~(n <= n - 1)
          BY <1>2
        <5> HIDE DEF Wrong
        <5> QED
          BY <1>2, <5>1
      <4> QED
        BY <2>1, <4>1
    <3> HIDE DEF Whose, Wrong
    <3> QED
      BY <1>4, <3>2, <3>3
  <2>6. CASE ~(Len(w) <= Len(a))
    <3>0. Len(a) \in Nat /\ Len(w) \in Nat /\ Len(c) \in Nat /\ 1 \in 1..Len(c)
      BY <1>4, LenProperties, EmptySeq
    <3>1. Len(a) + 1 \in 1..Len(w)
      BY <2>6, <3>0
    <3>2. u[Len(a) + 1] = c[1] /\ u[Len(a) + 1] = w[Len(a) + 1]
      BY <2>4, <3>0, <3>1 DEF Row
    <3>3. w[Len(a) + 1] = FRAME_START
      BY <1>4, <3>2
    <3>4. Len(a) + 1 = 1
      BY <2>1, <3>1, <3>3, OneStart DEF w
    <3>5. a = <<>>
      BY <3>0, <3>4, EmptySeq
    <3>6. c = u
      BY <2>2, <3>5, ConcatEmptySeq
    <3> QED
      BY <1>4, <2>1, <2>2, <2>3, <3>6 DEF w
  <2> QED
    BY <2>5, <2>6
<1> QED
  BY <1>5, <1>6

-----------------------------------------------------------------------------
\* A list that is not empty, and so a shorter one of which it consists.
LEMMA FirstPacket ==
    ASSUME NEW P \in Seq(Payloads), P # <<>>
    PROVE  \E p \in Payloads : \E T \in Seq(Payloads) : P = <<p>> \o T /\ Len(T) < Len(P)
<1>1. /\ Head(P) \in Payloads /\ Tail(P) \in Seq(Payloads)
      /\ Len(Tail(P)) = Len(P) - 1 /\ Len(P) \in Nat
  BY HeadTailProperties, LenProperties
<1>2. P = <<Head(P)>> \o Tail(P)
  BY HeadAndTail
<1>3. Len(Tail(P)) < Len(P)
  BY <1>1
<1> QED
  BY <1>1, <1>2, <1>3

\* Sets of lists have shortest members.
LEMMA ShortestList ==
    ASSUME NEW S, S \subseteq Seq(Payloads), S # {}
    PROVE  \E P \in S : \A Q \in Seq(Payloads) : Len(Q) < Len(P) => Q \notin S
<1>1. {Len(P) : P \in S} \subseteq Nat /\ {Len(P) : P \in S} # {}
  <2>1. ASSUME NEW P \in S
        PROVE  Len(P) \in Nat
    <3>1. P \in Seq(Payloads)
      OBVIOUS
    <3> QED
      BY <3>1, LenProperties
  <2> QED
    BY <2>1
<1>2. PICK m \in {Len(P) : P \in S} : \A k \in {Len(P) : P \in S} : m <= k
  BY <1>1, LeastNumber
<1>3. PICK P \in S : m = Len(P)
  BY <1>2
<1>4. ASSUME NEW Q \in Seq(Payloads), Len(Q) < Len(P), Q \in S
      PROVE  FALSE
  <2>1. Len(Q) \in Nat /\ Len(P) \in Nat /\ Len(P) <= Len(Q)
    BY <1>1, <1>2, <1>3, <1>4
  <2> QED
    BY <1>4, <2>1
<1> QED
  BY <1>4

\* The bytes of two lists of packets.
LEMMA BytesJoined ==
    ASSUME NEW A \in Seq(Payloads), NEW B \in Seq(Payloads)
    PROVE  BytesOf(A \o B) = BytesOf(A) \o BytesOf(B)
<1> DEFINE Wrong == {P \in Seq(Payloads) : BytesOf(P \o B) # BytesOf(P) \o BytesOf(B)}
<1>1. SUFFICES ASSUME Wrong # {}
               PROVE  FALSE
  OBVIOUS
<1>2. PICK P \in Wrong : \A Q \in Seq(Payloads) : Len(Q) < Len(P) => Q \notin Wrong
  <2>1. Wrong \subseteq Seq(Payloads)
    OBVIOUS
  <2> HIDE DEF Wrong
  <2> QED
    BY <1>1, <2>1, ShortestList
<1>3. P \in Seq(Payloads) /\ BytesOf(P \o B) # BytesOf(P) \o BytesOf(B)
  OBVIOUS
<1>4. BytesOf(B) \in Seq(Byte) /\ <<>> \o B = B
  BY AllTyped, ConcatEmptySeq
<1>5. CASE P = <<>>
  BY <1>3, <1>4, <1>5, NoneWritten, ConcatEmptySeq
<1>6. CASE P # <<>>
  <2>1. PICK p \in Payloads, T \in Seq(Payloads) : P = <<p>> \o T /\ Len(T) < Len(P)
    BY <1>3, <1>6, FirstPacket
  <2>2. BytesOf(T \o B) = BytesOf(T) \o BytesOf(B)
    BY <1>2, <2>1
  <2> DEFINE a == <<p>>
             w == OnWire(p)
             t == BytesOf(T)
             b == BytesOf(B)
  <2>3. /\ a \in Seq(Payloads) /\ w \in Seq(Byte) /\ t \in Seq(Byte) /\ b \in Seq(Byte)
        /\ T \o B \in Seq(Payloads)
    BY AllTyped, OnWireTyped, ConcatProperties
  <2>4. BytesOf(a \o T) = w \o t /\ BytesOf(a \o (T \o B)) = w \o BytesOf(T \o B)
    BY <2>3, OneMoreWritten
  <2> HIDE DEF a, w, t, b, Wrong
  <2>5. (a \o T) \o B = a \o (T \o B)
    BY <2>3, InARow
  <2>6. (w \o t) \o b = w \o (t \o b)
    <3>1. w \in Seq(Byte) /\ t \in Seq(Byte) /\ b \in Seq(Byte)
      BY <2>3
    <3> QED
      BY <3>1, ConcatAssociative
  <2>7. BytesOf(P \o B) = BytesOf(P) \o b
    BY <2>1, <2>2, <2>4, <2>5, <2>6 DEF a, b, t
  <2> QED
    BY <1>3, <2>7 DEF b
<1> QED
  BY <1>5, <1>6

\* Whole frames are all found, and then what is behind them.
LEMMA AllArrive ==
    ASSUME NEW A \in Seq(Payloads), NEW t \in Seq(Byte)
    PROVE  Extract[BytesOf(A) \o t] = [frames |-> A \o Extract[t].frames, rest |-> Extract[t].rest]
<1> DEFINE g == Extract[t].frames
           Wrong == {P \in Seq(Payloads) :
                       Extract[BytesOf(P) \o t] # [frames |-> P \o g, rest |-> Extract[t].rest]}
<1>1. SUFFICES ASSUME Wrong # {}
               PROVE  FALSE
  OBVIOUS
<1>2. PICK P \in Wrong : \A Q \in Seq(Payloads) : Len(Q) < Len(P) => Q \notin Wrong
  <2>1. Wrong \subseteq Seq(Payloads)
    OBVIOUS
  <2> HIDE DEF Wrong
  <2> QED
    BY <1>1, <2>1, ShortestList
<1>3. P \in Seq(Payloads) /\ Extract[BytesOf(P) \o t] # [frames |-> P \o g, rest |-> Extract[t].rest]
  OBVIOUS
<1>4. g \in Seq(Seq(Byte)) /\ Extract[t] = [frames |-> g, rest |-> Extract[t].rest]
  <2>1. Extract[t] \in Found(Byte)
    BY ByteIsInt, ExtractTyped
  <2> DEFINE e == Extract[t]
  <2> HIDE DEF e
  <2>2. e.frames \in Seq(Seq(Byte)) /\ e = [frames |-> e.frames, rest |-> e.rest]
    BY <2>1 DEF Found, e
  <2> QED
    BY <2>2 DEF e
<1>5. CASE P = <<>>
  <2>1. <<>> \o t = t /\ <<>> \o g = g
    BY <1>4, ConcatEmptySeq
  <2> QED
    BY <1>3, <1>4, <1>5, <2>1, NoneWritten
<1>6. CASE P # <<>>
  <2>1. PICK p \in Payloads, T \in Seq(Payloads) : P = <<p>> \o T /\ Len(T) < Len(P)
    BY <1>3, <1>6, FirstPacket
  <2>2. Extract[BytesOf(T) \o t] = [frames |-> T \o g, rest |-> Extract[t].rest]
    BY <1>2, <2>1
  <2> DEFINE a == <<p>>
             w == OnWire(p)
             b == BytesOf(T)
  <2>3. /\ a \in Seq(Seq(Byte)) /\ T \in Seq(Seq(Byte)) /\ w \in Seq(Byte) /\ b \in Seq(Byte)
        /\ b \o t \in Seq(Byte)
    <3>1. \A q \in Payloads : q \in Seq(Byte)
      BY PayloadTyped
    <3>2. a \in Seq(Seq(Byte)) /\ T \in Seq(Seq(Byte))
      BY <3>1, SeqMonotonic
    <3> QED
      BY <3>2, AllTyped, OnWireTyped, ConcatProperties
  <2>4. BytesOf(a \o T) = w \o b
    BY OneMoreWritten
  <2>5. Extract[w \o (b \o t)] = Then(p, Extract[b \o t])
    BY <2>3, FrameArrives
  <2> HIDE DEF a, w, b, g, Wrong
  <2>6. (w \o b) \o t = w \o (b \o t)
    BY <2>3, InARow
  <2>7. (a \o T) \o g = a \o (T \o g)
    BY <1>4, <2>3, InARow
  <2>8. Then(p, Extract[b \o t]) = [frames |-> a \o (T \o g), rest |-> Extract[t].rest]
    BY <2>2 DEF Then, a, b
  <2>9. Extract[BytesOf(P) \o t] = [frames |-> P \o g, rest |-> Extract[t].rest]
    BY <2>1, <2>4, <2>5, <2>6, <2>7, <2>8 DEF a
  <2> QED
    BY <1>3, <2>9
<1> QED
  BY <1>5, <1>6

\* What the parser leaves over is the end of what it was given.
EndsWith(b, r) == \E a \in Seq(Byte) : b = a \o r

\* The end of an end is an end.
LEMMA EndOfEnd ==
    ASSUME NEW b, NEW c \in Seq(Byte), NEW r \in Seq(Byte), EndsWith(b, c), EndsWith(c, r)
    PROVE  EndsWith(b, r)
<1>1. PICK x \in Seq(Byte) : b = x \o c
  BY DEF EndsWith
<1>2. PICK y \in Seq(Byte) : c = y \o r
  BY DEF EndsWith
<1>3. b = x \o (y \o r)
  BY <1>1, <1>2
<1>4. x \o y \in Seq(Byte)
  BY ConcatProperties
<1>5. (x \o y) \o r = x \o (y \o r)
  BY ConcatAssociative
<1> QED
  BY <1>3, <1>4, <1>5 DEF EndsWith

\* What lies behind any place of a buffer is its end.
LEMMA EndAt ==
    ASSUME NEW b \in Seq(Byte), NEW n \in 0..Len(b)
    PROVE  EndsWith(b, SubSeq(b, n + 1, Len(b)))
  BY CutAt DEF EndsWith

\* What the parser leaves over is the end of what it was given, so nothing is reordered.
LEMMA RestIsEnd ==
    ASSUME NEW b \in Seq(Byte)
    PROVE  EndsWith(b, Extract[b].rest)
<1> DEFINE Wrong == {c \in Seq(Byte) : ~EndsWith(c, Extract[c].rest)}
<1>1. SUFFICES ASSUME Wrong # {}
               PROVE  FALSE
  OBVIOUS
<1>2. PICK c \in Wrong : \A d \in Seq(Int) : Len(d) < Len(c) => d \notin Wrong
  <2>1. Wrong \subseteq Seq(Int)
    BY ByteIsInt, SeqMonotonic
  <2> HIDE DEF Wrong
  <2> QED
    BY <1>1, <2>1, ShortestBuffer
<1>3. c \in Seq(Byte) /\ c \in Seq(Int) /\ Len(c) \in Nat
  BY ByteIsInt, SeqMonotonic, LenProperties
<1>4. \A d \in Seq(Byte) : /\ Len(d) < Len(c) => EndsWith(d, Extract[d].rest)
                           /\ Extract[d].rest \in Seq(Byte)
  <2>1. ASSUME NEW d \in Seq(Byte)
        PROVE  Extract[d].rest \in Seq(Byte)
    <3>1. Extract[d] \in Found(Byte)
      BY ByteIsInt, ExtractTyped
    <3> QED
      BY <3>1 DEF Found
  <2>2. \A d \in Seq(Byte) : d \in Seq(Int)
    BY ByteIsInt, SeqMonotonic
  <2> QED
    BY <1>2, <2>1, <2>2
<1> DEFINE s == FromStart(c)
<1>5. s \in Seq(Byte) /\ Len(s) <= Len(c) /\ Len(s) \in Nat
  BY <1>3, FromStartTyped, LenProperties
<1>6. EndsWith(c, s)
  <2>1. CASE s = <<>>
    <3>1. c = c \o <<>>
      BY <1>3, ConcatEmptySeq
    <3> QED
      BY <1>3, <2>1, <3>1 DEF EndsWith
  <2>2. CASE s # <<>>
    <3>1. PICK m : StartAt(c, m) /\ s = SubSeq(c, m, Len(c))
      BY <1>3, <2>2, FirstStart
    <3>2. m - 1 \in 0..Len(c) /\ (m - 1) + 1 = m
      BY <1>3, <3>1 DEF StartAt
    <3>3. EndsWith(c, SubSeq(c, (m - 1) + 1, Len(c)))
      BY <1>3, <3>2, EndAt
    <3> QED
      BY <3>1, <3>2, <3>3
  <2> QED
    BY <2>1, <2>2
<1>7. /\ Waits(s) => Extract[c] = Nothing(s)
      /\ Retries(s) => Extract[c] = Extract[Tail(s)]
      /\ Framed(s) => Extract[c] = Then(PayloadOf(s), Extract[Behind(s)])
  BY <1>3, ExtractCases
<1> HIDE DEF s
<1>8. CASE Waits(s)
  <2>1. Extract[c].rest = s
    BY <1>7, <1>8 DEF Nothing
  <2> QED
    BY <1>6, <2>1
<1>9. CASE Retries(s)
  <2>1. Tail(s) \in Seq(Byte) /\ Len(Tail(s)) < Len(s)
    BY <1>5, <1>9, ByteIsInt, PassesShorten
  <2>2. Len(Tail(s)) < Len(c)
    BY <1>3, <1>5, <2>1, LenProperties
  <2>3. EndsWith(s, Tail(s))
    <3>1. s # <<>>
      BY <1>9 DEF Retries
    <3>2. s = <<Head(s)>> \o Tail(s) /\ <<Head(s)>> \in Seq(Byte)
      BY <1>5, <3>1, HeadAndTail, HeadTailProperties
    <3> QED
      BY <3>2 DEF EndsWith
  <2>4. EndsWith(Tail(s), Extract[Tail(s)].rest) /\ Extract[Tail(s)].rest \in Seq(Byte)
    BY <1>4, <2>1, <2>2
  <2>5. EndsWith(c, Tail(s))
    BY <1>5, <1>6, <2>1, <2>3, EndOfEnd
  <2>6. EndsWith(c, Extract[Tail(s)].rest)
    BY <2>1, <2>4, <2>5, EndOfEnd
  <2> QED
    BY <1>7, <1>9, <2>6
<1>10. CASE Framed(s)
  <2>1. /\ Behind(s) \in Seq(Byte) /\ Len(Behind(s)) = Len(s) - FrameSize(s)
        /\ FrameSize(s) \in 3..Len(s)
    BY <1>5, <1>10, ByteIsInt, PassesShorten
  <2>2. Len(Behind(s)) < Len(c)
    BY <1>3, <1>5, <2>1
  <2>3. EndsWith(s, Behind(s))
    <3>1. FrameSize(s) \in 0..Len(s)
      BY <1>5, <2>1
    <3> QED
      BY <1>5, <3>1, EndAt DEF Behind
  <2>4. EndsWith(Behind(s), Extract[Behind(s)].rest) /\ Extract[Behind(s)].rest \in Seq(Byte)
    BY <1>4, <2>1, <2>2
  <2>5. EndsWith(c, Behind(s))
    BY <1>5, <1>6, <2>1, <2>3, EndOfEnd
  <2>6. EndsWith(c, Extract[Behind(s)].rest)
    BY <2>1, <2>4, <2>5, EndOfEnd
  <2>7. Extract[c].rest = Extract[Behind(s)].rest
    BY <1>7, <1>10 DEF Then
  <2> QED
    BY <2>6, <2>7
<1> QED
  BY <1>8, <1>9, <1>10, OneOfThree

-----------------------------------------------------------------------------
\* A stream is what was written but for its front, as many bytes of which have been
\* written as h says.
Hurt(all, stream, h) ==
    \E orig \in Seq(Byte), pre \in Seq(Byte), tail \in Seq(Byte) :
       all = orig \o tail /\ Len(orig) = h /\ stream = pre \o tail

\* Behind the byte that was hit, everything is heard as it was written.
IntactBehindHit == Hurt(BytesOf(sent), heard \o wire, hit)

\* Nothing has been hit when nothing has been written.
LEMMA HitInit == Init => IntactBehindHit
<1> SUFFICES ASSUME Init
             PROVE  IntactBehindHit
  OBVIOUS
<1>1. sent = <<>> /\ wire = <<>> /\ heard = <<>> /\ hit = 0
  BY DEF Init
<1> DEFINE none == <<>>
<1>2. none \in Seq(Byte) /\ none \o none = none /\ Len(none) = 0
  OBVIOUS
<1>3. BytesOf(sent) = none /\ heard \o wire = none
  BY <1>1, NoneWritten
<1> HIDE DEF none
<1>4. Hurt(none, none, 0)
  BY <1>2 DEF Hurt
<1> QED
  BY <1>1, <1>3, <1>4 DEF IntactBehindHit

\* More bytes written behind are as intact in the stream as they were written.
LEMMA HurtLonger ==
    ASSUME NEW all, NEW stream, NEW h, Hurt(all, stream, h), NEW more \in Seq(Byte)
    PROVE  Hurt(all \o more, stream \o more, h)
<1>1. PICK orig \in Seq(Byte), pre \in Seq(Byte), tail \in Seq(Byte) :
         all = orig \o tail /\ Len(orig) = h /\ stream = pre \o tail
  BY DEF Hurt
<1>2. (orig \o tail) \o more = orig \o (tail \o more) /\ (pre \o tail) \o more = pre \o (tail \o more)
  BY ConcatAssociative
<1>3. tail \o more \in Seq(Byte)
  BY ConcatProperties
<1> QED
  BY <1>1, <1>2, <1>3 DEF Hurt

\* Every step leaves what is behind the byte that was hit as it was written.
LEMMA NextKeepsHit == StreamInv /\ IntactBehindHit /\ [Next]_vars => IntactBehindHit'
<1> SUFFICES ASSUME StreamInv, IntactBehindHit, [Next]_vars
             PROVE  IntactBehindHit'
  OBVIOUS
<1>0. /\ sent \in Seq(Payloads) /\ wire \in Seq(Byte) /\ heard \in Seq(Byte)
      /\ hit = 0 => heard \o wire = BytesOf(sent)
      /\ Hurt(BytesOf(sent), heard \o wire, hit)
  BY DEF StreamInv, TypeOK, NothingLost, IntactBehindHit
<1>1. ASSUME NEW p \in Payloads, Write(p)
      PROVE  IntactBehindHit'
  <2>1. sent' = Append(sent, p) /\ wire' = wire \o OnWire(p) /\ heard' = heard /\ hit' = hit
    BY <1>1 DEF Write
  <2>2. BytesOf(sent)' = BytesOf(sent) \o OnWire(p)
    <3>1. BytesOf(Append(sent, p)) = BytesOf(sent) \o OnWire(p)
      BY <1>0, OneMoreWritten
    <3> QED
      BY <2>1, <3>1 DEF BytesOf
  <2> DEFINE more == OnWire(p)
  <2>3. more \in Seq(Byte)
    BY OnWireTyped
  <2> HIDE DEF more
  <2>4. heard \o (wire \o more) = (heard \o wire) \o more
    BY <1>0, <2>3, ConcatAssociative
  <2>5. Hurt(BytesOf(sent) \o more, (heard \o wire) \o more, hit)
    BY <1>0, <2>3, HurtLonger
  <2> QED
    BY <2>1, <2>2, <2>4, <2>5 DEF IntactBehindHit, more
<1>2. ASSUME NEW n \in 1..Len(wire), Read(n)
      PROVE  IntactBehindHit'
  <2> DEFINE incoming == SubSeq(wire, 1, n)
             behind == SubSeq(wire, n + 1, Len(wire))
  <2>1. sent' = sent /\ wire' = behind /\ heard' = heard \o incoming /\ hit' = hit
    BY <1>2 DEF Read
  <2>2. n \in 0..Len(wire)
    BY <1>0, LenProperties
  <2>3. incoming \in Seq(Byte) /\ behind \in Seq(Byte) /\ wire = incoming \o behind
    BY <1>0, <2>2, CutAt
  <2>4. BytesOf(sent)' = BytesOf(sent)
    BY <2>1 DEF BytesOf
  <2> HIDE DEF incoming, behind
  <2>5. (heard \o incoming) \o behind = heard \o (incoming \o behind)
    <3>1. heard \in Seq(Byte) /\ incoming \in Seq(Byte) /\ behind \in Seq(Byte)
      BY <1>0, <2>3
    <3> QED
      BY <3>1, ConcatAssociative
  <2>6. heard' \o wire' = heard \o wire
    BY <2>1, <2>3, <2>5
  <2> QED
    BY <1>0, <2>1, <2>4, <2>6 DEF IntactBehindHit
<1>3. ASSUME Damage
      PROVE  IntactBehindHit'
  <2> DEFINE c == <<Head(wire)>>
             behind == Tail(wire)
             all == BytesOf(sent)
             orig == heard \o c
  <2>1. /\ hit = 0 /\ wire # <<>> /\ sent' = sent /\ heard' = heard
        /\ hit' = Len(all) - Len(wire) + 1
        /\ (\E b \in Byte : wire' = <<b>> \o behind) \/ wire' = behind
    BY <1>3 DEF Damage, Passed
  <2>2. /\ c \in Seq(Byte) /\ Len(c) = 1 /\ behind \in Seq(Byte) /\ wire = c \o behind
        /\ Len(behind) = Len(wire) - 1 /\ Len(wire) \in Nat
    BY <1>0, <2>1, HeadAndTail, HeadTailProperties, LenProperties
  <2>3. BytesOf(sent)' = all
    BY <2>1 DEF BytesOf
  <2>4. all = heard \o wire
    BY <1>0, <2>1
  <2> HIDE DEF all, c, behind
  <2>5. heard \in Seq(Byte) /\ c \in Seq(Byte) /\ behind \in Seq(Byte)
    BY <1>0, <2>2
  <2>6. orig \in Seq(Byte) /\ Len(orig) = Len(heard) + 1 /\ Len(heard) \in Nat
    BY <2>2, <2>5, ConcatProperties, LenProperties
  <2>7. all = orig \o behind
    <3>1. (heard \o c) \o behind = heard \o (c \o behind)
      BY <2>5, ConcatAssociative
    <3> QED
      BY <2>2, <2>4, <3>1
  <2>8. Len(orig) = hit'
    <3>1. Len(heard \o wire) = Len(heard) + Len(wire)
      BY <1>0, ConcatProperties
    <3> HIDE DEF orig
    <3> QED
      BY <2>1, <2>2, <2>4, <2>6, <3>1
  <2> HIDE DEF orig
  <2>9. \E pre \in Seq(Byte) : heard \o wire' = pre \o behind
    <3>1. CASE wire' = behind
      BY <2>5, <3>1
    <3>2. CASE \E b \in Byte : wire' = <<b>> \o behind
      <4>1. PICK b \in Byte : wire' = <<b>> \o behind
        BY <3>2
      <4> DEFINE x == <<b>>
      <4>2. x \in Seq(Byte)
        OBVIOUS
      <4> HIDE DEF x
      <4>3. (heard \o x) \o behind = heard \o (x \o behind) /\ heard \o x \in Seq(Byte)
        BY <2>5, <4>2, ConcatAssociative, ConcatProperties
      <4> QED
        BY <4>1, <4>3 DEF x
    <3> QED
      BY <2>1, <3>1, <3>2
  <2>10. PICK pre \in Seq(Byte) : heard \o wire' = pre \o behind
    BY <2>9
  <2>11. Hurt(all, heard \o wire', hit')
    BY <2>5, <2>6, <2>7, <2>8, <2>10 DEF Hurt
  <2> QED
    BY <2>1, <2>3, <2>11 DEF IntactBehindHit
<1>4. CASE UNCHANGED vars
  <2>1. UNCHANGED <<sent, wire, heard, hit>>
    BY <1>4 DEF vars
  <2>2. BytesOf(sent)' = BytesOf(sent)
    BY <2>1 DEF BytesOf
  <2> QED
    BY <1>0, <2>1, <2>2 DEF IntactBehindHit
<1> QED
  BY <1>1, <1>2, <1>3, <1>4 DEF Next

\* Behind the damaged byte the stream stays as it was written.
LEMMA IntactHolds == Spec => []IntactBehindHit
  BY HitInit, NextKeepsHit, StreamInvHolds, PTL DEF Spec

-----------------------------------------------------------------------------
\* Three sequences in a row, however they are put together.
LEMMA Associative ==
    \A x \in Seq(Byte), y \in Seq(Byte), z \in Seq(Byte) : (x \o y) \o z = x \o (y \o z)
  BY ConcatAssociative

Regroups(x, y, z) == (x \o y) \o z = x \o (y \o z)

\* The same, named, for terms in which the equation would be rewritten.
LEMMA Regrouped ==
    ASSUME NEW x \in Seq(Byte), NEW y \in Seq(Byte), NEW z \in Seq(Byte)
    PROVE  Regroups(x, y, z)
  BY ConcatAssociative DEF Regroups

\* The frames of a joint result are those of its parts.
LEMMA FramesOfParts ==
    ASSUME NEW x, NEW y, NEW p
    PROVE  Joined(x, y).frames = x.frames \o y.frames /\ Then(p, x).frames = <<p>> \o x.frames
  BY DEF Joined, Then

\* Behind bytes of which nothing is held over, the parser goes on as from the start.
LEMMA NothingLeftOver ==
    ASSUME NEW a \in Seq(Byte), NEW t \in Seq(Byte), Extract[a].rest = <<>>
    PROVE  Extract[a \o t].frames = Extract[a].frames \o Extract[t].frames
<1> DEFINE r == Extract[a].rest
<1>1. a \in Seq(Int) /\ t \in Seq(Int) /\ r \o t = t
  BY ByteIsInt, SeqMonotonic, ConcatEmptySeq
<1> HIDE DEF r
<1>2. Extract[a \o t] = Joined(Extract[a], Extract[r \o t])
  BY <1>1, ExtractInTwo DEF InTwoReads, r
<1> DEFINE e == Extract[a]
           d == Extract[t]
           x == Extract[a \o t]
<1>3. x = Joined(e, d)
  BY <1>1, <1>2
<1> HIDE DEF e, d, x
<1>4. x.frames = e.frames \o d.frames
  BY <1>3, FramesOfParts
<1> QED
  BY <1>4 DEF e, d, x

\* In what the parser leaves over there is no whole frame.
LEMMA RestHoldsNoFrame ==
    ASSUME NEW b \in Seq(Byte)
    PROVE  Extract[b].rest \in Seq(Byte) /\ Extract[Extract[b].rest].frames = <<>>
<1> DEFINE r == Extract[b].rest
           none == <<>>
<1>1. \A c \in Seq(Byte) : Extract[c].rest \in Seq(Byte) /\ Extract[c].frames \in Seq(Seq(Byte))
  <2> SUFFICES ASSUME NEW c \in Seq(Byte)
               PROVE  Extract[c].rest \in Seq(Byte) /\ Extract[c].frames \in Seq(Seq(Byte))
    OBVIOUS
  <2>1. Extract[c] \in Found(Byte)
    BY ByteIsInt, ExtractTyped
  <2> QED
    BY <2>1 DEF Found
<1>2. r \in Seq(Byte)
  BY <1>1
<1>3. b \o none = b /\ r \o none = r
  BY <1>2, ConcatEmptySeq
<1>4. b \in Seq(Int) /\ none \in Seq(Int)
  <2>1. b \in Seq(Int)
    BY ByteIsInt, SeqMonotonic
  <2>2. none \in Seq(Int)
    OBVIOUS
  <2> QED
    BY <2>1, <2>2
<1> HIDE DEF none, r
<1>5. Extract[b \o none] = Joined(Extract[b], Extract[r \o none])
  BY <1>4, ExtractInTwo DEF InTwoReads, r
<1>6. Extract[b] = Joined(Extract[b], Extract[r])
  BY <1>3, <1>5
<1>7. Extract[b].frames = Extract[b].frames \o Extract[r].frames
  <2> DEFINE e == Extract[b]
             d == Extract[r]
  <2>1. e = Joined(e, d)
    BY <1>6
  <2> HIDE DEF e, d
  <2>2. e.frames = e.frames \o d.frames
    BY <2>1, FramesOfParts
  <2> QED
    BY <2>2 DEF e, d
<1> DEFINE f == Extract[b].frames
           g == Extract[r].frames
<1>8. f \in Seq(Seq(Byte)) /\ g \in Seq(Seq(Byte)) /\ f \o g = f
  BY <1>1, <1>2, <1>7
<1> HIDE DEF f, g
<1>9. g = <<>>
  BY <1>8, ConcatEqualIffEmpty
<1> QED
  BY <1>2, <1>9 DEF g, r

\* Behind a longest frame of intact bytes that end with a frame nothing is held over,
\* whatever came before.
LEMMA NothingHeldOver ==
    ASSUME NEW A \in Seq(Payloads), NEW pre \in Seq(Byte), NEW orig \in Seq(Byte), NEW mid \in Seq(Byte),
           BytesOf(A) = orig \o mid, Len(mid) >= LongestFrame - 1
    PROVE  Extract[pre \o mid].rest = <<>>
<1> DEFINE z == pre \o mid
           r == Extract[z].rest
<1>0. z = pre \o mid
  OBVIOUS
<1>1. z \in Seq(Byte) /\ z \in Seq(Int)
  BY ConcatProperties, ByteIsInt, SeqMonotonic
<1> SUFFICES ASSUME r # <<>>
             PROVE  FALSE
  OBVIOUS
<1> HIDE DEF z
<1>2. r[1] = FRAME_START /\ Len(r) < LongestFrame
  BY <1>1, RestIsShort
<1>3. r \in Seq(Byte) /\ Extract[r].frames = <<>>
  BY <1>1, RestHoldsNoFrame
<1>4. EndsWith(z, r)
  BY <1>1, RestIsEnd
<1> HIDE DEF r
<1>5. PICK a \in Seq(Byte) : z = a \o r
  BY <1>4 DEF EndsWith
<1>6. Row(Byte, a, r, z) /\ Row(Byte, pre, mid, z)
  BY <1>0, <1>3, <1>5, TwoInARow
<1>7. Len(pre) <= Len(a)
  <2>1. LongestFrame \in Nat
    BY ConstantsTyped DEF Constants, LongestFrame
  <2>2. /\ Len(pre) \in Nat /\ Len(mid) \in Nat /\ Len(a) \in Nat /\ Len(r) \in Nat
        /\ Len(a) + Len(r) = Len(pre) + Len(mid)
    BY <1>6 DEF Row
  <2> QED
    BY <1>2, <2>1, <2>2
<1>8. PICK t : Between(Byte, a, r, pre, mid, t)
  BY <1>3, <1>6, <1>7, CutFurther
<1>9. t \in Seq(Byte) /\ t \o r = mid
  BY <1>8 DEF Between
<1>10. BytesOf(A) = (orig \o t) \o r /\ orig \o t \in Seq(Byte)
  <2>1. (orig \o t) \o r = orig \o (t \o r)
    <3>1. orig \in Seq(Byte) /\ t \in Seq(Byte) /\ r \in Seq(Byte)
      BY <1>3, <1>9
    <3> QED
      BY <3>1, ConcatAssociative
  <2> QED
    BY <1>9, <2>1, ConcatProperties
<1>11. PICK p \in Payloads, s \in Seq(Byte) : r = OnWire(p) \o s
  <2> DEFINE x == orig \o t
  <2>1. x \in Seq(Byte) /\ x \o r = BytesOf(A) /\ r # <<>>
    BY <1>10 DEF r
  <2> HIDE DEF x
  <2> QED
    BY <1>2, <1>3, <2>1, StartIsFrame
<1>12. Extract[r].frames = <<p>> \o Extract[s].frames
  <2> DEFINE e == Extract[s]
  <2>1. Extract[r] = Then(p, e)
    BY <1>11, FrameArrives
  <2> HIDE DEF e
  <2>2. Extract[r].frames = <<p>> \o e.frames
    BY <2>1, FramesOfParts
  <2> QED
    BY <2>2 DEF e
<1>13. <<p>> \o Extract[s].frames # <<>>
  <2>1. Extract[s].frames \in Seq(Seq(Byte))
    <3>1. Extract[s] \in Found(Byte)
      BY ByteIsInt, ExtractTyped
    <3> QED
      BY <3>1 DEF Found
  <2>2. <<p>> \in Seq(Seq(Byte)) /\ <<p>> # <<>>
    BY PayloadTyped
  <2> QED
    BY <2>1, <2>2, ConcatEqualIffEmpty
<1> QED
  BY <1>3, <1>12, <1>13

\* Of a part of the next frame nothing is made.
LEMMA PartIsNoFrame ==
    ASSUME NEW p \in Payloads, NEW C \in Seq(Payloads), NEW t \in Seq(Byte), NEW y \in Seq(Byte),
           t \o y = BytesOf(<<p>> \o C), Len(t) < Len(OnWire(p))
    PROVE  Extract[t].frames = <<>>
<1> DEFINE w == OnWire(p)
           r == BytesOf(C)
           u == t \o y
<1>1. w \in Seq(Byte) /\ r \in Seq(Byte) /\ u = t \o y /\ u = w \o r /\ Len(t) < Len(w)
  BY OnWireTyped, AllTyped, OneMoreWritten
<1> HIDE DEF u, w, r
<1>2. Row(Byte, t, y, u) /\ Row(Byte, w, r, u)
  BY <1>1, TwoInARow
<1>3. \A i \in 1..Len(t) : w[i] = t[i]
  <2>1. Len(t) \in Nat /\ Len(w) \in Nat
    BY <1>2 DEF Row
  <2>2. \A i \in 1..Len(t) : i \in 1..Len(w)
    BY <1>1, <2>1
  <2> QED
    BY <1>2, <2>2 DEF Row
<1>4. CASE t = <<>>
  BY <1>4, NothingHeard
<1>5. CASE t # <<>>
  <2>1. Extract[t] = Nothing(t)
    BY <1>1, <1>3, <1>5, PartWaits DEF w
  <2> QED
    BY <2>1 DEF Nothing
<1> QED
  BY <1>4, <1>5

\* All packets of B arrive whose frames lie far enough behind the damage and have been
\* heard; they are the last that have arrived.
LEMMA FarEnoughArrive ==
    ASSUME NEW A \in Seq(Payloads), NEW B \in Seq(Payloads), NEW C \in Seq(Payloads),
           NEW x \in Seq(Byte), NEW y \in Seq(Byte), NEW h \in Nat,
           Hurt(BytesOf((A \o B) \o C), x \o y, h),
           h + LongestFrame <= Len(BytesOf(A)) + 1,
           Len(y) <= Len(BytesOf(C)),
           C # <<>> => Len(BytesOf(C)) < Len(y) + Len(OnWire(Head(C)))
    PROVE  \E X \in Seq(Seq(Byte)) : Extract[x].frames = X \o B
<1> DEFINE a == BytesOf(A)
           b == BytesOf(B)
           c == BytesOf(C)
           bc == b \o c
<1>0. /\ a \in Seq(Byte) /\ b \in Seq(Byte) /\ c \in Seq(Byte) /\ bc \in Seq(Byte)
      /\ Len(a) \in Nat /\ Len(b) \in Nat /\ Len(c) \in Nat /\ Len(x) \in Nat /\ Len(y) \in Nat
  BY AllTyped, ConcatProperties, LenProperties
<1>1. BytesOf((A \o B) \o C) = a \o bc
  <2>1. A \o B \in Seq(Payloads)
    BY ConcatProperties
  <2>2. BytesOf((A \o B) \o C) = (a \o b) \o c
    BY <2>1, BytesJoined
  <2> HIDE DEF a, b, c
  <2>3. (a \o b) \o c = a \o (b \o c)
    BY <1>0, Associative
  <2> QED
    BY <2>2, <2>3
<1>2. PICK orig \in Seq(Byte), pre \in Seq(Byte), tail \in Seq(Byte) :
         a \o bc = orig \o tail /\ Len(orig) = h /\ x \o y = pre \o tail
  BY <1>1 DEF Hurt
<1>3. LongestFrame \in Nat /\ LongestFrame >= 1
  BY ConstantsTyped DEF Constants, LongestFrame
<1>4. Len(orig) + LongestFrame <= Len(a) + 1 /\ Len(y) <= Len(c)
  BY <1>2
<1> HIDE DEF a, b, c, bc
<1>5. \E mid \in Seq(Byte) : a = orig \o mid /\ mid \o bc = tail
  <2> DEFINE u == a \o bc
  <2>1. u = a \o bc /\ u = orig \o tail
    BY <1>2
  <2> HIDE DEF u
  <2>2. Row(Byte, a, bc, u) /\ Row(Byte, orig, tail, u)
    BY <1>0, <2>1, TwoInARow
  <2>3. Len(orig) <= Len(a)
    BY <1>0, <1>3, <1>4, LenProperties
  <2>4. \E t : Between(Byte, a, bc, orig, tail, t)
    BY <1>0, <2>2, <2>3, CutFurther
  <2> QED
    BY <2>4 DEF Between
<1>6. PICK mid \in Seq(Byte) : a = orig \o mid /\ mid \o bc = tail
  BY <1>5
<1> DEFINE front == pre \o mid
           whole == front \o b
<1>7. Extract[front].rest = <<>>
  <2>1. Len(a) = Len(orig) + Len(mid) /\ Len(orig) \in Nat /\ Len(mid) \in Nat
    BY <1>6, ConcatProperties, LenProperties
  <2>2. Len(mid) >= LongestFrame - 1
    BY <1>3, <1>4, <2>1
  <2> QED
    BY <1>6, <2>2, NothingHeldOver DEF a
<1>8. front \in Seq(Byte) /\ whole \in Seq(Byte)
  BY <1>0, ConcatProperties
<1>9. x \o y = whole \o c
  <2>2. Regroups(pre, mid, bc) /\ Regroups(front, b, c)
    <3>1. front \in Seq(Byte)
      BY <1>8
    <3> HIDE DEF front
    <3> QED
      BY <1>0, <3>1, Regrouped
  <2>3. pre \o (mid \o bc) = front \o bc /\ whole \o c = front \o bc
    BY <2>2 DEF Regroups, bc
  <2> QED
    BY <1>2, <1>6, <2>3
<1> HIDE DEF front
<1>10. \E t \in Seq(Byte) : x = whole \o t /\ t \o y = c
  <2> DEFINE u == x \o y
  <2>1. u = x \o y /\ u = whole \o c
    BY <1>9
  <2>2. whole \in Seq(Byte)
    BY <1>8
  <2> HIDE DEF u, whole
  <2>3. Row(Byte, x, y, u) /\ Row(Byte, whole, c, u)
    BY <1>0, <2>1, <2>2, TwoInARow
  <2>4. Len(whole) <= Len(x)
    <3>1. Len(x) + Len(y) = Len(whole) + Len(c) /\ Len(whole) \in Nat
      BY <2>3 DEF Row
    <3> QED
      BY <1>0, <1>4, <3>1
  <2>5. \E t : Between(Byte, x, y, whole, c, t)
    BY <1>0, <2>2, <2>3, <2>4, CutFurther
  <2> QED
    BY <2>5 DEF Between
<1>11. PICK t \in Seq(Byte) : x = whole \o t /\ t \o y = c
  BY <1>10
<1>12. Extract[t].frames = <<>>
  <2>1. CASE C = <<>>
    <3>1. c = <<>>
      BY <2>1, NoneWritten DEF c
    <3>2. t = <<>>
      BY <1>11, <3>1, ConcatEqualIffEmpty
    <3> QED
      BY <3>2, NothingHeard
  <2>2. CASE C # <<>>
    <3>1. C = <<Head(C)>> \o Tail(C) /\ Head(C) \in Payloads /\ Tail(C) \in Seq(Payloads)
      BY <2>2, HeadAndTail, HeadTailProperties
    <3>2. Len(c) = Len(t) + Len(y) /\ Len(t) \in Nat
      BY <1>11, ConcatProperties, LenProperties
    <3>3. Len(c) < Len(y) + Len(OnWire(Head(C)))
      BY <2>2 DEF c
    <3>4. Len(t) < Len(OnWire(Head(C)))
      <4>1. Len(OnWire(Head(C))) \in Nat
        BY <3>1, OnWireTyped, LenProperties
      <4> QED
        BY <1>0, <3>2, <3>3, <4>1
    <3>5. t \o y = BytesOf(<<Head(C)>> \o Tail(C))
      BY <1>11, <3>1 DEF c
    <3> QED
      BY <3>1, <3>4, <3>5, PartIsNoFrame
  <2> QED
    BY <2>1, <2>2
<1>13. Extract[b \o t].frames = B
  <2>1. Extract[b \o t].frames = B \o Extract[t].frames
    <3>1. Extract[b \o t] = [frames |-> B \o Extract[t].frames, rest |-> Extract[t].rest]
      BY AllArrive DEF b
    <3> DEFINE e == Extract[b \o t]
               g == Extract[t].frames
               q == Extract[t].rest
    <3>2. e = [frames |-> B \o g, rest |-> q]
      BY <3>1
    <3> HIDE DEF e, g, q
    <3>3. e.frames = B \o g
      BY <3>2
    <3> QED
      BY <3>3 DEF e, g
  <2> QED
    BY <1>12, <2>1, ConcatEmptySeq
<1>14. Extract[x].frames = Extract[front].frames \o Extract[b \o t].frames
  <2>1. x = front \o (b \o t)
    <3>1. whole \o t = front \o (b \o t)
      <4>1. front \in Seq(Byte) /\ b \in Seq(Byte) /\ t \in Seq(Byte)
        BY <1>0, <1>8
      <4>2. Regroups(front, b, t)
        BY <4>1, Regrouped
      <4> QED
        BY <4>2 DEF Regroups
    <3> QED
      BY <1>11, <3>1
  <2>2. b \o t \in Seq(Byte)
    BY <1>0, ConcatProperties
  <2>3. Extract[front \o (b \o t)].frames = Extract[front].frames \o Extract[b \o t].frames
    BY <1>7, <1>8, <2>2, NothingLeftOver
  <2> QED
    BY <2>1, <2>3
<1>15. Extract[front].frames \in Seq(Seq(Byte))
  <2>1. Extract[front] \in Found(Byte)
    BY <1>8, ByteIsInt, ExtractTyped
  <2> QED
    BY <2>1 DEF Found
<1> QED
  BY <1>13, <1>14, <1>15

-----------------------------------------------------------------------------
\* The largest and the smallest of some of the first n numbers.
LEMMA MinAndMax ==
    ASSUME NEW n \in Nat, NEW S, S \subseteq 1..n, S # {}
    PROVE  /\ Min(S) \in S /\ \A k \in S : Min(S) <= k
           /\ Max(S) \in S /\ \A k \in S : k <= Max(S)
<1>1. S \subseteq Nat
  OBVIOUS
<1>2. \E m \in S : \A k \in S : m <= k
  BY <1>1, LeastNumber
<1>3. \E m \in S : \A k \in S : k <= m
  <2> DEFINE T == {n - k : k \in S}
  <2>1. T \subseteq Nat /\ T # {}
    <3>1. \A k \in 1..n : n - k \in Nat
      OBVIOUS
    <3>2. \A k \in S : n - k \in Nat
      BY <3>1
    <3> QED
      BY <3>2
  <2>2. PICK t \in T : \A u \in T : t <= u
    <3> HIDE DEF T
    <3> QED
      BY <2>1, LeastNumber
  <2>3. PICK m \in S : t = n - m
    OBVIOUS
  <2>4. \A k \in S : n - k \in T
    OBVIOUS
  <2>5. ASSUME NEW k \in S
        PROVE  k <= m
    <3>1. n - m <= n - k
      BY <2>2, <2>3, <2>4
    <3> QED
      BY <1>1, <3>1
  <2> QED
    BY <2>5
<1>4. Min(S) \in S /\ \A k \in S : Min(S) <= k
  BY <1>2 DEF Min
<1>5. Max(S) \in S /\ \A k \in S : k <= Max(S)
  <2>1. \E m \in S : \A k \in S : m >= k
    BY <1>1, <1>3
  <2>2. Max(S) \in S /\ \A k \in S : Max(S) >= k
    BY <2>1 DEF Max
  <2> QED
    BY <1>1, <2>2
<1> QED
  BY <1>4, <1>5

\* A part of a sequence is a sequence over the same set.
LEMMA PartTyped ==
    ASSUME NEW S, NEW s \in Seq(S), NEW i \in Nat \ {0}, NEW j \in 0..Len(s)
    PROVE  SubSeq(s, i, j) \in Seq(S)
<1>1. Len(s) \in Nat /\ \A k \in 1..Len(s) : s[k] \in S
  BY LenProperties, ElementOfSeq
<1>2. i \in Int /\ j \in Int /\ \A k \in i..j : s[k] \in S
  BY <1>1
<1> QED
  BY <1>2, SubSeqProperties

\* The packets before the m-th, those from the m-th to the n-th, and those behind.
Parted(s, n, A, B, C) ==
    /\ A \in Seq(Payloads) /\ B \in Seq(Payloads) /\ C \in Seq(Payloads)
    /\ SubSeq(s, 1, n) = A \o B
    /\ s = (A \o B) \o C

\* Cut there, a list of packets is the three parts in a row.
LEMMA ThreeParts ==
    ASSUME NEW s \in Seq(Payloads), NEW m \in 1..Len(s), NEW n \in m..Len(s)
    PROVE  Parted(s, n, SubSeq(s, 1, m - 1), SubSeq(s, m, n), SubSeq(s, n + 1, Len(s)))
<1> DEFINE A == SubSeq(s, 1, m - 1)
           B == SubSeq(s, m, n)
           C == SubSeq(s, n + 1, Len(s))
<1>1. /\ Len(s) \in Nat /\ m \in Nat \ {0} /\ n \in 0..Len(s) /\ m - 1 \in 0..Len(s)
      /\ (m - 1) + 1 = m /\ n + 1 \in Nat \ {0} /\ 1 \in Nat \ {0} /\ Len(s) \in 0..Len(s)
      /\ 1 \in 1..(Len(s) + 1) /\ m - 1 \in (1 - 1)..Len(s) /\ n \in (m - 1)..Len(s)
      /\ n \in (1 - 1)..Len(s) /\ Len(s) \in n..Len(s)
  BY LenProperties
<1>2. A \in Seq(Payloads) /\ B \in Seq(Payloads) /\ C \in Seq(Payloads)
  BY <1>1, PartTyped
<1>3. SubSeq(s, 1, n) = A \o B
  <2> DEFINE k == m - 1
  <2>1. k \in (1 - 1)..Len(s) /\ n \in k..Len(s) /\ k + 1 = m /\ 1 \in 1..(Len(s) + 1)
    BY <1>1
  <2> HIDE DEF k
  <2>2. SubSeq(s, 1, k) \o SubSeq(s, k + 1, n) = SubSeq(s, 1, n)
    BY <2>1, ConcatAdjacentSubSeq
  <2> QED
    BY <2>1, <2>2 DEF k
<1>4. s = SubSeq(s, 1, n) \o C
  <2> DEFINE e == Len(s)
  <2>1. n \in (1 - 1)..Len(s) /\ e \in n..Len(s) /\ 1 \in 1..(Len(s) + 1)
    BY <1>1
  <2>2. SubSeq(s, 1, e) = s
    BY SubSeqFull
  <2> HIDE DEF e
  <2>3. SubSeq(s, 1, n) \o SubSeq(s, n + 1, e) = SubSeq(s, 1, e)
    BY <2>1, ConcatAdjacentSubSeq
  <2> QED
    BY <2>2, <2>3 DEF e
<1> HIDE DEF A, B, C
<1>5. Parted(s, n, A, B, C)
  BY <1>2, <1>3, <1>4 DEF Parted
<1> QED
  BY <1>5 DEF A, B, C

\* One packet further.
LEMMA PartAndNext ==
    ASSUME NEW s \in Seq(Payloads), NEW n \in 1..Len(s), n < Len(s)
    PROVE  LET p == Head(SubSeq(s, n + 1, Len(s)))
           IN  /\ p \in Payloads
               /\ BytesOf(SubSeq(s, 1, n + 1)) = BytesOf(SubSeq(s, 1, n)) \o OnWire(p)
<1> DEFINE p == Head(SubSeq(s, n + 1, Len(s)))
           D == SubSeq(s, 1, n)
           N == n + 1
<1>1. /\ Len(s) \in Nat /\ N \in 1..Len(s) /\ Len(s) \in N..Len(s) /\ N \in 1..Len(s)
      /\ N - 1 = n /\ 1 \in 1..Len(s) /\ n \in 0..Len(s) /\ 1 \in Nat \ {0}
  BY LenProperties
<1>2. p = s[N]
  <2>1. N \in 1..Len(s) /\ Len(s) \in N..Len(s)
    BY <1>1
  <2> QED
    BY <2>1, HeadTailOfSubSeq
<1>3. D \in Seq(Payloads)
  BY <1>1, PartTyped
<1>4. p \in Payloads
  BY <1>1, <1>2, ElementOfSeq
<1> HIDE DEF p, D, N
<1>5. SubSeq(s, 1, N) = SubSeq(s, 1, N - 1) \o << s[N] >>
  BY <1>1, SubSeqRecursiveSecond
<1>6. SubSeq(s, 1, N) = D \o <<p>>
  BY <1>1, <1>2, <1>5 DEF D
<1>7. D \o <<p>> = Append(D, p)
  BY <1>3, <1>4, AppendIsConcat
<1>8. BytesOf(Append(D, p)) = BytesOf(D) \o OnWire(p)
  BY <1>3, <1>4, OneMoreWritten
<1> QED
  BY <1>4, <1>6, <1>7, <1>8 DEF p, D, N

\* What a sequence ends with is a suffix of it.
LEMMA BehindIsSuffix ==
    ASSUME NEW S, NEW x, NEW g \in Seq(S), NEW P, Row(S, x, g, P)
    PROVE  IsSuffix(g, P)
<1> DEFINE n == Len(g)
           N == Len(P)
           u == Reverse(g)
           v == Reverse(P)
<1>1. /\ n \in Nat /\ N \in Nat /\ n <= N /\ Len(x) \in Nat /\ N = Len(x) + n
      /\ P \in Seq(S) /\ \A i \in 1..n : P[Len(x) + i] = g[i]
  BY DEF Row
<1>2. \A i \in 1..n : g[i] \in S
  BY ElementOfSeq
<1>3. \A i \in 1..N : P[i] \in S
  BY <1>1, ElementOfSeq
<1>4. u = [i \in 1..n |-> g[(n - i) + 1]] /\ v = [i \in 1..N |-> P[(N - i) + 1]]
  BY DEF Reverse
<1> HIDE DEF n, N
<1>5. \A i \in 1..n : (n - i) + 1 \in 1..n
  BY <1>1
<1>6. \A i \in 1..N : (N - i) + 1 \in 1..N
  BY <1>1
<1>7. u \in Seq(S) /\ Len(u) = n /\ \A i \in 1..n : u[i] = g[(n - i) + 1]
  <2> HIDE DEF u, v
  <2> QED
    BY <1>1, <1>2, <1>4, <1>5
<1>8. v \in Seq(S) /\ Len(v) = N /\ \A i \in 1..N : v[i] = P[(N - i) + 1]
  <2> HIDE DEF u, v
  <2> QED
    BY <1>1, <1>3, <1>4, <1>6
<1> HIDE DEF u, v
<1>9. ASSUME NEW i \in 1..n
      PROVE  v[i] = u[i] /\ u[i] \in S /\ v[i] \in S
  <2>1. i \in 1..N /\ (n - i) + 1 \in 1..n /\ Len(x) + ((n - i) + 1) = (N - i) + 1
    BY <1>1
  <2>2. P[(N - i) + 1] = g[(n - i) + 1]
    BY <1>1, <2>1
  <2> QED
    BY <1>2, <1>7, <1>8, <2>1, <2>2
<1> DEFINE a == SubSeq(u, 1, n)
           b == SubSeq(v, 1, n)
<1>10. n \in Nat /\ \A i \in 1..n : v[i] = u[i] /\ u[i] \in S /\ v[i] \in S /\ 1 + i - 1 = i
  BY <1>1, <1>9
<1>11. a \in Seq(S) /\ Len(a) = n /\ \A i \in 1..n : a[i] = u[i]
  BY <1>10, SubSeqProperties
<1>12. b \in Seq(S) /\ Len(b) = n /\ \A i \in 1..n : b[i] = v[i]
  BY <1>10, SubSeqProperties
<1> HIDE DEF a, b
<1>13. a = b
  BY <1>10, <1>11, <1>12, SeqEqual
<1> QED
  BY <1>1, <1>7, <1>8, <1>13 DEF a, b, u, v, IsSuffix, IsPrefix

\* Damage has a reach.  Whatever byte is altered or lost, and whatever length the
\* parser was led to believe, every packet whose frame starts a longest frame or more
\* beyond that byte has been extracted once its last byte has been read, and those
\* packets are the last that were: nothing false is found behind or between them.
THEOREM FramesBehindDamageArrive == Spec => []BeyondReachArrives
<1> DEFINE StartOf(k) == Len(BytesOf(SubSeq(sent, 1, k - 1))) + 1
           EndOf(k) == Len(BytesOf(SubSeq(sent, 1, k)))
           safe == {k \in 1..Len(sent) : StartOf(k) >= hit + LongestFrame /\ EndOf(k) <= Passed}
           m == Min(safe)
           n == Max(safe)
           A == SubSeq(sent, 1, m - 1)
           B == SubSeq(sent, m, n)
           C == SubSeq(sent, n + 1, Len(sent))
<1>1. StreamInv /\ IntactBehindHit => BeyondReachArrives
  <2> SUFFICES ASSUME StreamInv, IntactBehindHit, safe # {}
               PROVE  IsSuffix(B, frames)
    BY DEF BeyondReachArrives
  <2>1. /\ sent \in Seq(Payloads) /\ heard \in Seq(Byte) /\ wire \in Seq(Byte)
        /\ hit \in Nat /\ Extract[heard] = [frames |-> frames, rest |-> buffer]
        /\ Len(sent) \in Nat /\ Len(wire) \in Nat
    <3>1. hit \in 0..Len(BytesOf(sent)) /\ Len(BytesOf(sent)) \in Nat
      BY AllTyped, LenProperties DEF StreamInv, TypeOK
    <3> QED
      BY <3>1, LenProperties DEF StreamInv, TypeOK, ReadsDoNotMatter
  <2>2. m \in safe /\ n \in safe /\ m <= n /\ \A k \in safe : k <= n
    <3>1. safe \subseteq 1..Len(sent)
      OBVIOUS
    <3> HIDE DEF safe
    <3> QED
      BY <2>1, <3>1, MinAndMax
  <2>3. /\ m \in 1..Len(sent) /\ n \in m..Len(sent)
        /\ StartOf(m) >= hit + LongestFrame /\ EndOf(n) <= Passed
    BY <2>1, <2>2
  <2>4. n < Len(sent) => ~(StartOf(n + 1) >= hit + LongestFrame /\ EndOf(n + 1) <= Passed)
    <3> SUFFICES ASSUME n < Len(sent), StartOf(n + 1) >= hit + LongestFrame, EndOf(n + 1) <= Passed
                 PROVE  FALSE
      OBVIOUS
    <3>1. n \in Nat /\ n + 1 \in 1..Len(sent)
      BY <2>1, <2>3
    <3>2. n + 1 \in safe
      BY <3>1
    <3> HIDE DEF n, safe
    <3> QED
      BY <2>2, <3>1, <3>2
  <2> HIDE DEF safe, m, n
  <2>5. /\ A \in Seq(Payloads) /\ B \in Seq(Payloads) /\ C \in Seq(Payloads)
        /\ SubSeq(sent, 1, n) = A \o B
        /\ sent = (A \o B) \o C
    <3>1. sent \in Seq(Payloads) /\ m \in 1..Len(sent) /\ n \in m..Len(sent)
      BY <2>1, <2>3
    <3>2. Parted(sent, n, A, B, C)
      BY <3>1, ThreeParts
    <3> QED
      BY <3>2 DEF Parted
  <2> DEFINE a == BytesOf(A)
             b == BytesOf(B)
             c == BytesOf(C)
             w == OnWire(Head(C))
  <2>6. /\ Len(a) \in Nat /\ Len(b) \in Nat /\ Len(c) \in Nat
        /\ BytesOf(A \o B) = a \o b /\ BytesOf(sent) = (a \o b) \o c
        /\ Len(a \o b) = Len(a) + Len(b) /\ Len((a \o b) \o c) = Len(a) + Len(b) + Len(c)
    <3>1. a \in Seq(Byte) /\ b \in Seq(Byte) /\ c \in Seq(Byte)
      BY <2>5, AllTyped
    <3>2. BytesOf(A \o B) = a \o b
      BY <2>5, BytesJoined
    <3>3. BytesOf(sent) = BytesOf(A \o B) \o c
      <4>1. A \o B \in Seq(Payloads)
        BY <2>5, ConcatProperties
      <4>2. BytesOf((A \o B) \o C) = BytesOf(A \o B) \o BytesOf(C)
        BY <2>5, <4>1, BytesJoined
      <4> HIDE DEF A, B, C
      <4> QED
        BY <2>5, <4>2
    <3> HIDE DEF a, b, c
    <3>4. a \o b \in Seq(Byte) /\ Len(a \o b) = Len(a) + Len(b)
      BY <3>1, ConcatProperties
    <3>5. Len((a \o b) \o c) = Len(a \o b) + Len(c)
      BY <3>1, <3>4, ConcatProperties
    <3> QED
      BY <3>1, <3>2, <3>3, <3>4, <3>5, LenProperties
  <2>7. StartOf(m) = Len(a) + 1 /\ EndOf(n) = Len(a) + Len(b) /\ StartOf(n + 1) = Len(a) + Len(b) + 1
    <3>1. StartOf(m) = Len(a) + 1
      OBVIOUS
    <3>2. EndOf(n) = Len(a) + Len(b)
      BY <2>5, <2>6
    <3>3. n \in Nat
      BY <2>1, <2>3
    <3>4. (n + 1) - 1 = n
      BY <3>3
    <3> QED
      BY <3>1, <3>2, <3>4
  <2>8. Passed = Len(a) + Len(b) + Len(c) - Len(wire)
    BY <2>6 DEF Passed
  <2>9. LongestFrame \in Nat
    BY ConstantsTyped DEF Constants, LongestFrame
  <2>10. hit + LongestFrame <= Len(a) + 1 /\ Len(wire) <= Len(c)
    <3> HIDE DEF a, b, c, StartOf, EndOf
    <3> QED
      BY <2>1, <2>3, <2>6, <2>7, <2>8, <2>9
  <2>11. C # <<>> => Len(c) < Len(wire) + Len(w)
    <3> SUFFICES ASSUME C # <<>>
                 PROVE  Len(c) < Len(wire) + Len(w)
      OBVIOUS
    <3>1. n < Len(sent)
      <4>1. n \in Nat /\ n <= Len(sent)
        BY <2>1, <2>3
      <4>2. ~(n + 1 <= Len(sent)) => C = <<>>
        <5>1. n + 1 \in Int /\ Len(sent) \in Int
          BY <2>1, <4>1
        <5>2. ~(n + 1 <= Len(sent)) => Len(sent) < n + 1
          BY <2>1, <4>1
        <5> QED
          BY <5>1, <5>2, SubSeqEmpty
      <4> QED
        BY <2>1, <4>1, <4>2
    <3>2. n \in 1..Len(sent)
      BY <2>1, <2>3
    <3>3. Head(C) \in Payloads /\ BytesOf(SubSeq(sent, 1, n + 1)) = BytesOf(SubSeq(sent, 1, n)) \o w
      BY <2>1, <3>1, <3>2, PartAndNext
    <3>4. w \in Seq(Byte) /\ a \o b \in Seq(Byte) /\ Len(w) \in Nat
      BY <2>5, <3>3, OnWireTyped, AllTyped, ConcatProperties, LenProperties
    <3>5. BytesOf(SubSeq(sent, 1, n + 1)) = (a \o b) \o w
      BY <2>5, <2>6, <3>3
    <3> DEFINE ab == a \o b
    <3>6. EndOf(n + 1) = Len(a) + Len(b) + Len(w)
      <4>1. Len(ab \o w) = Len(ab) + Len(w)
        <5>1. ab \in Seq(Byte) /\ w \in Seq(Byte)
          BY <3>4
        <5> HIDE DEF ab, w
        <5> QED
          BY <5>1, ConcatProperties
      <4> QED
        BY <2>6, <3>5, <4>1
    <3> HIDE DEF a, b, c, w, StartOf, EndOf
    <3>7. ~(EndOf(n + 1) <= Passed)
      BY <2>1, <2>3, <2>4, <2>6, <2>7, <2>9, <3>1
    <3> QED
      BY <2>1, <2>6, <2>8, <3>4, <3>6, <3>7
  <2>12. Hurt(BytesOf((A \o B) \o C), heard \o wire, hit)
    BY <2>5 DEF IntactBehindHit
  <2> HIDE DEF A, B, C
  <2>13. PICK X \in Seq(Seq(Byte)) : Extract[heard].frames = X \o B
    <3>1. /\ A \in Seq(Payloads) /\ B \in Seq(Payloads) /\ C \in Seq(Payloads)
          /\ heard \in Seq(Byte) /\ wire \in Seq(Byte) /\ hit \in Nat
      BY <2>1, <2>5
    <3>2. /\ hit + LongestFrame <= Len(BytesOf(A)) + 1
          /\ Len(wire) <= Len(BytesOf(C))
          /\ C # <<>> => Len(BytesOf(C)) < Len(wire) + Len(OnWire(Head(C)))
      BY <2>10, <2>11
    <3> QED
      BY <2>12, <3>1, <3>2, FarEnoughArrive
  <2>14. frames = X \o B
    BY <2>1, <2>13
  <2>15. B \in Seq(Seq(Byte))
    <3>1. Payloads \subseteq Seq(Byte)
      BY PayloadTyped
    <3> QED
      BY <2>5, <3>1, SeqMonotonic
  <2>16. Row(Seq(Byte), X, B, frames)
    BY <2>14, <2>15, TwoInARow
  <2> QED
    BY <2>15, <2>16, BehindIsSuffix
<1> QED
  BY <1>1, StreamInvHolds, IntactHolds, PTL
=============================================================================
