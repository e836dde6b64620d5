-------------------------- MODULE SatelliteProofs ---------------------------
(***************************************************************************)
(* What every step of the satellite's program does, whoever it talks to:   *)
(* for any number of chunks, cycles and messages, and any content of the   *)
(* two queues.  SatelliteAloneProofs and AegisLinkProofs rest on it.       *)
(***************************************************************************)
EXTENDS Satellite, FiniteSetTheorems, SequenceTheorems, WellFoundedInduction, TLAPS

-----------------------------------------------------------------------------
\* Every nonempty set of natural numbers has a least member.
LEMMA LeastNumber ==
    ASSUME NEW S, S \subseteq Nat, S # {}
    PROVE  \E m \in S : \A k \in S : m <= k
<1> DEFINE Below(n) == 0..(n - 1)
           T == {Below(n) : n \in S}
<1>1. T \subseteq FiniteSubsetsOf(Nat) /\ T # {}
  <2>1. ASSUME NEW n \in S
        PROVE  Below(n) \in FiniteSubsetsOf(Nat)
    BY FS_Interval DEF FiniteSubsetsOf
  <2> QED
    BY <2>1
<1>2. PICK x \in T : \A y \in T : <<y, x>> \notin StrictSubsetOrdering(Nat)
  BY <1>1, FS_StrictSubsetOrderingWellFounded, WFMin
<1>3. PICK m \in S : x = Below(m)
  OBVIOUS
<1>4. ASSUME NEW k \in S, k < m
      PROVE  FALSE
  <2>1. /\ Below(k) \subseteq x /\ Below(k) # x
        /\ Below(k) \in SUBSET Nat /\ x \in SUBSET Nat
    BY <1>3, <1>4
  <2>2. <<Below(k), x>> \in StrictSubsetOrdering(Nat)
    BY <2>1 DEF StrictSubsetOrdering
  <2> QED
    BY <1>2, <1>4, <2>2
<1> QED
  BY <1>4

\* Nth finds a member for every place: the numbers of a finite set can be listed in order.
LEMMA NthIsThere ==
    ASSUME NEW S, S \subseteq Nat, IsFiniteSet(S), NEW j \in 1..Cardinality(S)
    PROVE  Nth(S, j) \in S
<1> DEFINE Before(k) == {x \in S : x < k}
           Missed == {n \in 0..(Cardinality(S) - 1) :
                         \A k \in S : Cardinality(Before(k)) # n}
<1>1. Cardinality(S) \in Nat /\ \A x \in S : x \in Nat
  BY FS_CardinalityType
<1>2. Missed = {}
  <2> SUFFICES ASSUME Missed # {}
               PROVE  FALSE
    OBVIOUS
  <2>1. PICK n \in Missed : \A other \in Missed : n <= other
    <3>1. Missed \subseteq Nat
      BY <1>1
    <3> QED
      BY <3>1, LeastNumber
  <2>2. n \in Nat /\ n < Cardinality(S) /\ \A k \in S : Cardinality(Before(k)) # n
    BY <1>1
  <2>3. n # 0
    <3> SUFFICES ASSUME n = 0
                 PROVE  FALSE
      OBVIOUS
    <3>1. S # {}
      BY <1>1, <2>2, FS_EmptySet
    <3>2. PICK k \in S : \A x \in S : k <= x
      BY <3>1, LeastNumber
    <3>3. \A x \in S : ~(x < k)
      BY <1>1, <3>2
    <3>4. Before(k) = {}
      BY <3>3
    <3> QED
      BY <2>2, <3>4, FS_EmptySet
  <2>4. PICK k \in S : Cardinality(Before(k)) = n - 1
    <3>1. n - 1 \in 0..(Cardinality(S) - 1) /\ n - 1 \notin Missed
      BY <1>1, <2>1, <2>2, <2>3
    <3> QED
      BY <3>1
  <2> DEFINE Upto == Before(k) \cup {k}
  <2>5. IsFiniteSet(Before(k)) /\ Upto \subseteq S /\ k \notin Before(k)
    <3>1. Before(k) \in SUBSET S /\ ~(k < k)
      BY <1>1
    <3> QED
      BY <3>1, FS_Subset
  <2>6. IsFiniteSet(Upto) /\ Cardinality(Upto) = n
    <3> HIDE DEF Before
    <3>1. IsFiniteSet(Upto) /\ Cardinality(Upto) = Cardinality(Before(k)) + 1
      BY <2>5, FS_AddElement
    <3> QED
      BY <2>2, <2>4, <3>1
  <2>7. S \ Upto # {}
    BY <2>2, <2>5, <2>6
  <2>8. PICK next \in S \ Upto : \A x \in S \ Upto : next <= x
    BY <1>1, <2>7, LeastNumber
  <2>9. Before(next) = Upto
    <3>1. k < next
      BY <1>1, <2>8
    <3>2. ASSUME NEW x \in S
          PROVE  x < next <=> x \in Upto
      BY <1>1, <2>8, <3>1, <3>2
    <3> QED
      BY <2>5, <3>2
  <2> QED
    BY <2>2, <2>6, <2>8, <2>9
<1>3. j - 1 \in 0..(Cardinality(S) - 1) /\ j - 1 \notin Missed
  BY <1>1, <1>2
<1>4. \E k \in S : Cardinality(Before(k)) = j - 1
  BY <1>3
<1> QED
  BY <1>4 DEF Nth

-----------------------------------------------------------------------------
\* What a queue holds after a write: what it held, then frames of what was written.
LEMMA Pushed ==
    ASSUME NEW S, NEW queue \in Seq(S), NEW frames \in Seq(S), NEW limit \in Nat,
           Len(queue) <= limit
    PROVE  LET all == Push(queue, frames, limit)
           IN  /\ all \in Seq(S)
               /\ Len(all) \in Len(queue)..limit
               /\ Len(all) <= Len(queue) + Len(frames)
               /\ \A k \in 1..Len(all) :
                     all[k] = IF k <= Len(queue) THEN queue[k] ELSE frames[k - Len(queue)]
<1> DEFINE joined == queue \o frames
<1>1. /\ joined \in Seq(S)
      /\ Len(joined) = Len(queue) + Len(frames)
      /\ \A k \in 1..Len(joined) :
            joined[k] = IF k <= Len(queue) THEN queue[k] ELSE frames[k - Len(queue)]
  BY ConcatProperties
<1>2. Len(queue) \in Nat /\ Len(frames) \in Nat
  BY LenProperties
<1> HIDE DEF joined
<1>3. CASE Len(joined) <= limit
  BY <1>1, <1>2, <1>3 DEF Push, joined
<1>4. CASE Len(joined) > limit
  <2>1. Push(queue, frames, limit) = SubSeq(joined, 1, limit)
    BY <1>4 DEF Push, joined
  <2>2. \A k \in 1..limit : joined[k] \in S
    BY <1>1, <1>4
  <2>3. 1 \in Int /\ limit \in Int
    OBVIOUS
  <2>4. /\ SubSeq(joined, 1, limit) \in Seq(S)
        /\ Len(SubSeq(joined, 1, limit)) = IF 1 <= limit THEN limit - 1 + 1 ELSE 0
        /\ \A k \in 1..limit - 1 + 1 : SubSeq(joined, 1, limit)[k] = joined[1 + k - 1]
    BY <2>2, <2>3, SubSeqProperties
  <2> QED
    BY <1>1, <1>2, <1>4, <2>1, <2>4
<1> QED
  BY <1>1, <1>2, <1>3, <1>4

\* What is left of a queue after frames have been taken from its front.
LEMMA Taken ==
    ASSUME NEW S, NEW queue \in Seq(S), NEW n \in 1..Len(queue)
    PROVE  LET rest == SubSeq(queue, n + 1, Len(queue))
           IN  /\ rest \in Seq(S)
               /\ Len(rest) = Len(queue) - n
               /\ \A k \in 1..Len(rest) : rest[k] = queue[k + n]
<1> DEFINE rest == SubSeq(queue, n + 1, Len(queue))
<1>1. Len(queue) \in Nat /\ \A k \in (n + 1)..Len(queue) : queue[k] \in S
  BY LenProperties, ElementOfSeq
<1>2. /\ rest \in Seq(S)
      /\ Len(rest) = IF n + 1 <= Len(queue) THEN Len(queue) - (n + 1) + 1 ELSE 0
      /\ \A k \in 1..Len(queue) - (n + 1) + 1 : rest[k] = queue[n + 1 + k - 1]
  BY <1>1, SubSeqProperties
<1> HIDE DEF rest
<1>3. Len(rest) = Len(queue) - n
  BY <1>1, <1>2
<1>4. ASSUME NEW k \in 1..Len(rest)
      PROVE  rest[k] = queue[k + n]
  <2>1. n + 1 + k - 1 = k + n /\ k \in 1..Len(queue) - (n + 1) + 1
    BY <1>1, <1>3
  <2> QED
    BY <1>2, <2>1
<1> QED
  BY <1>2, <1>3, <1>4 DEF rest

-----------------------------------------------------------------------------
\* The chunks of one message of n chunks, as they leave the satellite.
ChunksOf(s, mid, n) ==
    {[key |-> MakeKey(s, mid), i |-> k - 1, n |-> n, d |-> "good", intact |-> TRUE] : k \in 1..n}

LEMMA MessageIsItsChunks ==
    ASSUME NEW s, NEW mid, NEW n \in Nat \ {0}
    PROVE  /\ MessageChunks(s, mid, n) \in Seq(ChunksOf(s, mid, n))
           /\ Len(MessageChunks(s, mid, n)) = n
<1>1. MessageChunks(s, mid, n) \in [1..n -> ChunksOf(s, mid, n)]
  BY DEF MessageChunks, ChunksOf
<1> QED
  BY <1>1

\* Whatever list a NACK carries, what is sent again are chunks of the message in hand.
LEMMA ResendIsOfMessage ==
    ASSUME NEW S, NEW chunks \in Seq(S), NEW missing
    PROVE  ChunksToResend(chunks, missing) \in Seq(S)
<1> DEFINE asked == {k \in 1..Len(chunks) : chunks[k].i \in missing}
<1>1. IsFiniteSet(asked) /\ asked \subseteq Nat /\ Cardinality(asked) \in Nat
  <2>1. Len(chunks) \in Nat
    BY LenProperties
  <2>2. IsFiniteSet(1..Len(chunks)) /\ asked \in SUBSET (1..Len(chunks))
    BY <2>1, FS_Interval
  <2>3. IsFiniteSet(asked)
    BY <2>2, FS_Subset
  <2> QED
    BY <2>1, <2>2, <2>3, FS_CardinalityType
<1>2. ASSUME NEW j \in 1..Cardinality(asked)
      PROVE  chunks[Nth(asked, j)] \in S
  <2>1. Nth(asked, j) \in asked
    BY <1>1, NthIsThere
  <2> QED
    BY <2>1, ElementOfSeq
<1>3. [j \in 1..Cardinality(asked) |-> chunks[Nth(asked, j)]] \in Seq(S)
  <2> HIDE DEF asked
  <2>1. [j \in 1..Cardinality(asked) |-> chunks[Nth(asked, j)]] \in [1..Cardinality(asked) -> S]
    BY <1>2
  <2> QED
    BY <1>1, <2>1
<1> QED
  BY <1>3 DEF ChunksToResend

-----------------------------------------------------------------------------
\* What is inductive of the satellite alone.
SatInv == /\ SatTypeOK
          /\ phase = "tc_wait" => sequence <= MaxSequence
          /\ phase # "boot" => sid # 0

\* The message number the program sends under, and its number of chunks.
MidInHand == IF phase \in {"tc_send", "tc_wait"} THEN sequence ELSE NoMid
CountInHand == IF phase \in {"tc_send", "tc_wait"} THEN TcChunks ELSE SiChunks

\* The moves of the program, as seen from outside.
Begins == /\ phase = "boot" /\ phase' = "si_wait"
          /\ sid < MaxSessions /\ sid' = sid + 1
          /\ UNCHANGED <<sequence, verdicts>>
Listens == /\ phase = "si_wait" /\ phase' \in {"si_wait", "exited"}
           /\ UNCHANGED <<sid, sequence, verdicts>>
Agrees == /\ phase = "si_wait" /\ phase' = "tc_send"
          /\ down # <<>> /\ Control.t = "ack" /\ Control.sid = sid /\ Control.mid = NoMid
          /\ sequence' = 1
          /\ UNCHANGED <<sid, verdicts>>
Waits == /\ phase \in {"tc_send", "tc_wait"} /\ phase' = "tc_wait"
         /\ UNCHANGED <<sid, sequence, verdicts>>
Concludes(outcome) ==
    /\ phase = "tc_wait" /\ phase' = "tc_send"
    /\ outcome = "ok" => /\ down # <<>> /\ Control.t = "ack"
                         /\ Control.sid = sid /\ Control.mid = sequence
    /\ sequence' = sequence + 1
    /\ verdicts' = verdicts \cup {<<sid, sequence, outcome>>}
    /\ UNCHANGED sid
Move == Begins \/ Listens \/ Agrees \/ Waits \/ \E outcome \in {"ok", "fail"} : Concludes(outcome)

\* What a step may do to the queues.
Sends == \/ UNCHANGED up
         \/ /\ phase # "exited"
            /\ \E frames \in Seq(ChunksOf(sid', MidInHand, CountInHand)) :
                  up' = Push(up, frames, MaxUp)
Reads == \/ UNCHANGED down
         \/ \E n \in 1..Len(down) : down' = SubSeq(down, n + 1, Len(down))

LEMMA SendSends ==
    ASSUME SatInv, sid' = sid, phase \in {"si_wait", "tc_send", "tc_wait"},
           NEW chunks, chunks = MessageChunks(sid, MidInHand, CountInHand), NEW missing,
           Send(chunks) \/ Send(ChunksToResend(chunks, missing))
    PROVE  Sends
<1>1. chunks \in Seq(ChunksOf(sid, MidInHand, CountInHand))
  BY MessageIsItsChunks, SatelliteAssumption DEF CountInHand
<1>2. ChunksToResend(chunks, missing) \in Seq(ChunksOf(sid, MidInHand, CountInHand))
  BY <1>1, ResendIsOfMessage
<1> QED
  BY <1>1, <1>2 DEF Send, Sends

\* Every step of the program is one of the moves, sends chunks of the message in hand
\* or nothing, and takes control packets from the front or none.
LEMMA SatSteps ==
    ASSUME SatInv, SatProgram
    PROVE  Move /\ Sends /\ Reads
<1>1. CASE SendSessionInit
  <2>1. MessageChunks(FreshSid, NoMid, SiChunks) \in Seq(ChunksOf(FreshSid, NoMid, SiChunks))
    BY MessageIsItsChunks, SatelliteAssumption
  <2>2. Begins /\ Reads
    BY <1>1 DEF SendSessionInit, Begins, Reads, FreshSid
  <2>3. Sends
    BY <1>1, <2>1 DEF SendSessionInit, Sends, MidInHand, CountInHand
  <2> QED
    BY <2>2, <2>3 DEF Move
<1>2. CASE SiQuietCycle
  <2>1. Listens /\ Reads
    BY <1>2 DEF SiQuietCycle, NextSiCycle, ReadTimesOut, Listens, Reads
  <2>2. SessionInitChunks = MessageChunks(sid, MidInHand, CountInHand)
    BY <1>2 DEF SiQuietCycle, SessionInitChunks, MidInHand, CountInHand
  <2>3. Sends
    BY <1>2, <2>1, <2>2, SendSends DEF SiQuietCycle, Listens, Sends
  <2> QED
    BY <2>1, <2>3 DEF Move
<1>3. CASE SiForeignControl
  BY <1>3 DEF SiForeignControl, NextSiCycle, ReadControl, Move, Listens, Sends, Reads
<1>4. CASE SiAck
  BY <1>4 DEF SiAck, Matches, ReadControl, Move, Agrees, Sends, Reads
<1>5. CASE SiNack
  <2>1. Listens /\ Reads
    BY <1>5 DEF SiNack, NextSiCycle, ReadControl, Listens, Reads
  <2>2. SessionInitChunks = MessageChunks(sid, MidInHand, CountInHand)
    BY <1>5 DEF SiNack, SessionInitChunks, MidInHand, CountInHand
  <2>3. Sends
    BY <1>5, <2>1, <2>2, SendSends DEF SiNack, Listens
  <2> QED
    BY <2>1, <2>3 DEF Move
<1>6. CASE SendTelemetry
  <2>1. Waits /\ Reads
    BY <1>6 DEF SendTelemetry, Waits, Reads
  <2>2. TelemetryChunks = MessageChunks(sid, MidInHand, CountInHand)
    BY <1>6 DEF SendTelemetry, TelemetryChunks, MidInHand, CountInHand
  <2>3. Sends
    BY <1>6, <2>1, <2>2, SendSends DEF SendTelemetry, Waits
  <2> QED
    BY <2>1, <2>3 DEF Move
<1>7. CASE TcQuietCycle
  <2>1. Move /\ Reads
    BY <1>7 DEF TcQuietCycle, NextTcCycle, Finish, ReadTimesOut, Move, Waits, Concludes, Reads
  <2>2. TelemetryChunks = MessageChunks(sid, MidInHand, CountInHand)
    BY <1>7 DEF TcQuietCycle, TelemetryChunks, MidInHand, CountInHand
  <2>3. phase = "tc_wait" /\ sid' = sid /\ (Send(TelemetryChunks) \/ UNCHANGED up)
    BY <1>7 DEF TcQuietCycle
  <2>4. Sends
    BY <2>2, <2>3, SendSends DEF Sends
  <2> QED
    BY <2>1, <2>4
<1>8. CASE TcForeignControl
  BY <1>8 DEF TcForeignControl, NextTcCycle, Finish, ReadControl, Move, Waits, Concludes,
              Sends, Reads
<1>9. CASE TcAck
  BY <1>9 DEF TcAck, Finish, Matches, ReadControl, Move, Concludes, Sends, Reads
<1>10. CASE TcNack
  <2>1. Move /\ Reads
    BY <1>10 DEF TcNack, NextTcCycle, Finish, ReadControl, Move, Waits, Concludes, Reads
  <2>2. TelemetryChunks = MessageChunks(sid, MidInHand, CountInHand)
    BY <1>10 DEF TcNack, TelemetryChunks, MidInHand, CountInHand
  <2>3. phase = "tc_wait" /\ sid' = sid /\ Send(ChunksToResend(TelemetryChunks, Control.m))
    BY <1>10 DEF TcNack
  <2>4. Sends
    BY <2>2, <2>3, SendSends
  <2> QED
    BY <2>1, <2>4
<1> QED
  BY <1>1, <1>2, <1>3, <1>4, <1>5, <1>6, <1>7, <1>8, <1>9, <1>10 DEF SatProgram

LEMMA SatInitHolds == SatInit => SatInv
<1> SUFFICES ASSUME SatInit
             PROVE  SatInv
  OBVIOUS
<1>1. /\ phase = "boot" /\ sid = 0 /\ sequence = 1 /\ cycle = 1 /\ quiet = 0
      /\ seen_nack = FALSE /\ verdicts = {}
  BY DEF SatInit
<1>2. /\ sid \in 0..MaxSessions /\ sequence \in 1..(MaxSequence + 1)
      /\ cycle \in 1..TcMaxCycles /\ quiet \in 0..(TcMaxQuietCycles - 1)
  BY <1>1, SatelliteAssumption
<1> QED
  BY <1>1, <1>2 DEF SatInv, SatTypeOK, Phases

\* The counters and the message number stay in their ranges.
LEMMA SatInvKept ==
    ASSUME SatInv, SatProgram \/ SatelliteRestart \/ UNCHANGED satVars
    PROVE  SatInv'
<1> USE SatelliteAssumption DEF SatInv, SatTypeOK, Phases
<1>1. CASE SendSessionInit
  <2>1. /\ phase' = "si_wait" /\ sid' = sid + 1 /\ sid < MaxSessions /\ cycle' = 1
        /\ seen_nack' = FALSE /\ UNCHANGED <<sequence, quiet, verdicts>>
    BY <1>1 DEF SendSessionInit, FreshSid
  <2>2. sid' \in 0..MaxSessions /\ sid' # 0 /\ cycle' \in 1..SiListenCycles
    BY <2>1
  <2> QED
    BY <2>1, <2>2
<1>2. CASE SiQuietCycle \/ SiForeignControl \/ SiNack
  <2>1. NextSiCycle /\ phase = "si_wait" /\ seen_nack' \in BOOLEAN
    BY <1>2 DEF SiQuietCycle, SiForeignControl, SiNack
  <2> QED
    BY <2>1 DEF NextSiCycle
<1>3. CASE SiAck
  BY <1>3 DEF SiAck
<1>4. CASE SendTelemetry
  BY <1>4 DEF SendTelemetry
<1>5. ASSUME phase = "tc_wait", NEW outcome \in {"ok", "fail"}, Finish(outcome),
             UNCHANGED <<sid, seen_nack>>
      PROVE  SatInv'
  <2>1. <<sid, sequence, outcome>> \in (1..MaxSessions) \X (1..MaxSequence) \X {"ok", "fail"}
    BY <1>5
  <2> QED
    BY <1>5, <2>1 DEF Finish
<1>6. ASSUME phase = "tc_wait", NEW q \in 0..(TcMaxQuietCycles - 1), NextTcCycle(q),
             UNCHANGED <<sid, seen_nack>>
      PROVE  SatInv'
  BY <1>5, <1>6 DEF NextTcCycle
<1>7. CASE TcQuietCycle
  BY <1>6, <1>7 DEF TcQuietCycle
<1>8. CASE TcForeignControl \/ TcNack
  BY <1>6, <1>8 DEF TcForeignControl, TcNack
<1>9. CASE TcAck
  BY <1>5, <1>9 DEF TcAck
<1>10. CASE SatelliteRestart
  <2>1. /\ phase' = "boot" /\ sequence' = 1 /\ cycle' = 1 /\ quiet' = 0
        /\ seen_nack' = FALSE /\ UNCHANGED <<sid, verdicts>>
    BY <1>10 DEF SatelliteRestart
  <2>2. sequence' \in 1..(MaxSequence + 1) /\ cycle' \in 1..TcMaxCycles
        /\ quiet' \in 0..(TcMaxQuietCycles - 1)
    BY <2>1
  <2> QED
    BY <2>1, <2>2
<1>11. CASE UNCHANGED satVars
  BY <1>11 DEF satVars
<1> QED
  BY <1>1, <1>2, <1>3, <1>4, <1>7, <1>8, <1>9, <1>10, <1>11 DEF SatProgram
=============================================================================
