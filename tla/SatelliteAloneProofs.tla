------------------------ MODULE SatelliteAloneProofs ------------------------
(***************************************************************************)
(* The satellite against any ground station: how long it stays silent, how *)
(* often it sends, and what it concludes, for any cycle counts, any number *)
(* of chunks and messages, any answers and any size of the queues.         *)
(***************************************************************************)
EXTENDS SatelliteAlone, SatelliteProofs

\* The two counts of the history against the program's own: each read is a listening
\* cycle, and each silent read after the last sending is one of the quiet cycles, which
\* answers to other messages do not reset.
Pace ==
    /\ phase = "boot" => silence = 0 /\ sendings = 0
    /\ phase = "si_wait" => silence < cycle /\ sendings <= cycle
    /\ phase = "exited" => silence <= SiListenCycles /\ sendings <= SiListenCycles + 1
    /\ phase = "tc_send" => silence < SiListenCycles /\ sendings <= SiListenCycles
    /\ phase = "tc_wait" => silence <= quiet /\ silence < cycle /\ sendings <= cycle

\* The verdicts on the session in hand, and none on one that is still to come.
Concluded ==
    /\ EachConcludedOnce
    /\ \A w \in verdicts : w[1] <= sid /\ (w[1] = sid => phase \in {"tc_send", "tc_wait"})

AloneInv == SatInv /\ TypeOK /\ Pace /\ Concluded

-----------------------------------------------------------------------------
\* A NACK always makes the satellite send something.
LEMMA ResendIsSome ==
    ASSUME NEW S, NEW chunks \in Seq(S), chunks # <<>>, NEW missing
    PROVE  ChunksToResend(chunks, missing) # <<>>
<1> DEFINE asked == {k \in 1..Len(chunks) : chunks[k].i \in missing}
<1>1. CASE asked = {}
  BY <1>1 DEF ChunksToResend
<1>2. CASE asked # {}
  <2>1. IsFiniteSet(1..Len(chunks)) /\ asked \in SUBSET (1..Len(chunks))
    BY LenProperties, FS_Interval
  <2>2. IsFiniteSet(asked) /\ Cardinality(asked) \in Nat /\ Cardinality(asked) # 0
    <3>1. IsFiniteSet(asked)
      BY <2>1, FS_Subset
    <3> QED
      BY <1>2, <3>1, FS_CardinalityType, FS_EmptySet
  <2>3. ChunksToResend(chunks, missing) = [j \in 1..Cardinality(asked) |-> chunks[Nth(asked, j)]]
    BY <1>2 DEF ChunksToResend
  <2>4. DOMAIN ChunksToResend(chunks, missing) # {}
    <3> HIDE DEF asked
    <3> QED
      BY <2>2, <2>3
  <2> QED
    BY <2>4
<1> QED
  BY <1>1, <1>2

\* What is written to a queue with room left is there.
LEMMA PushedSome ==
    ASSUME NEW S, NEW queue \in Seq(S), NEW frames \in Seq(S), frames # <<>>,
           NEW limit \in Nat, Len(queue) < limit
    PROVE  Push(queue, frames, limit) # queue
<1> DEFINE joined == queue \o frames
<1>1. joined \in Seq(S) /\ Len(joined) = Len(queue) + Len(frames) /\ Len(frames) > 0
      /\ Len(queue) \in Nat
  BY ConcatProperties, LenProperties, EmptySeq
<1> HIDE DEF joined
<1>2. CASE Len(joined) <= limit
  BY <1>1, <1>2 DEF Push, joined
<1>3. CASE Len(joined) > limit
  <2>1. Push(queue, frames, limit) = SubSeq(joined, 1, limit)
    BY <1>3 DEF Push, joined
  <2>2. Len(SubSeq(joined, 1, limit)) = limit
    <3>1. \A k \in 1..limit : joined[k] \in S
      BY <1>1, <1>3
    <3> QED
      BY <1>1, <3>1, SubSeqProperties
  <2> QED
    BY <1>1, <2>1, <2>2
<1> QED
  BY <1>1, <1>2, <1>3

LEMMA SendShows ==
    ASSUME up = <<>>, NEW s, NEW mid, NEW n \in Nat \ {0}, NEW missing,
           \/ Send(MessageChunks(s, mid, n))
           \/ Send(ChunksToResend(MessageChunks(s, mid, n), missing))
    PROVE  up' # up
<1> DEFINE chunks == MessageChunks(s, mid, n)
           S == ChunksOf(s, mid, n)
<1>1. chunks \in Seq(S) /\ Len(chunks) = n
  BY MessageIsItsChunks
<1> HIDE DEF chunks, S
<1>2. chunks # <<>>
  BY <1>1
<1>3. ChunksToResend(chunks, missing) \in Seq(S) /\ ChunksToResend(chunks, missing) # <<>>
  BY <1>1, <1>2, ResendIsOfMessage, ResendIsSome
<1>4. up \in Seq(S) /\ Len(up) < MaxUp /\ MaxUp \in Nat
  BY LinkAssumption
<1> QED
  BY <1>1, <1>2, <1>3, <1>4, PushedSome DEF Send, chunks

-----------------------------------------------------------------------------
\* Reading takes something: an answer is never mistaken for silence.
LEMMA ReadShows ==
    ASSUME LinkTypeOK, ReadControl
    PROVE  down' # down
<1>1. PICK n \in 1..Len(down) : down' = SubSeq(down, n + 1, Len(down))
  BY DEF ReadControl
<1>2. Len(down') = Len(down) - n
  BY <1>1, Taken DEF LinkTypeOK
<1>3. Len(down) \in Nat
  BY LenProperties DEF LinkTypeOK
<1> QED
  BY <1>1, <1>2, <1>3

\* No step adds more than one to either count, a step that sends ends the silence, one
\* that reads does not add to it, and a new message begins both anew.
LEMMA CountsGrowSlowly ==
    ASSUME TypeOK, Counted
    PROVE  /\ silence' \in Nat /\ silence' <= silence + 1
           /\ sendings' \in Nat /\ sendings' <= sendings + 1
           /\ up' # up => silence' = 0
           /\ down' # down => silence' <= silence
           /\ UNCHANGED up => sendings' <= sendings
           /\ NewMessage => silence' = 0 /\ sendings' <= 1
<1>1. silence \in Nat /\ sendings \in Nat
  BY SatelliteAssumption DEF TypeOK
<1> HIDE DEF NewMessage
<1> QED
  BY <1>1 DEF Counted

LEMMA PaceOfSessionInit ==
    ASSUME AloneInv, Counted, phase = "si_wait", NextSiCycle
    PROVE  Pace'
<1>1. /\ cycle \in 1..SiListenCycles /\ silence < cycle /\ sendings <= cycle
      /\ silence \in Nat /\ sendings \in Nat
  BY SatelliteAssumption DEF AloneInv, SatInv, SatTypeOK, TypeOK, Pace
<1>2. /\ silence' \in Nat /\ silence' <= silence + 1
      /\ sendings' \in Nat /\ sendings' <= sendings + 1
  BY CountsGrowSlowly DEF AloneInv
<1>3. CASE cycle = SiListenCycles
  <2>1. phase' = "exited"
    BY <1>3 DEF NextSiCycle
  <2> QED
    BY <1>1, <1>2, <1>3, <2>1, SatelliteAssumption DEF Pace
<1>4. CASE cycle # SiListenCycles
  <2>1. phase' = "si_wait" /\ cycle' = cycle + 1
    BY <1>4 DEF NextSiCycle
  <2> QED
    BY <1>1, <1>2, <2>1, SatelliteAssumption DEF Pace
<1> QED
  BY <1>3, <1>4

\* A telemetry cycle keeps the pace if the silence stays within the quiet cycles.
LEMMA PaceOfTelemetry ==
    ASSUME AloneInv, Counted, phase = "tc_wait", NEW q \in Nat, silence' <= q, NextTcCycle(q)
    PROVE  Pace'
<1>1. /\ cycle \in Nat /\ sendings \in Nat /\ sendings <= cycle
      /\ silence \in Nat /\ silence < cycle
  BY SatelliteAssumption DEF AloneInv, SatInv, SatTypeOK, TypeOK, Pace
<1>2. /\ silence' \in Nat /\ silence' <= silence + 1
      /\ sendings' \in Nat /\ sendings' <= sendings + 1
      /\ NewMessage => silence' = 0 /\ sendings' <= 1
  BY CountsGrowSlowly DEF AloneInv
<1>3. CASE Finish("fail")
  <2>1. phase' = "tc_send" /\ sequence' # sequence
    BY <1>3 DEF Finish, AloneInv, SatInv, SatTypeOK
  <2>2. silence' = 0 /\ sendings' <= 1
    BY <1>2, <2>1 DEF NewMessage
  <2> QED
    BY <1>2, <2>1, <2>2, SatelliteAssumption DEF Pace
<1>4. CASE cycle' = cycle + 1 /\ quiet' = q /\ phase' = phase
  BY <1>1, <1>2, <1>4 DEF Pace
<1> QED
  BY <1>3, <1>4 DEF NextTcCycle

LEMMA PaceKept ==
    ASSUME AloneInv, [Next]_vars
    PROVE  Pace'
<1>1. /\ cycle \in Nat /\ quiet \in Nat /\ silence \in Nat /\ sendings \in Nat
      /\ LinkTypeOK
  BY SatelliteAssumption DEF AloneInv, SatInv, SatTypeOK, TypeOK
<1>2. CASE UNCHANGED <<satVars, silence, sendings>>
  BY <1>2 DEF AloneInv, Pace, satVars
<1>3. CASE SatStep
  <2>1. Counted /\ up = <<>>
    BY <1>3 DEF SatStep, Sent
  <2>2. /\ silence' \in Nat /\ silence' <= silence + 1
        /\ sendings' \in Nat /\ sendings' <= sendings + 1
        /\ up' # up => silence' = 0
        /\ down' # down => silence' <= silence
        /\ UNCHANGED up => sendings' <= sendings
        /\ NewMessage => silence' = 0 /\ sendings' <= 1
    BY <2>1, CountsGrowSlowly DEF AloneInv
  <2>3. CASE SendSessionInit
    <3>1. phase' = "si_wait" /\ cycle' = 1 /\ NewMessage
      BY <2>3 DEF SendSessionInit, FreshSid, NewMessage, AloneInv, SatInv, SatTypeOK
    <3> QED
      BY <2>2, <3>1 DEF Pace
  <2>4. CASE SiQuietCycle \/ SiForeignControl \/ SiNack
    <3>1. phase = "si_wait" /\ NextSiCycle
      BY <2>4 DEF SiQuietCycle, SiForeignControl, SiNack
    <3> QED
      BY <2>1, <3>1, PaceOfSessionInit
  <2>5. CASE SiAck
    <3>1. /\ phase = "si_wait" /\ phase' = "tc_send" /\ UNCHANGED up /\ down' # down
          /\ cycle <= SiListenCycles
      BY <1>1, <2>5, ReadShows DEF SiAck, AloneInv, SatInv, SatTypeOK
    <3>2. silence < cycle /\ sendings <= cycle
      BY <3>1 DEF AloneInv, Pace
    <3> QED
      BY <1>1, <2>2, <3>1, <3>2, SatelliteAssumption DEF Pace
  <2>6. CASE SendTelemetry
    <3>1. phase' = "tc_wait" /\ cycle' = 1 /\ quiet' = 0 /\ NewMessage
      BY <2>6 DEF SendTelemetry, NewMessage
    <3> QED
      BY <2>2, <3>1 DEF Pace
  <2>7. CASE phase = "tc_wait"
    <3>1. silence <= quiet
      BY <2>7 DEF AloneInv, Pace
    <3>2. CASE TcQuietCycle
      <4>1. CASE quiet + 1 >= TcMaxQuietCycles
        <5>1. Send(MessageChunks(sid, sequence, TcChunks)) /\ NextTcCycle(0)
          BY <3>2, <4>1 DEF TcQuietCycle, TelemetryChunks
        <5>2. up' # up
          BY <2>1, <5>1, SendShows, SatelliteAssumption
        <5> QED
          BY <2>1, <2>2, <2>7, <5>1, <5>2, PaceOfTelemetry
      <4>2. CASE ~(quiet + 1 >= TcMaxQuietCycles)
        <5>1. NextTcCycle(quiet + 1) /\ quiet + 1 \in Nat /\ silence' <= quiet + 1
          BY <1>1, <2>2, <3>1, <3>2, <4>2 DEF TcQuietCycle
        <5> QED
          BY <2>1, <2>7, <5>1, PaceOfTelemetry
      <4> QED
        BY <4>1, <4>2
    <3>3. CASE TcForeignControl
      <4>1. NextTcCycle(quiet) /\ down' # down
        BY <1>1, <3>3, ReadShows DEF TcForeignControl
      <4>2. silence' <= quiet
        BY <1>1, <2>2, <3>1, <4>1
      <4> QED
        BY <1>1, <2>1, <2>7, <4>1, <4>2, PaceOfTelemetry
    <3>4. CASE TcAck
      <4>1. phase' = "tc_send" /\ NewMessage
        BY <3>4 DEF TcAck, Finish, NewMessage, AloneInv, SatInv, SatTypeOK
      <4> QED
        BY <2>2, <4>1, SatelliteAssumption DEF Pace
    <3>5. CASE TcNack
      <4>1. /\ Send(ChunksToResend(MessageChunks(sid, sequence, TcChunks), Control.m))
            /\ NextTcCycle(0)
        BY <3>5 DEF TcNack, TelemetryChunks
      <4>2. up' # up
        BY <2>1, <4>1, SendShows, SatelliteAssumption
      <4> QED
        BY <2>1, <2>2, <2>7, <4>1, <4>2, PaceOfTelemetry
    <3>6. TcQuietCycle \/ TcForeignControl \/ TcAck \/ TcNack
      BY <1>3, <2>7 DEF SatStep, SatProgram, SendSessionInit, SiQuietCycle, SiForeignControl,
                        SiAck, SiNack, SendTelemetry
    <3> QED
      BY <3>2, <3>3, <3>4, <3>5, <3>6
  <2> QED
    BY <1>3, <2>3, <2>4, <2>5, <2>6, <2>7
       DEF SatStep, SatProgram, TcQuietCycle, TcForeignControl, TcAck, TcNack
<1> QED
  BY <1>2, <1>3 DEF Next, AnswerComes, ChunksLeave, vars

-----------------------------------------------------------------------------
\* Types are kept: what is sent are chunks of the message in hand, what is left of the
\* answers are answers, and the pace bounds the counts.
LEMMA ChunksAreFrames ==
    ASSUME NEW s \in Nat, NEW mid \in {NoMid} \cup Nat, NEW n \in Nat \ {0}
    PROVE  ChunksOf(s, mid, n) \subseteq ChunkFrames
<1>1. ASSUME NEW k \in 1..n
      PROVE  [key |-> MakeKey(s, mid), i |-> k - 1, n |-> n, d |-> "good", intact |-> TRUE]
                \in ChunkFrames
  BY <1>1 DEF ChunkFrames, MakeKey
<1> QED
  BY <1>1 DEF ChunksOf

LEMMA QueuesKept ==
    ASSUME AloneInv, [Next]_vars
    PROVE  LinkTypeOK'
<1>1. SatInv /\ LinkTypeOK
  BY DEF AloneInv, TypeOK
<1>2. CASE SatStep
  <2>1. up = <<>> /\ Move /\ Sends /\ Reads
    BY <1>1, <1>2, SatSteps DEF SatStep, Sent
  <2>2. up' \in Seq(ChunkFrames) /\ Len(up') <= MaxUp
    <3>1. CASE UNCHANGED up
      BY <1>1, <3>1 DEF LinkTypeOK
    <3>2. ASSUME NEW frames \in Seq(ChunksOf(sid', MidInHand, CountInHand)),
                 up' = Push(up, frames, MaxUp)
          PROVE  up' \in Seq(ChunkFrames) /\ Len(up') <= MaxUp
      <4>1. sid' \in Nat
        BY <1>1, <2>1 DEF SatInv, SatTypeOK, Move, Begins, Listens, Agrees, Waits, Concludes
      <4>2. MidInHand \in {NoMid} \cup Nat /\ CountInHand \in Nat \ {0}
        BY <1>1, SatelliteAssumption DEF SatInv, SatTypeOK, MidInHand, CountInHand
      <4>3. ChunksOf(sid', MidInHand, CountInHand) \subseteq ChunkFrames
        BY <4>1, <4>2, ChunksAreFrames
      <4>4. frames \in Seq(ChunkFrames)
        BY <3>2, <4>3
      <4> QED
        BY <1>1, <3>2, <4>4, Pushed, LinkAssumption DEF LinkTypeOK
    <3> QED
      BY <2>1, <3>1, <3>2 DEF Sends
  <2>3. down' \in Seq(ControlFrames) /\ Len(down') <= MaxDown
    <3>1. CASE UNCHANGED down
      BY <1>1, <3>1 DEF LinkTypeOK
    <3>2. ASSUME NEW n \in 1..Len(down), down' = SubSeq(down, n + 1, Len(down))
          PROVE  down' \in Seq(ControlFrames) /\ Len(down') <= MaxDown
      <4>1. down' \in Seq(ControlFrames) /\ Len(down') = Len(down) - n
        BY <1>1, <3>2, Taken DEF LinkTypeOK
      <4> QED
        BY <1>1, <4>1, LenProperties, LinkAssumption DEF LinkTypeOK
    <3> QED
      BY <2>1, <3>1, <3>2 DEF Reads
  <2> QED
    BY <2>2, <2>3 DEF LinkTypeOK
<1>3. CASE AnswerComes
  <2>1. ASSUME NEW control \in Answers
        PROVE  control \in ControlFrames
    <3>1. \A m \in NackLists : Trimmed(m) \subseteq Nat
      BY NackListsAssumption DEF Trimmed
    <3>2. \A s \in Sids : s \in Nat
      BY SatelliteAssumption DEF Sids
    <3>3. \A m \in Mids : m \in {NoMid} \cup Nat
      BY SatelliteAssumption DEF Mids
    <3> QED
      BY <2>1, <3>1, <3>2, <3>3 DEF Answers, Ack, Nack, ControlFrames
  <2>2. PICK control \in ControlFrames : down' = Append(down, control)
    BY <1>3, <2>1 DEF AnswerComes
  <2>3. down' \in Seq(ControlFrames) /\ Len(down') = Len(down) + 1
    BY <1>1, <2>2, AppendProperties DEF LinkTypeOK
  <2> QED
    BY <1>1, <1>3, <2>3, LenProperties, LinkAssumption DEF AnswerComes, LinkTypeOK
<1>4. CASE ChunksLeave
  BY <1>1, <1>4, LinkAssumption DEF ChunksLeave, LinkTypeOK
<1>5. CASE UNCHANGED vars
  BY <1>1, <1>5 DEF vars, linkVars, LinkTypeOK
<1> QED
  BY <1>2, <1>3, <1>4, <1>5 DEF Next

LEMMA TypeKept ==
    ASSUME AloneInv, [Next]_vars
    PROVE  SatInv' /\ TypeOK'
<1>1. SatInv'
  BY SatInvKept DEF AloneInv, Next, SatStep, AnswerComes, ChunksLeave, vars
<1>2. silence' \in Nat /\ sendings' \in Nat
  <2>1. CASE SatStep
    BY <2>1, CountsGrowSlowly DEF AloneInv, SatStep
  <2>2. CASE UNCHANGED <<silence, sendings>>
    BY <2>2, SatelliteAssumption DEF AloneInv, TypeOK
  <2> QED
    BY <2>1, <2>2 DEF Next, AnswerComes, ChunksLeave, vars
<1>3. Pace'
  BY PaceKept
<1>4. silence' <= SiListenCycles + TcMaxCycles /\ sendings' <= SiListenCycles + TcMaxCycles
  <2>1. /\ phase' \in Phases
        /\ phase' = "si_wait" => cycle' \in 1..SiListenCycles
        /\ phase' # "si_wait" => cycle' \in 1..TcMaxCycles
    BY <1>1 DEF SatInv, SatTypeOK
  <2>2. SiListenCycles \in Nat \ {0} /\ TcMaxCycles \in Nat \ {0}
    BY SatelliteAssumption
  <2> QED
    BY <1>2, <1>3, <2>1, <2>2 DEF Pace, Phases
<1> QED
  BY <1>1, <1>2, <1>4, QueuesKept, SatelliteAssumption DEF SatInv, TypeOK

-----------------------------------------------------------------------------
LEMMA ConcludedKept ==
    ASSUME AloneInv, [Next]_vars
    PROVE  Concluded'
<1> DEFINE Numbers(vs, s) == {v[2] : v \in {w \in vs : w[1] = s}}
           Running == phase \in {"tc_send", "tc_wait"}
<1>1. /\ \A v, w \in verdicts : v[1] = w[1] /\ v[2] = w[2] => v = w
      /\ Running => Numbers(verdicts, sid) = 1..(sequence - 1)
      /\ \A w \in verdicts : w[1] <= sid /\ (w[1] = sid => Running)
  BY DEF AloneInv, Concluded, EachConcludedOnce
<1>2. /\ sid \in Nat /\ sequence \in Nat \ {0}
      /\ verdicts \subseteq (1..MaxSessions) \X (1..MaxSequence) \X {"ok", "fail"}
  BY DEF AloneInv, SatInv, SatTypeOK
<1>3. CASE UNCHANGED satVars
  BY <1>1, <1>3 DEF Concluded, EachConcludedOnce, satVars
<1>4. CASE SatStep
  <2>1. Move
    BY <1>4, SatSteps DEF SatStep, AloneInv
  <2>2. CASE Begins
    <3>1. \A w \in verdicts : w[1] <= sid' /\ w[1] # sid'
      BY <1>1, <1>2, <2>2 DEF Begins
    <3> QED
      BY <1>1, <2>2, <3>1 DEF Begins, Concluded, EachConcludedOnce
  <2>3. CASE Listens
    BY <1>1, <2>3 DEF Listens, Concluded, EachConcludedOnce
  <2>4. CASE Agrees
    <3>1. \A w \in verdicts : w[1] # sid
      BY <1>1, <2>4 DEF Agrees
    <3>2. Numbers(verdicts, sid) = {}
      BY <3>1
    <3>3. Numbers(verdicts, sid) = 1..(1 - 1)
      BY <3>2
    <3> QED
      BY <1>1, <2>4, <3>1, <3>3 DEF Agrees, Concluded, EachConcludedOnce
  <2>5. CASE Waits
    BY <1>1, <2>5 DEF Waits, Concluded, EachConcludedOnce
  <2>6. ASSUME NEW outcome \in {"ok", "fail"}, Concludes(outcome)
        PROVE  Concluded'
    <3> DEFINE verdict == <<sid, sequence, outcome>>
    <3>1. /\ phase' = "tc_send" /\ sid' = sid /\ sequence' = sequence + 1
          /\ verdicts' = verdicts \cup {verdict}
          /\ Numbers(verdicts, sid) = 1..(sequence - 1)
      BY <1>1, <2>6 DEF Concludes
    <3>2. \A w \in verdicts : ~(w[1] = sid /\ w[2] = sequence)
      <4>1. sequence \notin Numbers(verdicts, sid)
        BY <1>2, <3>1
      <4> QED
        BY <4>1
    <3>3. verdict[1] = sid /\ verdict[2] = sequence
      OBVIOUS
    <3>4. \A v, w \in verdicts' : v[1] = w[1] /\ v[2] = w[2] => v = w
      <4> HIDE DEF verdict
      <4> QED
        BY <1>1, <3>1, <3>2, <3>3
    <3>5. \A w \in verdicts' : w[1] <= sid
      <4> HIDE DEF verdict
      <4> QED
        BY <1>1, <1>2, <3>1, <3>3
    <3>6. Numbers(verdicts', sid) = 1..sequence
      <4>1. Numbers(verdicts', sid) = Numbers(verdicts, sid) \cup {sequence}
        <5> HIDE DEF verdict
        <5> QED
          BY <3>1, <3>3
      <4>2. 1..sequence = (1..(sequence - 1)) \cup {sequence}
        BY <1>2
      <4> QED
        BY <3>1, <4>1, <4>2
    <3>7. sequence' - 1 = sequence
      BY <1>2, <3>1
    <3> QED
      BY <3>1, <3>4, <3>5, <3>6, <3>7 DEF Concluded, EachConcludedOnce
  <2> QED
    BY <2>1, <2>2, <2>3, <2>4, <2>5, <2>6 DEF Move
<1> QED
  BY <1>3, <1>4 DEF Next, AnswerComes, ChunksLeave, vars

-----------------------------------------------------------------------------
\* Everything this module shows of the satellite is inductive together.
THEOREM Inductive == Spec => []AloneInv
<1>1. Init => AloneInv
  <2> SUFFICES ASSUME Init
               PROVE  AloneInv
    OBVIOUS
  <2>1. SatInv /\ phase = "boot" /\ verdicts = {} /\ silence = 0 /\ sendings = 0
    BY SatInitHolds DEF Init, SatInit
  <2>2. LinkTypeOK
    BY LinkAssumption DEF Init, LinkInit, LinkTypeOK
  <2>3. TypeOK
    BY <2>1, <2>2, SatelliteAssumption DEF SatInv, TypeOK
  <2>4. Pace /\ Concluded
    BY <2>1 DEF Pace, Concluded, EachConcludedOnce
  <2> QED
    BY <2>1, <2>3, <2>4 DEF AloneInv
<1>2. AloneInv /\ [Next]_vars => AloneInv'
  BY TypeKept, PaceKept, ConcludedKept DEF AloneInv
<1> QED
  BY <1>1, <1>2, PTL DEF Spec

\* Every variable of the satellite and its counts stay in their types, whatever answers.
THEOREM TypeCorrect == Spec => []TypeOK
  BY Inductive, PTL DEF AloneInv

\* The wait for a telemetry ACK (transmitter.py:659-760) never lets
\* TELEMETRY_MAX_QUIET_CYCLES silent reads pass without sending.
THEOREM SilenceBroken == Spec => []SilenceIsBroken
<1>1. AloneInv => SilenceIsBroken
  BY SatelliteAssumption DEF AloneInv, SatInv, SatTypeOK, TypeOK, Pace, SilenceIsBroken
<1> QED
  BY <1>1, Inductive, PTL

\* It sends at most once for each read, whatever the NACKs ask for.
THEOREM OneSending == Spec => []OneSendingPerRead
<1>1. AloneInv => OneSendingPerRead
  BY DEF AloneInv, Pace, OneSendingPerRead
<1> QED
  BY <1>1, Inductive, PTL

\* Every telemetry message gets one verdict, and gets it before the next is sent.
THEOREM ConcludedOnce == Spec => []EachConcludedOnce
  BY Inductive, PTL DEF AloneInv, Concluded

-----------------------------------------------------------------------------
\* How many reads the loop the program waits in has left.
Waiting == phase \in {"si_wait", "tc_wait"}
ReadsLeft == CASE phase = "si_wait" -> (SiListenCycles - cycle) + 1
               [] phase = "tc_wait" -> (TcMaxCycles - cycle) + 1
               [] OTHER -> 0

\* Each step of the program uses up a read, and nobody gives one back.
WaitsWearOut ==
    /\ SatStep => ReadsLeft' < ReadsLeft
    /\ ~SatStep => ReadsLeft' = ReadsLeft

LEMMA ReadIsUsedUp ==
    ASSUME AloneInv, Waiting, SatStep
    PROVE  ReadsLeft' < ReadsLeft
<1>1. CASE phase = "si_wait"
  <2>1. cycle \in 1..SiListenCycles /\ ReadsLeft = (SiListenCycles - cycle) + 1
    BY <1>1 DEF AloneInv, SatInv, SatTypeOK, ReadsLeft
  <2>2. NextSiCycle \/ phase' = "tc_send"
    BY <1>1 DEF SatStep, SatProgram, SendSessionInit, SiQuietCycle, SiForeignControl, SiAck,
                SiNack, SendTelemetry, TcQuietCycle, TcForeignControl, TcAck, TcNack
  <2>3. CASE phase' = "si_wait"
    <3>1. cycle' = cycle + 1
      BY <2>2, <2>3 DEF NextSiCycle
    <3>2. ReadsLeft' = (SiListenCycles - cycle') + 1
      BY <2>3 DEF ReadsLeft
    <3> QED
      BY <2>1, <3>1, <3>2, SatelliteAssumption
  <2>4. CASE phase' # "si_wait"
    <3>1. phase' \in {"tc_send", "exited"}
      BY <1>1, <2>2, <2>4 DEF NextSiCycle
    <3>2. ReadsLeft' = 0
      BY <3>1 DEF ReadsLeft
    <3> QED
      BY <2>1, <3>2, SatelliteAssumption
  <2> QED
    BY <2>3, <2>4
<1>2. CASE phase = "tc_wait"
  <2>1. cycle \in 1..TcMaxCycles /\ ReadsLeft = (TcMaxCycles - cycle) + 1
    BY <1>2 DEF AloneInv, SatInv, SatTypeOK, ReadsLeft
  <2>2. phase' = "tc_send" \/ (phase' = "tc_wait" /\ cycle' = cycle + 1)
    BY <1>2 DEF SatStep, SatProgram, SendSessionInit, SiQuietCycle, SiForeignControl, SiAck,
                SiNack, SendTelemetry, TcQuietCycle, TcForeignControl, TcAck, TcNack,
                NextTcCycle, Finish
  <2>3. CASE phase' = "tc_send"
    <3>1. ReadsLeft' = 0
      BY <2>3 DEF ReadsLeft
    <3> QED
      BY <2>1, <3>1, SatelliteAssumption
  <2>4. CASE phase' = "tc_wait" /\ cycle' = cycle + 1
    <3>1. ReadsLeft' = (TcMaxCycles - cycle') + 1
      BY <2>4 DEF ReadsLeft
    <3> QED
      BY <2>1, <2>4, <3>1, SatelliteAssumption
  <2> QED
    BY <2>2, <2>3, <2>4
<1> QED
  BY <1>1, <1>2 DEF Waiting

\* The safety half of WaitingEnds: a wait has at least one and only so many reads left,
\* and every step of the program takes one away or ends the wait, whatever the answers
\* and NACKs are (transmitter.py:576-638 and 659-765).
THEOREM WaitsAreBounded ==
    Spec => /\ [](Waiting => ReadsLeft \in Nat \ {0})
            /\ [][Waiting => WaitsWearOut]_vars
<1>1. AloneInv => (Waiting => ReadsLeft \in Nat \ {0})
  BY SatelliteAssumption DEF AloneInv, SatInv, SatTypeOK, Waiting, ReadsLeft
<1>2. AloneInv /\ [Next]_vars => [Waiting => WaitsWearOut]_vars
  <2> SUFFICES ASSUME AloneInv, Next, Waiting
               PROVE  WaitsWearOut
    OBVIOUS
  <2>1. CASE SatStep
    BY <2>1, ReadIsUsedUp DEF WaitsWearOut
  <2>2. CASE ~SatStep
    BY <2>2 DEF Next, AnswerComes, ChunksLeave, satVars, ReadsLeft, WaitsWearOut
  <2> QED
    BY <2>1, <2>2
<1> QED
  BY <1>1, <1>2, Inductive, PTL DEF Spec
=============================================================================
