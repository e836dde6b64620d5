-------------------------- MODULE AegisLinkProofs ---------------------------
(***************************************************************************)
(* Satellite and ground station over any link, for any number of chunks,   *)
(* cycles, messages and sessions, any size of the queues and any of the    *)
(* damages, failures and mishaps: the invariants of their composition, and *)
(* that it implements TelemetryDelivery.                                   *)
(***************************************************************************)
EXTENDS AegisLink, SatelliteProofs

\* A session-init goes before the messages of its session.
Rank(mid) == IF mid = NoMid THEN 0 ELSE mid

\* The satellite's place in its session, while it sends anything.
Active == phase \in {"si_wait", "tc_send", "tc_wait"}
Current == IF phase = "si_wait" THEN 0 ELSE sequence

\* Message r of session s is not ahead of the satellite.
SoFar(s, r) == s <= sid /\ (s = sid /\ Active => r <= Current)

Good(k) == up[k].d = "good"
RankAt(k) == Rank(up[k].key.mid)

\* Chunks that were not misread arrive in the order of their messages.
WireInOrder ==
    \A j, k \in 1..Len(up) :
        j < k /\ Good(j) /\ Good(k) =>
            \/ up[j].key.sid < up[k].key.sid
            \/ up[j].key.sid = up[k].key.sid /\ RankAt(j) <= RankAt(k)

\* Nothing is under way, logged or in a replay window before it was sent.
WireNotAhead ==
    \A k \in 1..Len(up) : up[k].key.sid <= sid /\ (Good(k) => SoFar(up[k].key.sid, RankAt(k)))
NothingAhead ==
    /\ WireNotAhead
    /\ \A k \in 1..Len(log) : SoFar(log[k][1], log[k][2])
    /\ \A s \in DOMAIN sessions : SoFar(s, replay_windows[s].max_seq)

\* What is logged, or in a replay window, is not ahead of what is still to arrive.
ArrivalsAreNew ==
    \A k \in 1..Len(up) :
        Good(k) =>
            /\ \A j \in 1..Len(log) : log[j][1] = up[k].key.sid => log[j][2] <= RankAt(k)
            /\ up[k].key.sid \in DOMAIN sessions =>
                  replay_windows[up[k].key.sid].max_seq <= RankAt(k)

\* A replay window refuses its newest number, and everything logged is in it.
WindowsRemember ==
    \A s \in DOMAIN sessions :
        /\ replay_windows[s].max_seq # -1 => 0 \in replay_windows[s].seen_mask
        /\ \A j \in 1..Len(log) : log[j][1] = s => log[j][2] <= replay_windows[s].max_seq

\* Telemetry is sent, and so arrives, only in a session that the ground has opened.
TelemetryIsAgreed ==
    /\ phase \in {"tc_send", "tc_wait"} => sid \in opened
    /\ \A k \in 1..Len(up) : Good(k) /\ up[k].key.mid # NoMid => up[k].key.sid \in opened

WireInv == WireInOrder /\ NothingAhead /\ ArrivalsAreNew /\ WindowsRemember /\ TelemetryIsAgreed

IndInv == SatInv /\ TypeOK /\ WireInv /\ AcksAreEarned

-----------------------------------------------------------------------------
\* The two queues, as most steps leave them.
UpTaken == \E n \in 1..Len(up) : up' = SubSeq(up, n + 1, Len(up))
Answers(C) == \E controls \in Seq(C) : down' = Push(down, controls, MaxDown)

\* Chunks are only taken from the front or misread, none comes.  Nothing is misread as
\* part of a session-init.
Thinned ==
    \E n \in Nat :
        \A k \in 1..Len(up') :
            /\ k + n \in 1..Len(up)
            /\ up'[k].key.sid = up[k + n].key.sid
            /\ Good(k)' => Good(k + n) /\ up'[k].key = up[k + n].key
            /\ up'[k].key.mid = NoMid => up'[k].key = up[k + n].key

UpTypeOK == up \in Seq(ChunkFrames) /\ Len(up) <= MaxUp /\ ChunksOK
DownTypeOK == down \in Seq(ControlFrames) /\ Len(down) <= MaxDown /\ ControlsOK

LEMMA TypesOfQueues == TypeOK <=> SatTypeOK /\ UpTypeOK /\ DownTypeOK /\ BuffersOK /\ SessionsOK
  BY DEF TypeOK, LinkTypeOK, UpTypeOK, DownTypeOK

LEMMA TakenIsThinned ==
    ASSUME TypeOK, UpTaken
    PROVE  UpTypeOK' /\ Thinned
<1>1. PICK n \in 1..Len(up) : up' = SubSeq(up, n + 1, Len(up))
  BY DEF UpTaken
<1>2. /\ up' \in Seq(ChunkFrames)
      /\ Len(up') = Len(up) - n
      /\ \A k \in 1..Len(up') : up'[k] = up[k + n]
  BY <1>1, Taken DEF TypeOK, LinkTypeOK
<1>3. Len(up) \in Nat /\ \A k \in 1..Len(up') : k + n \in 1..Len(up)
  BY <1>1, <1>2, LenProperties DEF TypeOK, LinkTypeOK
<1>4. Thinned
  <2>1. n \in Nat /\ \A k \in 1..Len(up') : k + n \in 1..Len(up) /\ up'[k] = up[k + n]
    BY <1>2, <1>3
  <2> QED
    BY <2>1 DEF Thinned, Good
<1>5. ChunksOK'
  BY <1>2, <1>3 DEF TypeOK, ChunksOK, Valid, ChunkCount, MessageKeys, DamagedKeys, Sids
<1> QED
  BY <1>2, <1>3, <1>4, <1>5, LinkAssumption DEF TypeOK, LinkTypeOK, UpTypeOK

LEMMA SameIsThinned ==
    ASSUME TypeOK, UNCHANGED up
    PROVE  UpTypeOK' /\ Thinned
<1>1. Thinned
  <2>1. 0 \in Nat /\ \A k \in 1..Len(up') : k + 0 = k /\ k \in 1..Len(up)
    BY LenProperties DEF TypeOK, LinkTypeOK
  <2> QED
    BY <2>1 DEF Thinned, Good
<1> QED
  BY <1>1 DEF TypeOK, LinkTypeOK, UpTypeOK, ChunksOK, Valid, ChunkCount, MessageKeys, DamagedKeys,
              Sids

\* A chunk misread is still a valid chunk of its session, and shows as such.
LEMMA MisreadIsValid ==
    ASSUME NEW c \in ChunkFrames, c.key \in MessageKeys, NEW m \in Misread(c)
    PROVE  /\ m \in ChunkFrames
           /\ Valid(m)
           /\ m.d = "bad"
           /\ m.key.sid = c.key.sid
           /\ m.key \in MessageKeys \cup DamagedKeys
           /\ m.key.mid = NoMid => m.key = c.key
<1> DEFINE As(key, i, n) == [key |-> key, i |-> i, n |-> n, d |-> "bad", intact |-> c.intact]
<1>1. /\ Valid(m)
      /\ \/ \E i \in 0..c.n : m = As(c.key, i, c.n)
         \/ \E n \in {c.n - 1, c.n + 1} : m = As(c.key, c.i, n)
         \/ \E mid \in {c.key.mid - 1, c.key.mid + 1} \ {0} :
               c.key.mid # NoMid /\ m = As(MakeKey(c.key.sid, mid), c.i, c.n)
  BY DEF Misread
<1>2. CASE \E i \in 0..c.n : m = As(c.key, i, c.n)
  BY <1>1, <1>2 DEF ChunkFrames
<1>3. CASE \E n \in {c.n - 1, c.n + 1} : m = As(c.key, c.i, n)
  BY <1>1, <1>3 DEF ChunkFrames, Valid
<1>4. ASSUME NEW other \in {c.key.mid - 1, c.key.mid + 1} \ {0}, c.key.mid # NoMid,
             m = As(MakeKey(c.key.sid, other), c.i, c.n)
      PROVE  /\ m \in ChunkFrames /\ m.d = "bad" /\ m.key.sid = c.key.sid
             /\ m.key \in MessageKeys \cup DamagedKeys /\ m.key.mid # NoMid
  <2>1. PICK s \in Sids, mid \in {NoMid} \cup 1..MaxSequence : c.key = [sid |-> s, mid |-> mid]
    BY DEF MessageKeys
  <2>2. mid \in 1..MaxSequence /\ m.key = [sid |-> s, mid |-> other]
    BY <1>4, <2>1 DEF MakeKey
  <2>3. other \in 1..(MaxSequence + 1) /\ MaxSequence \in Nat
    BY <1>4, <2>1, <2>2, SatelliteAssumption
  <2>4. m.key \in MessageKeys \cup DamagedKeys
    BY <2>2, <2>3 DEF MessageKeys, DamagedKeys
  <2>5. m.key.mid = other /\ other # NoMid /\ other \in Nat
    BY <2>2, <2>3, SatelliteAssumption
  <2> QED
    BY <1>1, <1>4, <2>1, <2>2, <2>3, <2>4, <2>5 DEF ChunkFrames, Sids
<1> QED
  BY <1>1, <1>2, <1>3, <1>4

LEMMA DamagedIsThinned ==
    ASSUME TypeOK, LoseChunk \/ CorruptChunk
    PROVE  UpTypeOK' /\ Thinned
<1>1. CASE LoseChunk
  <2>1. up # <<>> /\ up' = SubSeq(up, 2, Len(up)) /\ Len(up) \in Nat \ {0}
    BY <1>1, TailIsSubSeq, EmptySeq DEF LoseChunk, TypeOK, LinkTypeOK
  <2>2. UpTaken
    BY <2>1 DEF UpTaken
  <2> QED
    BY <2>2, TakenIsThinned
<1>2. CASE CorruptChunk
  <2>1. /\ up # <<>> /\ Len(up) \in Nat \ {0} /\ Head(up) = up[1] /\ up[1] \in ChunkFrames
        /\ up[1].d = "good" /\ up[1].key \in MessageKeys
    BY <1>2, EmptySeq, ElementOfSeq DEF CorruptChunk, TypeOK, LinkTypeOK, ChunksOK
  <2>2. \E c \in ChunkFrames :
           /\ up' = [up EXCEPT ![1] = c]
           /\ Valid(c) /\ c.key \in MessageKeys \cup DamagedKeys /\ c.key.sid = up[1].key.sid
           /\ c.d = "good" => c.key = up[1].key /\ c.n = up[1].n
           /\ c.key.mid = NoMid => c.key = up[1].key
    <3>1. CASE up' = [up EXCEPT ![1] = [@ EXCEPT !.intact = FALSE]]
      <4> DEFINE c == [up[1] EXCEPT !.intact = FALSE]
      <4>1. /\ c \in ChunkFrames /\ up' = [up EXCEPT ![1] = c]
            /\ c.key = up[1].key /\ c.i = up[1].i /\ c.n = up[1].n
        BY <2>1, <3>1 DEF ChunkFrames
      <4>2. Valid(c)
        BY <2>1, <4>1 DEF TypeOK, ChunksOK, Valid
      <4> HIDE DEF c
      <4> QED
        BY <2>1, <4>1, <4>2
    <3>2. CASE up' = [up EXCEPT ![1] = [@ EXCEPT !.d = "bad"]]
      <4> DEFINE c == [up[1] EXCEPT !.d = "bad"]
      <4>1. /\ c \in ChunkFrames /\ up' = [up EXCEPT ![1] = c]
            /\ c.key = up[1].key /\ c.i = up[1].i /\ c.n = up[1].n
        BY <2>1, <3>2 DEF ChunkFrames
      <4>2. Valid(c)
        BY <2>1, <4>1 DEF TypeOK, ChunksOK, Valid
      <4> HIDE DEF c
      <4> QED
        BY <2>1, <4>1, <4>2
    <3>3. CASE \E c \in Misread(Head(up)) : up' = [up EXCEPT ![1] = c]
      <4>1. PICK c \in Misread(up[1]) : up' = [up EXCEPT ![1] = c]
        BY <2>1, <3>3
      <4>2. /\ c \in ChunkFrames /\ Valid(c) /\ c.d = "bad" /\ c.key.sid = up[1].key.sid
            /\ c.key \in MessageKeys \cup DamagedKeys
            /\ c.key.mid = NoMid => c.key = up[1].key
        BY <2>1, MisreadIsValid
      <4> QED
        BY <4>1, <4>2
    <3> QED
      BY <1>2, <3>1, <3>2, <3>3 DEF CorruptChunk
  <2>3. PICK c \in ChunkFrames :
           /\ up' = [up EXCEPT ![1] = c]
           /\ Valid(c) /\ c.key \in MessageKeys \cup DamagedKeys /\ c.key.sid = up[1].key.sid
           /\ c.d = "good" => c.key = up[1].key /\ c.n = up[1].n
           /\ c.key.mid = NoMid => c.key = up[1].key
    BY <2>2
  <2>4. /\ up' \in Seq(ChunkFrames) /\ Len(up') = Len(up)
        /\ \A k \in 1..Len(up) : up'[k] = IF k = 1 THEN c ELSE up[k]
    BY <2>1, <2>3, ExceptSeq DEF TypeOK, LinkTypeOK
  <2>5. Thinned
    <3>1. 0 \in Nat /\ \A k \in 1..Len(up') : k + 0 = k /\ k \in 1..Len(up)
      BY <2>4
    <3> QED
      BY <2>1, <2>3, <2>4, <3>1 DEF Thinned, Good
  <2>6. ChunksOK'
    BY <2>1, <2>3, <2>4 DEF TypeOK, ChunksOK, Valid, ChunkCount, MessageKeys, DamagedKeys, Sids
  <2> QED
    BY <2>4, <2>5, <2>6 DEF TypeOK, LinkTypeOK, UpTypeOK
<1> QED
  BY <1>1, <1>2

-----------------------------------------------------------------------------
\* Chunks that are taken or misread keep the order of those that are left.
LEMMA ThinnedInOrder ==
    ASSUME WireInv, Thinned, UNCHANGED satVars, opened \subseteq opened'
    PROVE  WireInOrder' /\ WireNotAhead' /\ TelemetryIsAgreed'
<1>1. PICK n \in Nat :
         \A k \in 1..Len(up') :
            /\ k + n \in 1..Len(up)
            /\ up'[k].key.sid = up[k + n].key.sid
            /\ Good(k)' => Good(k + n) /\ up'[k].key = up[k + n].key
  BY DEF Thinned
<1>2. \A k \in 1..Len(up') : Good(k)' => RankAt(k)' = RankAt(k + n)
  BY <1>1 DEF RankAt, Rank
<1>3. WireInOrder'
  <2> SUFFICES ASSUME NEW j \in 1..Len(up'), NEW k \in 1..Len(up'), j < k, Good(j)', Good(k)'
               PROVE  \/ up'[j].key.sid < up'[k].key.sid
                      \/ up'[j].key.sid = up'[k].key.sid /\ RankAt(j)' <= RankAt(k)'
    BY DEF WireInOrder
  <2>1. j + n \in 1..Len(up) /\ k + n \in 1..Len(up) /\ j + n < k + n
    BY <1>1
  <2> QED
    BY <1>1, <1>2, <2>1 DEF WireInv, WireInOrder
<1>4. WireNotAhead'
  BY <1>1, <1>2 DEF WireInv, NothingAhead, WireNotAhead, SoFar, Active, Current, satVars
<1>5. TelemetryIsAgreed'
  BY <1>1 DEF WireInv, TelemetryIsAgreed, satVars
<1> QED
  BY <1>3, <1>4, <1>5

\* Whatever the ground and the radio do without logging anything, a session opened before
\* its first message included, keeps what is under way, the log and the windows in order.
LEMMA ThinnedKeeps ==
    ASSUME TypeOK, WireInv, Thinned, UNCHANGED satVars, UNCHANGED log, opened \subseteq opened',
           \A s \in DOMAIN sessions' :
              \/ s \in DOMAIN sessions /\ replay_windows'[s] = replay_windows[s]
              \/ /\ replay_windows'[s] = NewWindow /\ s <= sid
                 /\ \A j \in 1..Len(log) : log[j][1] # s
    PROVE  WireInv'
<1>1. WireInOrder' /\ WireNotAhead' /\ TelemetryIsAgreed'
  BY ThinnedInOrder
<1>2. PICK n \in Nat :
         \A k \in 1..Len(up') :
            /\ k + n \in 1..Len(up)
            /\ up'[k].key.sid = up[k + n].key.sid
            /\ Good(k)' => Good(k + n) /\ up'[k].key = up[k + n].key
  BY DEF Thinned
<1>3. \A k \in 1..Len(up') : Good(k)' => RankAt(k)' = RankAt(k + n) /\ RankAt(k)' \in Nat
  BY <1>2, SatelliteAssumption
     DEF RankAt, Rank, TypeOK, ChunksOK, Good, MessageKeys, Sids
<1>4. \A s, r : SoFar(s, r)' <=> SoFar(s, r)
  BY DEF SoFar, Active, Current, satVars
<1>5. NewWindow.max_seq = -1
  BY DEF NewWindow
<1>6. NothingAhead'
  <2>1. (\A k \in 1..Len(log) : SoFar(log[k][1], log[k][2]))'
    BY <1>4 DEF WireInv, NothingAhead
  <2>2. ASSUME NEW s \in DOMAIN sessions'
        PROVE  SoFar(s, replay_windows[s].max_seq)'
    <3>1. CASE s \in DOMAIN sessions /\ replay_windows'[s] = replay_windows[s]
      <4>1. SoFar(s, replay_windows[s].max_seq)
        BY <3>1 DEF WireInv, NothingAhead
      <4> QED
        BY <3>1, <4>1 DEF SoFar, Active, Current, satVars
    <3>2. CASE replay_windows'[s] = NewWindow /\ s <= sid
      <4>1. sequence \in Nat /\ Current \in Nat
        BY SatelliteAssumption DEF TypeOK, SatTypeOK, Current
      <4>2. s <= sid /\ -1 <= Current
        BY <3>2, <4>1
      <4> QED
        BY <1>5, <3>2, <4>2 DEF SoFar, Active, Current, satVars
    <3> QED
      BY <3>1, <3>2
  <2> QED
    BY <1>1, <2>1, <2>2 DEF NothingAhead
<1>7. ArrivalsAreNew'
  <2> SUFFICES ASSUME NEW k \in 1..Len(up'), Good(k)'
               PROVE  /\ \A j \in 1..Len(log') :
                            log'[j][1] = up'[k].key.sid => log'[j][2] <= RankAt(k)'
                      /\ up'[k].key.sid \in DOMAIN sessions' =>
                            replay_windows'[up'[k].key.sid].max_seq <= RankAt(k)'
    BY DEF ArrivalsAreNew
  <2> DEFINE s == up'[k].key.sid
  <2>1. /\ k + n \in 1..Len(up) /\ Good(k + n) /\ s = up[k + n].key.sid
        /\ RankAt(k)' = RankAt(k + n) /\ RankAt(k)' \in Nat
    BY <1>2, <1>3
  <2>2. \A j \in 1..Len(log') : log'[j][1] = s => log'[j][2] <= RankAt(k)'
    BY <2>1 DEF WireInv, ArrivalsAreNew
  <2>3. s \in DOMAIN sessions => replay_windows[s].max_seq <= RankAt(k)'
    BY <2>1 DEF WireInv, ArrivalsAreNew
  <2> HIDE DEF s
  <2>4. s \in DOMAIN sessions' => replay_windows'[s].max_seq <= RankAt(k)'
    BY <1>5, <2>1, <2>3
  <2> QED
    BY <2>2, <2>4 DEF s
<1>8. WindowsRemember'
  BY <1>5 DEF WireInv, WindowsRemember
<1> QED
  BY <1>1, <1>6, <1>7, <1>8 DEF WireInv

-----------------------------------------------------------------------------
\* What the satellite sends goes behind what is under way, and is its message in hand.
LEMMA SentIsInHand ==
    ASSUME SatInv, TypeOK, SatProgram
    PROVE  /\ sid' \in Sids
           /\ up' \in Seq(ChunkFrames) /\ Len(up') \in Len(up)..MaxUp
           /\ \A k \in 1..Len(up') :
                 \/ k \in 1..Len(up) /\ up'[k] = up[k]
                 \/ /\ k > Len(up)
                    /\ up'[k] \in ChunkFrames /\ up'[k].d = "good" /\ Valid(up'[k])
                    /\ up'[k].key = MakeKey(sid', MidInHand) /\ up'[k].key \in MessageKeys
                    /\ up'[k].n = ChunkCount(MidInHand)
<1>1. Move /\ Sends /\ SatInv'
  BY SatSteps, SatInvKept
<1>2. sid' \in Sids /\ MidInHand \in {NoMid} \cup 1..MaxSequence
  BY <1>1, SatelliteAssumption
     DEF Move, Begins, Listens, Agrees, Waits, Concludes, SatInv, SatTypeOK, Phases, Sids, MidInHand
<1>3. CountInHand = ChunkCount(MidInHand) /\ CountInHand \in Nat \ {0}
  BY SatelliteAssumption DEF SatInv, SatTypeOK, CountInHand, MidInHand, ChunkCount
<1>4. ASSUME NEW c \in ChunksOf(sid', MidInHand, CountInHand)
      PROVE  /\ c \in ChunkFrames /\ c.d = "good" /\ Valid(c)
             /\ c.key = MakeKey(sid', MidInHand) /\ c.key \in MessageKeys
             /\ c.n = ChunkCount(MidInHand)
  <2>1. PICK k \in 1..CountInHand :
           c = [key |-> MakeKey(sid', MidInHand), i |-> k - 1, n |-> CountInHand,
                d |-> "good", intact |-> TRUE]
    BY DEF ChunksOf
  <2>2. MakeKey(sid', MidInHand) \in MessageKeys
    BY <1>2 DEF MakeKey, MessageKeys
  <2> QED
    BY <1>2, <1>3, <2>1, <2>2 DEF ChunkFrames, Valid, MakeKey, Sids
<1>5. CASE UNCHANGED up
  BY <1>2, <1>5, LenProperties DEF TypeOK, LinkTypeOK
<1>6. CASE \E frames \in Seq(ChunksOf(sid', MidInHand, CountInHand)) : up' = Push(up, frames, MaxUp)
  <2>1. PICK frames \in Seq(ChunksOf(sid', MidInHand, CountInHand)) : up' = Push(up, frames, MaxUp)
    BY <1>6
  <2>2. frames \in Seq(ChunkFrames) /\ Len(frames) \in Nat
        /\ \A k \in 1..Len(frames) : frames[k] \in ChunksOf(sid', MidInHand, CountInHand)
    BY <1>4, ElementOfSeq, LenProperties
  <2>3. /\ up' \in Seq(ChunkFrames) /\ Len(up') \in Len(up)..MaxUp
        /\ Len(up') <= Len(up) + Len(frames)
        /\ \A k \in 1..Len(up') :
              up'[k] = IF k <= Len(up) THEN up[k] ELSE frames[k - Len(up)]
    BY <2>1, <2>2, Pushed, LinkAssumption DEF TypeOK, LinkTypeOK
  <2>4. Len(up) \in Nat
    BY LenProperties DEF TypeOK, LinkTypeOK
  <2>5. ASSUME NEW k \in 1..Len(up')
        PROVE  \/ k \in 1..Len(up) /\ up'[k] = up[k]
               \/ k > Len(up) /\ up'[k] \in ChunksOf(sid', MidInHand, CountInHand)
    BY <2>2, <2>3, <2>4
  <2> QED
    BY <1>2, <1>4, <2>3, <2>5
<1> QED
  BY <1>1, <1>5, <1>6 DEF Sends

\* The satellite goes forward only.
LEMMA SoFarForward ==
    ASSUME SatInv, Move, NEW s \in Nat, NEW r \in Int, SoFar(s, r)
    PROVE  SoFar(s, r)'
  BY DEF SatInv, SatTypeOK, Move, Begins, Listens, Agrees, Waits, Concludes, SoFar, Active, Current

\* What it sends is the furthest it has come.
LEMMA InHandIsFurthest ==
    ASSUME SatInv, Move
    PROVE  /\ Rank(MidInHand) \in Nat
           /\ \A r \in Nat : r = Rank(MidInHand) => SoFar(sid, r)'
           /\ \A s \in Nat, r \in Int :
                 SoFar(s, r) => s < sid' \/ (s = sid' /\ r <= Rank(MidInHand))
<1>1. sequence \in Nat \ {0} /\ sequence # NoMid
  BY SatelliteAssumption DEF SatInv, SatTypeOK
<1>2. Rank(MidInHand) = IF phase \in {"tc_send", "tc_wait"} THEN sequence ELSE 0
  BY <1>1 DEF MidInHand, Rank
<1> QED
  BY <1>1, <1>2 DEF SatInv, SatTypeOK, Move, Begins, Listens, Agrees, Waits, Concludes, SoFar,
                    Active, Current

\* A step of the satellite keeps the order too.
LEMMA SatelliteKeeps ==
    ASSUME SatInv, TypeOK, WireInv, AcksAreEarned, SatProgram, UNCHANGED groundVars
    PROVE  WireInv' /\ UpTypeOK'
<1>1. Move
  BY SatSteps
<1> DEFINE Old(k) == k \in 1..Len(up) /\ up'[k] = up[k]
           New(k) == /\ k > Len(up)
                     /\ up'[k] \in ChunkFrames /\ up'[k].d = "good" /\ Valid(up'[k])
                     /\ up'[k].key = MakeKey(sid', MidInHand) /\ up'[k].key \in MessageKeys
                     /\ up'[k].n = ChunkCount(MidInHand)
<1>2. /\ sid' \in Sids
      /\ up' \in Seq(ChunkFrames) /\ Len(up') <= MaxUp /\ Len(up) \in Nat
      /\ \A k \in 1..Len(up') : Old(k) \/ New(k)
  BY SentIsInHand, LenProperties DEF TypeOK, LinkTypeOK
<1>3. \A k \in 1..Len(up) : up[k].key.sid \in Nat /\ (Good(k) => RankAt(k) \in Nat)
  BY SatelliteAssumption
     DEF TypeOK, ChunksOK, MessageKeys, DamagedKeys, Sids, Good, RankAt, Rank
<1>4. UNCHANGED <<sessions, replay_windows, log, opened>>
  BY DEF groundVars
<1>5. \A k \in 1..Len(log) : log[k][1] \in Nat /\ log[k][2] \in Nat
  BY ElementOfSeq DEF TypeOK, SessionsOK, Sids
<1>6. \A s \in DOMAIN sessions : s \in Nat /\ replay_windows[s].max_seq \in Int
  BY DEF TypeOK, SessionsOK, Sids, Windows
<1>7. ASSUME NEW k \in 1..Len(up')
      PROVE  \/ /\ k \in 1..Len(up) /\ up'[k] = up[k]
                /\ Good(k)' <=> Good(k)
                /\ RankAt(k)' = RankAt(k)
             \/ /\ k > Len(up) /\ Good(k)'
                /\ RankAt(k)' = Rank(MidInHand) /\ up'[k].key.sid = sid'
  <2>1. CASE Old(k)
    BY <2>1 DEF Good, RankAt
  <2>2. CASE New(k)
    BY <2>2 DEF Good, RankAt, MakeKey
  <2> QED
    BY <1>2, <2>1, <2>2
<1>8. /\ Rank(MidInHand) \in Nat
      /\ \A r \in Nat : r = Rank(MidInHand) => SoFar(sid, r)'
      /\ \A s \in Nat, r \in Int :
            SoFar(s, r) => s < sid' \/ (s = sid' /\ r <= Rank(MidInHand))
  BY <1>1, InHandIsFurthest
<1>9. \A s \in Nat, r \in Int : SoFar(s, r) => SoFar(s, r)'
  BY <1>1, SoFarForward
<1>10. sid \in Nat /\ sid' \in Nat /\ sid <= sid' /\ (sid' # sid => phase = "boot")
  BY <1>1, <1>2 DEF Move, Begins, Listens, Agrees, Waits, Concludes, SatInv, SatTypeOK, Sids
<1>11. WireInOrder'
  <2> SUFFICES ASSUME NEW j \in 1..Len(up'), NEW k \in 1..Len(up'), j < k, Good(j)', Good(k)'
               PROVE  \/ up'[j].key.sid < up'[k].key.sid
                      \/ up'[j].key.sid = up'[k].key.sid /\ RankAt(j)' <= RankAt(k)'
    BY DEF WireInOrder
  <2>1. CASE k \in 1..Len(up)
    BY <1>2, <1>7, <2>1 DEF WireInv, WireInOrder
  <2>2. CASE k > Len(up)
    <3>1. up'[k].key.sid = sid' /\ RankAt(k)' = Rank(MidInHand)
      BY <1>2, <1>7, <2>2
    <3>2. CASE j \in 1..Len(up)
      <4>1. up'[j] = up[j] /\ RankAt(j)' = RankAt(j) /\ Good(j)
        BY <1>2, <1>7, <3>2
      <4>2. SoFar(up[j].key.sid, RankAt(j)) /\ up[j].key.sid \in Nat /\ RankAt(j) \in Nat
        BY <1>3, <3>2, <4>1 DEF WireInv, NothingAhead, WireNotAhead
      <4> QED
        BY <1>8, <3>1, <4>1, <4>2
    <3>3. CASE j > Len(up)
      BY <1>2, <1>7, <1>8, <3>1, <3>3
    <3> QED
      BY <1>2, <3>2, <3>3
  <2> QED
    BY <1>2, <2>1, <2>2
<1>12. NothingAhead'
  <2>1. ASSUME NEW k \in 1..Len(up')
        PROVE  (up[k].key.sid <= sid /\ (Good(k) => SoFar(up[k].key.sid, RankAt(k))))'
    <3>1. CASE k \in 1..Len(up)
      <4>1. up'[k] = up[k] /\ (Good(k)' <=> Good(k)) /\ RankAt(k)' = RankAt(k)
        BY <1>2, <1>7, <3>1
      <4>2. /\ up[k].key.sid \in Nat /\ up[k].key.sid <= sid
            /\ Good(k) => RankAt(k) \in Nat /\ SoFar(up[k].key.sid, RankAt(k))
        BY <1>3, <3>1 DEF WireInv, NothingAhead, WireNotAhead
      <4> QED
        BY <1>9, <1>10, <4>1, <4>2 DEF SoFar
    <3>2. CASE k > Len(up)
      <4>1. up'[k].key.sid = sid' /\ RankAt(k)' = Rank(MidInHand)
        BY <1>2, <1>7, <3>2
      <4> QED
        BY <1>8, <1>10, <4>1 DEF SoFar
    <3> QED
      BY <1>2, <3>1, <3>2
  <2>2. (\A k \in 1..Len(log) : SoFar(log[k][1], log[k][2]))'
    <3> SUFFICES ASSUME NEW k \in 1..Len(log)
                 PROVE  SoFar(log[k][1], log[k][2])'
      BY <1>4
    <3>1. SoFar(log[k][1], log[k][2])
      BY DEF WireInv, NothingAhead
    <3> QED
      BY <1>4, <1>5, <1>9, <3>1 DEF SoFar
  <2>3. (\A s \in DOMAIN sessions : SoFar(s, replay_windows[s].max_seq))'
    <3> SUFFICES ASSUME NEW s \in DOMAIN sessions
                 PROVE  SoFar(s, replay_windows[s].max_seq)'
      BY <1>4
    <3>1. SoFar(s, replay_windows[s].max_seq)
      BY DEF WireInv, NothingAhead
    <3> QED
      BY <1>4, <1>6, <1>9, <3>1 DEF SoFar
  <2> QED
    BY <2>1, <2>2, <2>3 DEF NothingAhead, WireNotAhead
<1>13. ArrivalsAreNew'
  <2> SUFFICES ASSUME NEW k \in 1..Len(up'), Good(k)'
               PROVE  /\ \A j \in 1..Len(log) :
                            log[j][1] = up'[k].key.sid => log[j][2] <= RankAt(k)'
                      /\ up'[k].key.sid \in DOMAIN sessions =>
                            replay_windows[up'[k].key.sid].max_seq <= RankAt(k)'
    BY <1>4 DEF ArrivalsAreNew
  <2>1. CASE k \in 1..Len(up)
    BY <1>2, <1>7, <2>1 DEF WireInv, ArrivalsAreNew
  <2>2. CASE k > Len(up)
    <3>1. up'[k].key.sid = sid' /\ RankAt(k)' = Rank(MidInHand)
      BY <1>2, <1>7, <2>2
    <3>2. \A j \in 1..Len(log) : SoFar(log[j][1], log[j][2])
      BY DEF WireInv, NothingAhead
    <3>3. \A s \in DOMAIN sessions : SoFar(s, replay_windows[s].max_seq)
      BY DEF WireInv, NothingAhead
    <3>4. \A j \in 1..Len(log) : log[j][1] = sid' => log[j][2] <= Rank(MidInHand)
      BY <1>5, <1>8, <1>10, <3>2
    <3>5. sid' \in DOMAIN sessions => replay_windows[sid'].max_seq <= Rank(MidInHand)
      BY <1>6, <1>8, <1>10, <3>3
    <3> QED
      BY <3>1, <3>4, <3>5
  <2> QED
    BY <1>2, <2>1, <2>2
<1>14. WindowsRemember'
  BY <1>4 DEF WireInv, WindowsRemember
<1>15. TelemetryIsAgreed'
  <2>1. phase' \in {"tc_send", "tc_wait"} => sid' \in opened
    <3>1. CASE Agrees
      <4>1. down # <<>> /\ Len(down) \in Nat \ {0} /\ Control = down[1]
        BY <3>1, EmptySeq, LenProperties DEF Agrees, TypeOK, LinkTypeOK, Control
      <4>2. 1 \in 1..Len(down) /\ down[1].t = "ack" /\ down[1].mid = NoMid /\ down[1].sid = sid
        BY <3>1, <4>1 DEF Agrees
      <4> QED
        BY <3>1, <4>2 DEF AcksAreEarned, Agrees
    <3>2. CASE Begins \/ Listens
      BY <3>2 DEF Begins, Listens
    <3>3. CASE Waits \/ \E outcome \in {"ok", "fail"} : Concludes(outcome)
      BY <3>3 DEF Waits, Concludes, WireInv, TelemetryIsAgreed
    <3> QED
      BY <1>1, <3>1, <3>2, <3>3 DEF Move
  <2>2. ASSUME NEW k \in 1..Len(up'), Good(k)', up'[k].key.mid # NoMid
        PROVE  up'[k].key.sid \in opened
    <3>1. CASE Old(k)
      BY <2>2, <3>1 DEF WireInv, TelemetryIsAgreed, Good
    <3>2. CASE New(k)
      <4>1. MidInHand # NoMid /\ up'[k].key.sid = sid'
        BY <2>2, <3>2 DEF MakeKey
      <4>2. phase \in {"tc_send", "tc_wait"} /\ sid' = sid
        BY <1>10, <4>1 DEF MidInHand
      <4> QED
        BY <4>1, <4>2 DEF WireInv, TelemetryIsAgreed
    <3> QED
      BY <1>2, <3>1, <3>2
  <2> QED
    BY <1>4, <2>1, <2>2 DEF TelemetryIsAgreed
<1>16. ChunksOK'
  <2> SUFFICES ASSUME NEW k \in 1..Len(up')
               PROVE  (/\ up[k].key \in MessageKeys \cup DamagedKeys
                       /\ Valid(up[k])
                       /\ up[k].d = "good" => /\ up[k].key \in MessageKeys
                                             /\ up[k].n = ChunkCount(up[k].key.mid))'
    BY DEF ChunksOK
  <2>1. CASE Old(k)
    BY <2>1 DEF TypeOK, ChunksOK, Valid, ChunkCount, MessageKeys, DamagedKeys, Sids
  <2>2. CASE New(k)
    <3>1. up'[k].key.mid = MidInHand
      BY <2>2 DEF MakeKey
    <3>2. up'[k].n = ChunkCount(up'[k].key.mid)
      BY <2>2, <3>1
    <3> QED
      BY <2>2, <3>2 DEF Valid, ChunkCount, MessageKeys, DamagedKeys, Sids
  <2> QED
    BY <1>2, <2>1, <2>2
<1> QED
  BY <1>2, <1>11, <1>12, <1>13, <1>14, <1>15, <1>16 DEF WireInv, UpTypeOK

-----------------------------------------------------------------------------
\* The control packets that may be under way, as the ground's memory has it.
Earned(c) == c.t = "ack" =>
                IF c.mid = NoMid THEN c.sid \in opened
                ELSE \E j \in 1..Len(log) : log[j] = <<c.sid, c.mid>>
EarnedControls == {c \in ControlFrames :
                     MakeKey(c.sid, c.mid) \in MessageKeys \cup DamagedKeys /\ Earned(c)}

\* What was opened and logged stays so.
MemoryGrows == /\ opened \subseteq opened'
               /\ \A j \in 1..Len(log) : j \in 1..Len(log') /\ log'[j] = log[j]

LEMMA ControlsAreEarned ==
    DownTypeOK /\ AcksAreEarned <=> down \in Seq(EarnedControls) /\ Len(down) <= MaxDown
<1>1. ASSUME down \in Seq(ControlFrames), ControlsOK, AcksAreEarned
      PROVE  down \in Seq(EarnedControls)
  <2>1. Len(down) \in Nat /\ down \in [1..Len(down) -> ControlFrames]
    BY <1>1, LenProperties
  <2>2. \A k \in 1..Len(down) : down[k] \in EarnedControls
    BY <1>1, <2>1 DEF ControlsOK, AcksAreEarned, EarnedControls, Earned
  <2> QED
    BY <2>1, <2>2
<1>2. ASSUME down \in Seq(EarnedControls)
      PROVE  down \in Seq(ControlFrames) /\ ControlsOK /\ AcksAreEarned
  <2>1. Len(down) \in Nat /\ down \in [1..Len(down) -> EarnedControls]
    BY <1>2, LenProperties
  <2>2. \A k \in 1..Len(down) : down[k] \in EarnedControls
    BY <2>1
  <2>3. down \in [1..Len(down) -> ControlFrames]
    BY <2>1, <2>2 DEF EarnedControls
  <2>4. down \in Seq(ControlFrames)
    BY <2>1, <2>3
  <2> QED
    BY <2>2, <2>4 DEF ControlsOK, AcksAreEarned, EarnedControls, Earned
<1> QED
  BY <1>1, <1>2 DEF DownTypeOK

LEMMA EarnedStaysEarned ==
    ASSUME MemoryGrows, NEW c, Earned(c)
    PROVE  Earned(c)'
  BY DEF MemoryGrows, Earned

LEMMA QueueDownKept ==
    ASSUME DownTypeOK, AcksAreEarned, MemoryGrows, Reads \/ Answers(EarnedControls')
    PROVE  DownTypeOK' /\ AcksAreEarned'
<1> DEFINE C == EarnedControls'
<1>1. EarnedControls \subseteq C
  BY EarnedStaysEarned DEF EarnedControls, MessageKeys, DamagedKeys, Sids
<1>2. down \in Seq(EarnedControls) /\ Len(down) <= MaxDown
  BY ControlsAreEarned
<1>3. down \in Seq(C) /\ Len(down) \in Nat
  BY <1>1, <1>2, LenProperties
<1> HIDE DEF C
<1>4. down' \in Seq(C) /\ Len(down') <= MaxDown
  <2>1. CASE UNCHANGED down
    BY <1>2, <1>3, <2>1
  <2>2. CASE \E n \in 1..Len(down) : down' = SubSeq(down, n + 1, Len(down))
    BY <1>2, <1>3, <2>2, Taken, LinkAssumption
  <2>3. CASE Answers(C)
    <3>1. PICK controls \in Seq(C) : down' = Push(down, controls, MaxDown)
      BY <2>3 DEF Answers
    <3> QED
      BY <1>2, <1>3, <3>1, Pushed, LinkAssumption
  <2> QED
    BY <2>1, <2>2, <2>3 DEF Reads, C
<1>5. (down \in Seq(EarnedControls) /\ Len(down) <= MaxDown)'
  BY <1>4 DEF C
<1>6. (DownTypeOK /\ AcksAreEarned)'
  BY <1>5, ControlsAreEarned, PTL
<1> QED
  BY <1>6

-----------------------------------------------------------------------------
\* The frame the ground takes next.
LEMMA FrameIsFirst ==
    ASSUME TypeOK, up # <<>>
    PROVE  /\ Frame = up[1] /\ 1 \in 1..Len(up) /\ Frame \in ChunkFrames /\ Valid(Frame)
           /\ Frame.key \in MessageKeys \cup DamagedKeys
           /\ Sid \in Sids /\ Frame.key = [sid |-> Sid, mid |-> Mid]
           /\ Frame.d = "good" => Frame.key \in MessageKeys /\ Frame.n = ChunkCount(Mid)
<1>1. Len(up) \in Nat \ {0} /\ Frame = up[1]
  BY EmptySeq, LenProperties DEF TypeOK, LinkTypeOK, Frame
<1>2. /\ 1 \in 1..Len(up) /\ Frame \in ChunkFrames /\ Valid(Frame)
      /\ Frame.key \in MessageKeys \cup DamagedKeys
      /\ Frame.d = "good" => Frame.key \in MessageKeys /\ Frame.n = ChunkCount(Mid)
  BY <1>1, ElementOfSeq DEF TypeOK, LinkTypeOK, ChunksOK, Mid
<1> QED
  BY <1>1, <1>2 DEF MessageKeys, DamagedKeys, Sid, Mid

\* However a handler answers, what leaves is among its answers.
LEMMA AnswersToMessage ==
    ASSUME TypeOK, up # <<>>, NEW C, NEW sent, sent \subseteq Seq(C),
           NEW control \in C, NackChunks({0}) \in C,
           Reply(control) \/ ExceptNack(sent)
    PROVE  UpTaken /\ Answers(C)
<1> USE DEF Answers
<1>1. NextFrame \/ DropRead => UpTaken
  <2>1. up' = Tail(up) => up' = SubSeq(up, 2, Len(up)) /\ 1 \in 1..Len(up)
    BY FrameIsFirst, TailIsSubSeq DEF TypeOK, LinkTypeOK
  <2> QED
    BY <2>1 DEF NextFrame, DropRead, UpTaken
<1>2. ASSUME NEW tried, tried \subseteq Seq(C), ExceptNack(tried)
      PROVE  UpTaken /\ Answers(C)
  <2>1. \A s \in tried : Append(s, NackChunks({0})) \in Seq(C)
    BY <1>2, AppendProperties
  <2> QED
    BY <1>1, <1>2, <2>1 DEF ExceptNack, AnswerOneOf, AnswerRaises
<1>3. <<control>> \in Seq(C) /\ <<>> \in Seq(C)
  OBVIOUS
<1>4. CASE Reply(control)
  <2>1. CASE NextFrame /\ Answer(<<control>>)
    BY <1>1, <1>3, <2>1 DEF Answer
  <2>2. CASE ExceptNack({<<>>, <<control>>})
    <3>1. {<<>>, <<control>>} \subseteq Seq(C)
      BY <1>3
    <3> QED
      BY <1>2, <2>2, <3>1
  <2> QED
    BY <1>4, <2>1, <2>2 DEF Reply
<1> QED
  BY <1>2, <1>4

LEMMA PartsOfKey ==
    ASSUME NEW s, NEW mid, MakeKey(s, mid) \in MessageKeys \cup DamagedKeys
    PROVE  s \in Sids /\ mid \in {NoMid} \cup Nat
<1>1. PICK t \in Sids, m \in {NoMid} \cup Nat : MakeKey(s, mid) = MakeKey(t, m)
  <2>1. CASE MakeKey(s, mid) \in MessageKeys
    <3>1. PICK t \in Sids, m \in {NoMid} \cup 1..MaxSequence : MakeKey(s, mid) = MakeKey(t, m)
      BY <2>1 DEF MessageKeys, MakeKey
    <3>2. m \in {NoMid} \cup Nat
      OBVIOUS
    <3> QED
      BY <3>1, <3>2
  <2>2. CASE MakeKey(s, mid) \in DamagedKeys
    <3>1. MaxSequence + 1 \in Nat
      BY SatelliteAssumption
    <3> QED
      BY <2>2, <3>1 DEF DamagedKeys, MakeKey
  <2> QED
    BY <2>1, <2>2
<1>2. MakeKey(s, mid).sid = s /\ MakeKey(s, mid).mid = mid
      /\ MakeKey(t, m).sid = t /\ MakeKey(t, m).mid = m
  BY DEF MakeKey
<1> QED
  BY <1>1, <1>2, SatelliteAssumption

\* A NACK need not be earned.
LEMMA NackIsEarned ==
    ASSUME NEW s, NEW mid, MakeKey(s, mid) \in MessageKeys \cup DamagedKeys,
           NEW missing, missing \subseteq Nat
    PROVE  Nack(s, mid, missing) \in EarnedControls'
<1> DEFINE c == Nack(s, mid, missing)
<1>1. s \in Sids /\ mid \in {NoMid} \cup Nat
  BY PartsOfKey
<1>2. c \in ControlFrames /\ c.t = "nack" /\ c.sid = s /\ c.mid = mid
  <2>1. Trimmed(missing) \in SUBSET Nat
    BY DEF Trimmed
  <2>2. s \in Nat
    BY <1>1 DEF Sids
  <2> QED
    BY <1>1, <2>1, <2>2 DEF Nack, ControlFrames
<1>3. (MessageKeys \cup DamagedKeys)' = MessageKeys \cup DamagedKeys
  BY DEF MessageKeys, DamagedKeys, Sids
<1> HIDE DEF c
<1>4. Earned(c)'
  BY <1>2 DEF Earned
<1>5. c \in EarnedControls'
  BY <1>2, <1>3, <1>4 DEF EarnedControls
<1> QED
  BY <1>5 DEF c

LEMMA AckIsEarned ==
    ASSUME NEW s, NEW mid, MakeKey(s, mid) \in MessageKeys \cup DamagedKeys,
           IF mid = NoMid THEN s \in opened'
           ELSE \E j \in 1..Len(log') : log'[j] = <<s, mid>>
    PROVE  Ack(s, mid) \in EarnedControls'
<1> DEFINE c == Ack(s, mid)
<1>1. s \in Sids /\ mid \in {NoMid} \cup Nat
  BY PartsOfKey
<1>2. c \in ControlFrames /\ c.sid = s /\ c.mid = mid
  BY <1>1 DEF Ack, ControlFrames, Sids
<1>3. (MessageKeys \cup DamagedKeys)' = MessageKeys \cup DamagedKeys
  BY DEF MessageKeys, DamagedKeys, Sids
<1> HIDE DEF c
<1>4. Earned(c)'
  BY <1>2 DEF Earned
<1>5. c \in EarnedControls'
  BY <1>2, <1>3, <1>4 DEF EarnedControls
<1> QED
  BY <1>5 DEF c

-----------------------------------------------------------------------------
\* Of the buffers old, those that new still has are as they were but for their age.
Held(old, new) ==
    /\ DOMAIN new \subseteq DOMAIN old
    /\ \A key \in DOMAIN new : new[key].total = old[key].total /\ new[key].parts = old[key].parts

LEMMA HeldBuffers ==
    ASSUME NEW bufs, NEW key
    PROVE  /\ Held(bufs, Flushed(bufs)) /\ Held(bufs, Without(Flushed(bufs), key))
           /\ Held(bufs, Aged(bufs)) /\ Held(bufs, [k \in {} |-> k])
           /\ \A k \in DOMAIN Flushed(bufs) : Flushed(bufs)[k] = bufs[k]
<1>1. /\ DOMAIN Flushed(bufs) \subseteq DOMAIN bufs
      /\ \A k \in DOMAIN Flushed(bufs) : Flushed(bufs)[k] = bufs[k]
  BY DEF Flushed, Restrict
<1>2. /\ DOMAIN Without(Flushed(bufs), key) \subseteq DOMAIN Flushed(bufs)
      /\ \A k \in DOMAIN Without(Flushed(bufs), key) :
            Without(Flushed(bufs), key)[k] = Flushed(bufs)[k]
  BY DEF Without, Restrict
<1>3. Held(bufs, Aged(bufs))
  BY DEF Held, Aged
<1> QED
  BY <1>1, <1>2, <1>3 DEF Held

\* What add_chunk() leaves: the buffers that were there, or the chunk's own with one more part.
LEMMA AddedBuffers ==
    ASSUME NEW bufs, NEW c
    PROVE  \/ Held(bufs, Added(bufs, c))
           \/ /\ Verdict(bufs, c) \in {"duplicate", "complete", "stored"}
              /\ DOMAIN Added(bufs, c) = DOMAIN Flushed(bufs) \cup {c.key}
              /\ Added(bufs, c)[c.key] = WithPart(Target(bufs, c), c)
              /\ \A key \in DOMAIN Flushed(bufs) \ {c.key} : Added(bufs, c)[key] = bufs[key]
<1>1. CASE Verdict(bufs, c) = "crc_fail"
  BY <1>1, HeldBuffers DEF Added
<1>2. CASE Verdict(bufs, c) \in {"mismatch", "conflict"}
  BY <1>2, HeldBuffers DEF Added
<1>3. CASE Verdict(bufs, c) \in {"duplicate", "complete", "stored"}
  BY <1>3 DEF Added
<1> QED
  BY <1>1, <1>2, <1>3 DEF Verdict

\* The buffer a chunk goes to is one that was there, or a new one with room.
LEMMA TargetBuffer ==
    ASSUME NEW bufs, NEW c
    PROVE  \/ c.key \in DOMAIN bufs /\ Target(bufs, c) = bufs[c.key]
           \/ /\ Target(bufs, c).total = c.n /\ DOMAIN Target(bufs, c).parts = {}
              /\ c.n \in Nat \ {0} => ~IsComplete(Target(bufs, c))
<1>1. CASE c.key \in DOMAIN Flushed(bufs)
  BY <1>1, HeldBuffers DEF Target, Held
<1>2. CASE c.key \notin DOMAIN Flushed(bufs)
  BY <1>2, FS_EmptySet DEF Target, NewBuffer, IsComplete
<1> QED
  BY <1>1, <1>2

LEMMA HeldKeeps ==
    ASSUME Held(buffers, buffers')
    PROVE  /\ BuffersOK => BuffersOK'
           /\ NothingFinishedIsHeld => NothingFinishedIsHeld'
<1>1. BuffersOK => BuffersOK'
  <2> SUFFICES ASSUME BuffersOK
               PROVE  BuffersOK'
    OBVIOUS
  <2>1. IsFiniteSet(DOMAIN buffers')
    BY FS_Subset DEF BuffersOK, Held
  <2> QED
    BY <2>1 DEF BuffersOK, Held, MessageKeys, DamagedKeys, Sids
<1> QED
  BY <1>1 DEF Held, NothingFinishedIsHeld, IsComplete

\* A chunk that completes nothing.
LEMMA CollectedKeeps ==
    ASSUME NEW c \in ChunkFrames, c.key \in MessageKeys \cup DamagedKeys,
           buffers' = Added(buffers, c)
    PROVE  /\ BuffersOK => BuffersOK'
           /\ NothingFinishedIsHeld /\ Verdict(buffers, c) # "complete" => NothingFinishedIsHeld'
<1>1. CASE Held(buffers, buffers')
  BY <1>1, HeldKeeps
<1>2. CASE ~Held(buffers, buffers')
  <2> DEFINE buf == Target(buffers, c)
             grown == WithPart(buf, c)
  <2>1. /\ Verdict(buffers, c) \in {"duplicate", "complete", "stored"}
        /\ DOMAIN buffers' = DOMAIN Flushed(buffers) \cup {c.key}
        /\ buffers'[c.key] = grown
        /\ \A key \in DOMAIN Flushed(buffers) \ {c.key} : buffers'[key] = buffers[key]
    BY <1>2, AddedBuffers
  <2>2. /\ DOMAIN Flushed(buffers) \subseteq DOMAIN buffers
        /\ grown.total = buf.total
        /\ DOMAIN grown.parts = DOMAIN buf.parts \cup {c.i}
    BY HeldBuffers DEF Held, WithPart
  <2>3. c.n \in Nat \ {0}
    BY DEF ChunkFrames
  <2>4. ASSUME BuffersOK
        PROVE  BuffersOK'
    <3>1. buf.total \in Nat \ {0}
      BY <2>3, <2>4, TargetBuffer DEF BuffersOK
    <3>2. IsFiniteSet(DOMAIN buffers')
      BY <2>1, <2>2, <2>4, FS_Subset, FS_AddElement DEF BuffersOK
    <3>3. \A key \in DOMAIN buffers' : buffers'[key].total \in Nat \ {0}
      BY <2>1, <2>2, <2>4, <3>1 DEF BuffersOK
    <3> QED
      BY <2>1, <2>2, <2>4, <3>2, <3>3 DEF BuffersOK, MessageKeys, DamagedKeys, Sids
  <2>5. ASSUME NothingFinishedIsHeld, Verdict(buffers, c) # "complete"
        PROVE  NothingFinishedIsHeld'
    <3>1. ~IsComplete(grown)
      <4>1. CASE Verdict(buffers, c) = "stored"
        BY <4>1 DEF Verdict
      <4>2. CASE Verdict(buffers, c) = "duplicate"
        <5>1. c.i \in DOMAIN buf.parts
          BY <4>2 DEF Verdict, Repeats
        <5>2. c.key \in DOMAIN buffers /\ buf = buffers[c.key]
          BY <5>1, TargetBuffer
        <5>3. DOMAIN grown.parts = DOMAIN buf.parts
          BY <2>2, <5>1
        <5> QED
          BY <2>2, <2>5, <5>2, <5>3 DEF NothingFinishedIsHeld, IsComplete
      <4> QED
        BY <2>1, <2>5, <4>1, <4>2
    <3> QED
      BY <2>1, <2>2, <2>5, <3>1 DEF NothingFinishedIsHeld
  <2> QED
    BY <2>4, <2>5
<1> QED
  BY <1>1, <1>2

\* A finished message that is not garbled ends with a chunk that was not misread.
LEMMA LastChunkIsGood ==
    ASSUME TypeOK, TakeMessage, ~Garbled
    PROVE  Frame.d = "good"
<1> DEFINE buf == Target(buffers, Frame)
           whole == WithPart(buf, Frame)
<1>1. up # <<>> /\ Verdict(buffers, Frame) = "complete"
  BY DEF TakeMessage, CompletesMessage
<1>2. /\ ~WrongTotal(buf, Frame) /\ Frame.i \notin DOMAIN buf.parts
      /\ Added(buffers, Frame)[Frame.key] = whole
  BY <1>1 DEF Verdict, Conflicts, Repeats, Added
<1>3. Frame.i + 1 \in 1..whole.total /\ whole.parts[Frame.i] = Frame.d
  BY <1>1, <1>2, FrameIsFirst DEF WithPart, WrongTotal, Valid, ChunkFrames
<1>4. PICK k \in 1..whole.total : k - 1 = Frame.i
  <2>1. Frame.i \in Nat /\ Frame.i + 1 - 1 = Frame.i
    BY <1>1, FrameIsFirst DEF ChunkFrames
  <2> QED
    BY <1>3, <2>1
<1> HIDE DEF whole
<1>5. k \in DOMAIN Assembled(whole) /\ Assembled(whole)[k] = whole.parts[Frame.i]
  BY <1>4 DEF Assembled
<1> QED
  BY <1>2, <1>3, <1>5 DEF Garbled

-----------------------------------------------------------------------------
\* What the ground does to its sessions, apart from opening one and accepting telemetry.
QuietSessions ==
    /\ DOMAIN sessions' \subseteq DOMAIN sessions
    /\ DOMAIN replay_windows' = DOMAIN sessions'
    /\ \A s \in DOMAIN sessions' : /\ sessions'[s] \in {sessions[s], "expired"}
                                   /\ replay_windows'[s] = replay_windows[s]
    /\ UNCHANGED <<log, opened>>

LEMMA PartsMakeInv ==
    ASSUME SatInv, UNCHANGED satVars, UpTypeOK', DownTypeOK', BuffersOK', SessionsOK',
           WireInv', AcksAreEarned'
    PROVE  IndInv'
<1>1. SatInv'
  BY SatInvKept
<1>2. (SatTypeOK /\ UpTypeOK /\ DownTypeOK /\ BuffersOK /\ SessionsOK)'
  BY <1>1 DEF SatInv
<1>3. TypeOK'
  BY <1>2, TypesOfQueues, PTL
<1> QED
  BY <1>1, <1>3 DEF IndInv

LEMMA QuietKeeps ==
    ASSUME IndInv, UNCHANGED satVars, QuietSessions, BuffersOK',
           UpTypeOK', Thinned, Reads \/ Answers(EarnedControls')
    PROVE  IndInv'
<1>1. SatInv /\ TypeOK /\ WireInv /\ AcksAreEarned /\ DownTypeOK
  BY TypesOfQueues DEF IndInv
<1>2. DownTypeOK' /\ AcksAreEarned'
  BY <1>1, QueueDownKept DEF QuietSessions, MemoryGrows
<1>3. WireInv'
  BY <1>1, ThinnedKeeps DEF QuietSessions
<1>4. SessionsOK'
  BY <1>1 DEF QuietSessions, TypeOK, SessionsOK, Sids
<1> QED
  BY <1>1, <1>2, <1>3, <1>4, PartsMakeInv

\* What every handler of a finished message does to the queues and the buffers.
LEMMA HandlerTakes ==
    ASSUME TypeOK, TakeMessage, NEW control \in EarnedControls',
           NEW sent, sent \subseteq {<<>>, <<control>>},
           Reply(control) \/ ExceptNack(sent)
    PROVE  /\ UpTypeOK' /\ UpTaken /\ Thinned /\ Answers(EarnedControls')
           /\ BuffersOK' /\ Held(buffers, buffers')
<1>1. up # <<>> /\ buffers' = Without(Flushed(buffers), Frame.key)
  BY DEF TakeMessage
<1>2. NackChunks({0}) \in EarnedControls'
  <2>1. MakeKey(Sid, Mid) \in MessageKeys \cup DamagedKeys
    BY <1>1, FrameIsFirst DEF MakeKey
  <2> QED
    BY <2>1, NackIsEarned DEF NackChunks
<1>3. sent \subseteq Seq(EarnedControls')
  <2>1. <<control>> \in Seq(EarnedControls') /\ <<>> \in Seq(EarnedControls')
    OBVIOUS
  <2> QED
    BY <2>1
<1>4. UpTaken /\ Answers(EarnedControls')
  BY <1>1, <1>2, <1>3, AnswersToMessage
<1>5. Held(buffers, buffers') /\ BuffersOK'
  BY <1>1, HeldBuffers, HeldKeeps DEF TypeOK
<1> QED
  BY <1>4, <1>5, TakenIsThinned

LEMMA CollectKeeps ==
    ASSUME IndInv, CollectChunk, UNCHANGED satVars
    PROVE  IndInv'
<1>1. TypeOK /\ up # <<>> /\ Frame \in ChunkFrames /\ Frame.key \in MessageKeys \cup DamagedKeys
  BY FrameIsFirst DEF IndInv, CollectChunk
<1>2. UpTaken
  <2>1. up' = SubSeq(up, 2, Len(up)) /\ 1 \in 1..Len(up)
    BY <1>1, FrameIsFirst, TailIsSubSeq DEF CollectChunk, NextFrame, TypeOK, LinkTypeOK
  <2> QED
    BY <2>1 DEF UpTaken
<1>3. UpTypeOK' /\ Thinned
  BY <1>1, <1>2, TakenIsThinned
<1>4. BuffersOK'
  BY <1>1, CollectedKeeps DEF CollectChunk, TypeOK
<1>5. QuietSessions
  BY <1>1 DEF CollectChunk, QuietSessions, TypeOK, SessionsOK
<1>6. Reads
  BY DEF CollectChunk, Reads
<1> QED
  BY <1>3, <1>4, <1>5, <1>6, QuietKeeps

LEMMA RejectKeeps ==
    ASSUME IndInv, RejectGarbled, UNCHANGED satVars
    PROVE  IndInv'
<1> DEFINE C == EarnedControls'
<1>1. TypeOK /\ TakeMessage /\ up # <<>>
  BY DEF IndInv, RejectGarbled, TakeMessage
<1>2. QuietSessions
  BY <1>1 DEF RejectGarbled, QuietSessions, TypeOK, SessionsOK
<1>3. \A missing : missing \subseteq Nat => NackChunks(missing) \in C
  <2>1. MakeKey(Sid, Mid) \in MessageKeys \cup DamagedKeys
    BY <1>1, FrameIsFirst DEF MakeKey
  <2> QED
    BY <2>1, NackIsEarned DEF NackChunks
<1>4. NackChunks({0}) \in C /\ NackChunks(0..7) \in C
  BY <1>3
<1> HIDE DEF C
<1>5. CASE Reply(NackChunks({0}))
  BY <1>1, <1>2, <1>4, <1>5, HandlerTakes, QuietKeeps DEF C
<1>6. CASE \/ NextFrame /\ Answer(<<NackChunks(0..7)>>)
           \/ DropRead /\ AnswerRaises({<<>>}, NackChunks(0..7))
  <2>1. <<NackChunks(0..7)>> \in Seq(C) /\ Append(<<>>, NackChunks(0..7)) \in Seq(C)
        /\ <<>> \in Seq(C)
    BY <1>4
  <2>2. Answers(C)
    BY <1>6, <2>1 DEF Answer, AnswerRaises, AnswerOneOf, Answers
  <2>3. UpTaken
    <3>1. up' = Tail(up) => up' = SubSeq(up, 2, Len(up)) /\ 1 \in 1..Len(up)
      BY <1>1, FrameIsFirst, TailIsSubSeq DEF TypeOK, LinkTypeOK
    <3> QED
      BY <1>6, <3>1 DEF NextFrame, DropRead, UpTaken
  <2>4. BuffersOK'
    BY <1>1, HeldBuffers, HeldKeeps DEF TakeMessage, TypeOK
  <2> QED
    BY <1>1, <1>2, <2>2, <2>3, <2>4, TakenIsThinned, QuietKeeps DEF C
<1> QED
  BY <1>5, <1>6 DEF RejectGarbled

\* The message number of a good frame is one that is sent.
LEMMA GoodMessage ==
    ASSUME IndInv, TakeMessage, ~Garbled
    PROVE  /\ up # <<>> /\ 1 \in 1..Len(up) /\ Frame = up[1] /\ Good(1)
           /\ MakeKey(Sid, Mid) \in MessageKeys /\ Sid \in Sids
           /\ Mid = NoMid \/ Mid \in 1..MaxSequence
           /\ RankAt(1) = (IF Mid = NoMid THEN 0 ELSE Mid)
<1>1. TypeOK /\ up # <<>> /\ Frame.d = "good"
  BY LastChunkIsGood DEF IndInv, TakeMessage
<1>2. /\ 1 \in 1..Len(up) /\ Frame = up[1] /\ Good(1)
      /\ MakeKey(Sid, Mid) \in MessageKeys /\ Sid \in Sids
  BY <1>1, FrameIsFirst DEF MakeKey, Good
<1>3. Mid = NoMid \/ Mid \in 1..MaxSequence
  <2>1. PICK s \in Sids, m \in {NoMid} \cup 1..MaxSequence : MakeKey(Sid, Mid) = MakeKey(s, m)
    BY <1>2 DEF MessageKeys, MakeKey
  <2>2. Mid = m
    BY <2>1 DEF MakeKey
  <2> QED
    BY <2>2
<1> QED
  BY <1>1, <1>2, <1>3 DEF RankAt, Rank, Mid

LEMMA AnswerKnownKeeps ==
    ASSUME IndInv, AckKnownSession \/ RefuseTelemetry, UNCHANGED satVars
    PROVE  IndInv'
<1>1. TypeOK /\ TakeMessage /\ ~Garbled /\ UNCHANGED <<sessions, replay_windows, log, opened>>
  BY DEF IndInv, AckKnownSession, RefuseTelemetry
<1>2. MakeKey(Sid, Mid) \in MessageKeys \cup DamagedKeys
  BY <1>1, GoodMessage
<1>3. QuietSessions
  BY <1>1 DEF QuietSessions, TypeOK, SessionsOK
<1>4. CASE AckKnownSession
  <2>1. Mid = NoMid /\ Sid \in opened'
    BY <1>1, <1>4 DEF AckKnownSession, TypeOK, SessionsOK
  <2>2. AckIt \in EarnedControls'
    BY <1>2, <2>1, AckIsEarned DEF AckIt
  <2> QED
    BY <1>1, <1>3, <1>4, <2>2, HandlerTakes, QuietKeeps DEF AckKnownSession
<1>5. CASE RefuseTelemetry
  <2>1. NackChunks({0}) \in EarnedControls'
    BY <1>2, NackIsEarned DEF NackChunks
  <2> QED
    BY <1>1, <1>3, <1>5, <2>1, HandlerTakes, QuietKeeps DEF RefuseTelemetry
<1> QED
  BY <1>4, <1>5

LEMMA OpenKeeps ==
    ASSUME IndInv, OpenSession, UNCHANGED satVars
    PROVE  IndInv'
<1>1. /\ SatInv /\ TypeOK /\ WireInv /\ AcksAreEarned /\ DownTypeOK /\ SessionsOK
      /\ TakeMessage /\ ~Garbled /\ Mid = NoMid
      /\ Sid \notin DOMAIN sessions /\ opened' = opened \cup {Sid} /\ log' = log
  BY TypesOfQueues DEF IndInv, OpenSession
<1>2. /\ 1 \in 1..Len(up) /\ Frame = up[1] /\ Good(1) /\ RankAt(1) = 0 /\ Sid \in Sids
      /\ MakeKey(Sid, Mid) \in MessageKeys \cup DamagedKeys
  BY <1>1, GoodMessage
<1>3. /\ DOMAIN sessions' = DOMAIN sessions \cup {Sid} /\ DOMAIN replay_windows' = DOMAIN sessions'
      /\ \A s \in DOMAIN sessions' :
            /\ sessions'[s] = IF s = Sid THEN "active" ELSE sessions[s]
            /\ replay_windows'[s] = IF s = Sid THEN NewWindow ELSE replay_windows[s]
  BY <1>1 DEF OpenSession, Set, NewReceiverSession, SessionsOK
<1>4. AckIt \in EarnedControls'
  BY <1>1, <1>2, AckIsEarned DEF AckIt
<1>5. UpTypeOK' /\ Thinned /\ Answers(EarnedControls') /\ BuffersOK'
  BY <1>1, <1>4, HandlerTakes DEF OpenSession
<1>6. DownTypeOK' /\ AcksAreEarned'
  BY <1>1, <1>5, QueueDownKept DEF MemoryGrows
<1>7. SessionsOK'
  <2>1. NewWindow \in Windows
    BY DEF NewWindow, Windows
  <2> QED
    BY <1>1, <1>2, <1>3, <2>1 DEF SessionsOK, Sids
<1>8. Sid <= sid /\ \A j \in 1..Len(log) : log[j][1] # Sid
  <2>1. Sid <= sid
    BY <1>1, <1>2 DEF WireInv, NothingAhead, WireNotAhead, Sid
  <2>2. ASSUME NEW j \in 1..Len(log), log[j][1] = Sid
        PROVE  FALSE
    <3>1. log[j][2] \in 1..MaxSequence
      BY <1>1, <2>2, ElementOfSeq DEF SessionsOK
    <3>2. log[j][2] <= 0
      BY <1>1, <1>2, <2>2 DEF WireInv, ArrivalsAreNew, Sid
    <3> QED
      BY <3>1, <3>2
  <2> QED
    BY <2>1, <2>2
<1>9. \A s \in DOMAIN sessions' :
        \/ s \in DOMAIN sessions /\ replay_windows'[s] = replay_windows[s]
        \/ /\ replay_windows'[s] = NewWindow /\ s <= sid
           /\ \A j \in 1..Len(log) : log[j][1] # s
  BY <1>3, <1>8
<1>10. opened \subseteq opened'
  BY <1>1
<1>11. WireInv'
  BY <1>1, <1>5, <1>9, <1>10, ThinnedKeeps
<1> QED
  BY <1>1, <1>5, <1>6, <1>7, <1>11, PartsMakeInv

\* A number that is not below the newest one of a window, and accepted, is above it.
LEMMA AcceptedIsNewest ==
    ASSUME NEW w \in Windows, NEW seq \in Nat, w.max_seq <= seq, Accepts(w, seq),
           w.max_seq # -1 => 0 \in w.seen_mask
    PROVE  /\ w.max_seq < seq
           /\ Record(w, seq) \in Windows
           /\ Record(w, seq).max_seq = seq /\ 0 \in Record(w, seq).seen_mask
<1>1. w.max_seq \in Int /\ w.seen_mask \subseteq Bits /\ 0 \in Bits
  BY WindowSizeAssumption DEF Windows, Bits
<1>2. w.max_seq < seq
  <2> SUFFICES ASSUME w.max_seq = seq
               PROVE  FALSE
    BY <1>1
  <2>1. w.max_seq # -1 /\ w.max_seq - seq = 0 /\ 0 \in w.seen_mask /\ seq <= w.max_seq
    BY <1>1
  <2>2. Check(w, seq) = "duplicate"
    BY <1>1, <2>1, WindowSizeAssumption DEF Check
  <2> QED
    BY <2>2 DEF Accepts, Acceptances
<1>3. Shifted(w.seen_mask, seq - w.max_seq) \cup {0} \subseteq Bits
  BY <1>1 DEF Shifted
<1>4. Record(w, seq) = [max_seq |-> seq, seen_mask |-> {0}]
      \/ Record(w, seq) = [max_seq |-> seq,
                           seen_mask |-> Shifted(w.seen_mask, seq - w.max_seq) \cup {0}]
  BY <1>2 DEF Record
<1> QED
  BY <1>1, <1>2, <1>3, <1>4 DEF Windows

\* The state behind an accepted packet: the window has its number, and the log, unless
\* its write failed.
LEMMA AcceptKeeps ==
    ASSUME IndInv, AcceptTelemetry, UNCHANGED satVars
    PROVE  /\ IndInv'
           /\ Sid \in opened /\ Sid <= sid /\ SoFar(Sid, Mid) /\ Mid \in 1..MaxSequence
           /\ \A j \in 1..Len(log) : log[j][1] = Sid => log[j][2] < Mid
<1>1. /\ SatInv /\ TypeOK /\ WireInv /\ AcksAreEarned /\ DownTypeOK /\ SessionsOK
      /\ TakeMessage /\ ~Garbled /\ Mid # NoMid /\ Sid \in DOMAIN sessions
      /\ Accepts(replay_windows[Sid], Mid) /\ UNCHANGED <<sessions, opened>>
  BY TypesOfQueues DEF IndInv, AcceptTelemetry, UsableSession
<1>2. /\ 1 \in 1..Len(up) /\ Frame = up[1] /\ Good(1) /\ RankAt(1) = Mid /\ Sid \in Sids
      /\ Mid \in 1..MaxSequence /\ MakeKey(Sid, Mid) \in MessageKeys \cup DamagedKeys
      /\ Sid = up[1].key.sid
  BY <1>1, GoodMessage DEF Sid
<1> DEFINE w == replay_windows[Sid]
<1>3. w \in Windows /\ (w.max_seq # -1 => 0 \in w.seen_mask) /\ w.max_seq <= Mid
  BY <1>1, <1>2 DEF SessionsOK, WireInv, WindowsRemember, ArrivalsAreNew
<1>4. /\ w.max_seq < Mid /\ Record(w, Mid) \in Windows
      /\ Record(w, Mid).max_seq = Mid /\ 0 \in Record(w, Mid).seen_mask
  BY <1>1, <1>2, <1>3, AcceptedIsNewest
<1>5. /\ DOMAIN replay_windows' = DOMAIN sessions
      /\ replay_windows'[Sid] = Record(w, Mid)
      /\ \A s \in DOMAIN sessions \ {Sid} : replay_windows'[s] = replay_windows[s]
  BY <1>1 DEF AcceptTelemetry, Set, SessionsOK
<1>6. log \in Seq(Sids \X (1..MaxSequence)) /\ Len(log) \in Nat
      /\ \A j \in 1..Len(log) : log[j] \in Sids \X (1..MaxSequence) /\ log[j][2] \in Nat
  BY <1>1, ElementOfSeq, LenProperties DEF SessionsOK
<1>7. \A j \in 1..Len(log) : log[j][1] = Sid => log[j][2] < Mid
  <2> SUFFICES ASSUME NEW j \in 1..Len(log), log[j][1] = Sid
               PROVE  log[j][2] < Mid
    OBVIOUS
  <2>1. log[j][2] <= w.max_seq
    BY <1>1 DEF WireInv, WindowsRemember
  <2>2. log[j][2] \in Int /\ w.max_seq \in Int
    BY <1>3, <1>6 DEF Windows
  <2> QED
    BY <1>2, <1>4, <2>1, <2>2
<1>8. Sid <= sid /\ SoFar(Sid, Mid) /\ Sid \in opened
  BY <1>1, <1>2 DEF WireInv, NothingAhead, WireNotAhead, SessionsOK
<1>9. UNCHANGED log \/ log' = Append(log, <<Sid, Mid>>)
  BY DEF AcceptTelemetry
<1>10. /\ log' \in Seq(Sids \X (1..MaxSequence)) /\ Len(log') \in Nat /\ Len(log) <= Len(log')
       /\ \A j \in 1..Len(log') :
             \/ j \in 1..Len(log) /\ log'[j] = log[j]
             \/ log'[j] = <<Sid, Mid>> /\ log'[j][1] = Sid /\ log'[j][2] = Mid
       /\ \A j \in 1..Len(log) : log'[j] = log[j]
       /\ log' = Append(log, <<Sid, Mid>>) =>
             Len(log') = Len(log) + 1 /\ log'[Len(log')] = <<Sid, Mid>>
  <2>1. <<Sid, Mid>> \in Sids \X (1..MaxSequence)
    BY <1>2
  <2>2. CASE UNCHANGED log
    BY <1>6, <2>2
  <2>3. CASE log' = Append(log, <<Sid, Mid>>)
    BY <1>6, <2>1, <2>3, AppendProperties
  <2> QED
    BY <1>9, <2>2, <2>3
<1>11. /\ UpTypeOK' /\ UpTaken /\ Thinned /\ Answers(EarnedControls') /\ BuffersOK'
  <2>1. CASE log' = Append(log, <<Sid, Mid>>) /\ (Reply(AckIt) \/ ExceptNack({<<>>}))
    <3>1. Len(log') \in 1..Len(log') /\ log'[Len(log')] = <<Sid, Mid>>
      BY <1>6, <1>10, <2>1
    <3>2. AckIt \in EarnedControls'
      BY <1>1, <1>2, <3>1, AckIsEarned DEF AckIt
    <3> QED
      BY <1>1, <2>1, <3>2, HandlerTakes
  <2>2. CASE ExceptNack({<<>>})
    <3>1. NackChunks({0}) \in EarnedControls'
      BY <1>2, NackIsEarned DEF NackChunks
    <3> QED
      BY <1>1, <2>2, <3>1, HandlerTakes
  <2> QED
    BY <2>1, <2>2 DEF AcceptTelemetry
<1>12. DownTypeOK' /\ AcksAreEarned'
  BY <1>1, <1>6, <1>10, <1>11, QueueDownKept DEF MemoryGrows
<1>13. SessionsOK'
  BY <1>1, <1>4, <1>5, <1>10 DEF SessionsOK, Sids
<1>14. WireInOrder' /\ WireNotAhead' /\ TelemetryIsAgreed'
  BY <1>1, <1>11, ThinnedInOrder
<1>15. NothingAhead'
  <2>1. \A s, r : SoFar(s, r)' <=> SoFar(s, r)
    BY DEF SoFar, Active, Current, satVars
  <2>2. (\A k \in 1..Len(log) : SoFar(log[k][1], log[k][2]))'
    <3> SUFFICES ASSUME NEW k \in 1..Len(log')
                 PROVE  SoFar(log[k][1], log[k][2])'
      OBVIOUS
    <3>1. SoFar(log'[k][1], log'[k][2])
      BY <1>1, <1>8, <1>10 DEF WireInv, NothingAhead
    <3> QED
      BY <3>1 DEF SoFar, Active, Current, satVars
  <2>3. (\A s \in DOMAIN sessions : SoFar(s, replay_windows[s].max_seq))'
    <3> SUFFICES ASSUME NEW s \in DOMAIN sessions
                 PROVE  SoFar(s, replay_windows[s].max_seq)'
      BY <1>1
    <3>1. SoFar(s, replay_windows'[s].max_seq)
      BY <1>1, <1>4, <1>5, <1>8 DEF WireInv, NothingAhead
    <3> QED
      BY <3>1 DEF SoFar, Active, Current, satVars
  <2> QED
    BY <1>14, <2>2, <2>3 DEF NothingAhead
<1>16. ArrivalsAreNew'
  <2> SUFFICES ASSUME NEW k \in 1..Len(up'), Good(k)'
               PROVE  /\ \A j \in 1..Len(log') :
                            log'[j][1] = up'[k].key.sid => log'[j][2] <= RankAt(k)'
                      /\ up'[k].key.sid \in DOMAIN sessions' =>
                            replay_windows'[up'[k].key.sid].max_seq <= RankAt(k)'
    BY DEF ArrivalsAreNew
  <2> DEFINE s == up'[k].key.sid
  <2>1. PICK n \in 1..Len(up) : up' = SubSeq(up, n + 1, Len(up))
    BY <1>11 DEF UpTaken
  <2>2. up \in Seq(ChunkFrames)
    BY <1>1 DEF TypeOK, LinkTypeOK
  <2>3. /\ k + n \in 1..Len(up) /\ 1 < k + n /\ up'[k] = up[k + n]
    BY <2>1, <2>2, Taken, LenProperties
  <2>4. Good(k + n) /\ s = up[k + n].key.sid /\ RankAt(k)' = RankAt(k + n)
    BY <2>3 DEF Good, RankAt
  <2>5. s = Sid => Mid <= RankAt(k)'
    <3>1. \/ up[1].key.sid < up[k + n].key.sid
          \/ up[1].key.sid = up[k + n].key.sid /\ RankAt(1) <= RankAt(k + n)
      BY <1>1, <1>2, <2>3, <2>4 DEF WireInv, WireInOrder
    <3>2. Sid \in Int
      BY <1>2 DEF Sids
    <3> QED
      BY <1>2, <2>4, <3>1, <3>2
  <2>6. /\ \A j \in 1..Len(log) : log[j][1] = s => log[j][2] <= RankAt(k)'
        /\ s \in DOMAIN sessions => replay_windows[s].max_seq <= RankAt(k)'
    BY <1>1, <2>3, <2>4 DEF WireInv, ArrivalsAreNew
  <2> HIDE DEF s
  <2>7. \A j \in 1..Len(log') : log'[j][1] = s => log'[j][2] <= RankAt(k)'
    BY <1>10, <2>5, <2>6
  <2>8. s \in DOMAIN sessions' => replay_windows'[s].max_seq <= RankAt(k)'
    BY <1>1, <1>4, <1>5, <2>5, <2>6
  <2> QED
    BY <2>7, <2>8 DEF s
<1>17. WindowsRemember'
  <2> SUFFICES ASSUME NEW s \in DOMAIN sessions
               PROVE  /\ replay_windows'[s].max_seq # -1 => 0 \in replay_windows'[s].seen_mask
                      /\ \A j \in 1..Len(log') :
                            log'[j][1] = s => log'[j][2] <= replay_windows'[s].max_seq
    BY <1>1 DEF WindowsRemember
  <2>1. CASE s = Sid
    <3>1. ASSUME NEW j \in 1..Len(log'), log'[j][1] = Sid
          PROVE  log'[j][2] <= Mid
      <4>1. CASE j \in 1..Len(log) /\ log'[j] = log[j]
        <5>1. log[j][2] < Mid /\ log[j][2] \in Nat
          BY <1>6, <1>7, <3>1, <4>1
        <5> QED
          BY <1>2, <4>1, <5>1
      <4>2. CASE log'[j][2] = Mid
        BY <1>2, <4>2
      <4> QED
        BY <1>10, <4>1, <4>2
    <3> QED
      BY <1>4, <1>5, <2>1, <3>1
  <2>2. CASE s # Sid
    <3>1. /\ replay_windows'[s] = replay_windows[s]
          /\ replay_windows[s].max_seq # -1 => 0 \in replay_windows[s].seen_mask
          /\ \A j \in 1..Len(log) : log[j][1] = s => log[j][2] <= replay_windows[s].max_seq
      BY <1>1, <1>5, <2>2 DEF WireInv, WindowsRemember
    <3> QED
      BY <1>10, <2>2, <3>1
  <2> QED
    BY <2>1, <2>2
<1>18. WireInv'
  BY <1>14, <1>15, <1>16, <1>17 DEF WireInv
<1> QED
  BY <1>1, <1>2, <1>7, <1>8, <1>11, <1>12, <1>13, <1>18, PartsMakeInv

-----------------------------------------------------------------------------
\* The NACKs of the idle branch, whatever order the buffers are in.
LEMMA NackListsAreNacks ==
    ASSUME BuffersOK, NEW keys, keys \subseteq DOMAIN buffers, NEW nacks \in NackLists(keys)
    PROVE  nacks \in Seq(EarnedControls')
<1>1. IsFiniteSet(keys) /\ Cardinality(keys) \in Nat
  BY FS_Subset, FS_CardinalityType DEF BuffersOK
<1>2. PICK order \in SetToSeqs(keys) : nacks = [k \in 1..Len(order) |-> NackFor(order[k])]
  BY DEF NackLists
<1>3. order \in [1..Cardinality(keys) -> keys]
  BY <1>2 DEF SetToSeqs
<1>4. order \in Seq(keys) /\ Len(order) = Cardinality(keys)
  BY <1>1, <1>3
<1>5. ASSUME NEW k \in 1..Len(order)
      PROVE  NackFor(order[k]) \in EarnedControls'
  <2> DEFINE key == order[k]
  <2>1. key \in MessageKeys \cup DamagedKeys /\ buffers[key].total \in Nat
    BY <1>1, <1>3, <1>4 DEF BuffersOK
  <2>2. key = MakeKey(key.sid, key.mid)
    BY <2>1 DEF MessageKeys, DamagedKeys, MakeKey
  <2>3. Missing(buffers[key]) \subseteq Nat
    BY <2>1 DEF Missing
  <2> HIDE DEF key
  <2>4. Nack(key.sid, key.mid, Missing(buffers[key])) \in EarnedControls'
    BY <2>1, <2>2, <2>3, NackIsEarned
  <2> QED
    BY <2>4 DEF NackFor, key
<1> QED
  BY <1>1, <1>2, <1>4, <1>5

LEMMA IdleKeeps ==
    ASSUME IndInv, GroundIdle, UNCHANGED satVars
    PROVE  IndInv' /\ Held(buffers, buffers')
<1> DEFINE C == EarnedControls'
<1>1. TypeOK /\ BuffersOK
  BY DEF IndInv, TypeOK
<1>2. PICK first \in {<<>>} \cup NackLists(Incomplete), second \in NackLists(Stale(buffers)) :
          \/ Answer(first \o second) /\ buffers' = Flushed(buffers)
          \/ AnswerOneOf(SomeOf(first)) /\ UNCHANGED buffers
          \/ AnswerOneOf({first \o sent : sent \in SomeOf(second)}) /\ buffers' = Flushed(buffers)
  BY DEF GroundIdle
<1>3. first \in Seq(C) /\ second \in Seq(C)
  <2>1. Incomplete \subseteq DOMAIN buffers /\ Stale(buffers) \subseteq DOMAIN buffers
    BY DEF Incomplete, Stale
  <2>2. <<>> \in Seq(C)
    OBVIOUS
  <2>3. first \in NackLists(Incomplete) => first \in Seq(C)
    BY <1>1, <2>1, NackListsAreNacks
  <2>4. second \in Seq(C)
    BY <1>1, <2>1, NackListsAreNacks
  <2> QED
    BY <2>2, <2>3, <2>4
<1> HIDE DEF C
<1>4. ASSUME NEW nacks \in Seq(C)
      PROVE  SomeOf(nacks) \subseteq Seq(C)
  <2> SUFFICES ASSUME NEW k \in 0..Len(nacks)
               PROVE  SubSeq(nacks, 1, k) \in Seq(C)
    BY DEF SomeOf
  <2>1. Len(nacks) \in Nat /\ \A j \in 1..k : nacks[j] \in C
    BY <1>4, LenProperties, ElementOfSeq
  <2> QED
    BY <2>1, SubSeqProperties
<1>5. Answers(C)
  <2>1. first \o second \in Seq(C) /\ \A sent \in SomeOf(second) : first \o sent \in Seq(C)
    BY <1>3, <1>4, ConcatProperties
  <2> QED
    BY <1>2, <1>3, <1>4, <2>1 DEF Answer, AnswerOneOf, Answers
<1>6. Held(buffers, buffers')
  <2>1. CASE buffers' = Flushed(buffers)
    BY <2>1, HeldBuffers
  <2>2. CASE UNCHANGED buffers
    BY <2>2 DEF Held
  <2> QED
    BY <1>2, <2>1, <2>2
<1>7. UpTypeOK' /\ Thinned /\ BuffersOK'
  BY <1>1, <1>6, SameIsThinned, HeldKeeps DEF GroundIdle
<1>8. QuietSessions
  BY <1>1 DEF GroundIdle, QuietSessions, TypeOK, SessionsOK
<1> QED
  BY <1>5, <1>6, <1>7, <1>8, QuietKeeps DEF C

\* Time, an expiry and a restart.
LEMMA TimeKeeps ==
    ASSUME IndInv, Tick \/ SessionExpires \/ GroundRestart, UNCHANGED satVars
    PROVE  IndInv' /\ Held(buffers, buffers')
<1>1. TypeOK /\ BuffersOK /\ SessionsOK
  BY DEF IndInv, TypeOK
<1>2. UNCHANGED <<up, down, log, opened>>
  BY DEF Tick, SessionExpires, GroundRestart
<1>3. Held(buffers, buffers')
  <2>1. CASE Tick \/ GroundRestart
    BY <2>1, HeldBuffers DEF Tick, GroundRestart
  <2>2. CASE SessionExpires
    BY <2>2 DEF SessionExpires, Held
  <2> QED
    BY <2>1, <2>2
<1>4. QuietSessions
  <2>1. CASE Tick
    BY <1>1, <2>1 DEF Tick, QuietSessions, SessionsOK
  <2>2. CASE SessionExpires
    <3>1. PICK s \in DOMAIN sessions : sessions' = [sessions EXCEPT ![s] = "expired"]
      BY <2>2 DEF SessionExpires
    <3>2. DOMAIN sessions' = DOMAIN sessions /\ UNCHANGED <<replay_windows, log, opened>>
          /\ \A t \in DOMAIN sessions' : sessions'[t] \in {sessions[t], "expired"}
      BY <1>1, <2>2, <3>1 DEF SessionExpires, SessionsOK
    <3> QED
      BY <1>1, <3>2 DEF QuietSessions, SessionsOK
  <2>3. CASE GroundRestart
    BY <2>3 DEF GroundRestart, QuietSessions
  <2> QED
    BY <2>1, <2>2, <2>3
<1>5. UpTypeOK' /\ Thinned /\ BuffersOK' /\ Reads
  BY <1>1, <1>2, <1>3, SameIsThinned, HeldKeeps DEF Reads
<1> QED
  BY <1>3, <1>4, <1>5, QuietKeeps

LEMMA RadioKeeps ==
    ASSUME IndInv, LinkStep, UNCHANGED <<satVars, groundVars>>
    PROVE  IndInv'
<1>1. TypeOK /\ UNCHANGED <<sessions, replay_windows, log, opened, buffers>>
  BY DEF IndInv, groundVars
<1>2. UpTypeOK' /\ Thinned
  <2>1. CASE LoseControl
    BY <1>1, <2>1, SameIsThinned DEF LoseControl
  <2> QED
    BY <1>1, <2>1, DamagedIsThinned DEF LinkStep
<1>3. Reads
  <2>1. CASE LoseControl
    <3>1. down' = SubSeq(down, 2, Len(down)) /\ 1 \in 1..Len(down)
      BY <1>1, <2>1, EmptySeq, TailIsSubSeq DEF LoseControl, TypeOK, LinkTypeOK
    <3> QED
      BY <3>1 DEF Reads
  <2>2. CASE UNCHANGED down
    BY <2>2 DEF Reads
  <2> QED
    BY <2>1, <2>2 DEF LinkStep, LoseChunk, CorruptChunk
<1>4. QuietSessions
  BY <1>1 DEF QuietSessions, TypeOK, SessionsOK
<1>5. BuffersOK'
  BY <1>1 DEF TypeOK, BuffersOK, MessageKeys, DamagedKeys, Sids
<1> QED
  BY <1>1, <1>2, <1>3, <1>4, <1>5, QuietKeeps

LEMMA SatelliteStepKeeps ==
    ASSUME IndInv, SatProgram, UNCHANGED groundVars
    PROVE  IndInv'
<1>1. SatInv /\ TypeOK /\ WireInv /\ AcksAreEarned /\ DownTypeOK
  BY TypesOfQueues DEF IndInv
<1>2. UNCHANGED <<buffers, sessions, replay_windows, log, opened>>
  BY DEF groundVars
<1>3. SatInv' /\ WireInv' /\ UpTypeOK' /\ Reads
  BY <1>1, SatInvKept, SatSteps, SatelliteKeeps
<1>4. DownTypeOK' /\ AcksAreEarned'
  BY <1>1, <1>2, <1>3, QueueDownKept DEF MemoryGrows
<1>5. BuffersOK' /\ SessionsOK'
  BY <1>1, <1>2 DEF TypeOK, BuffersOK, SessionsOK, MessageKeys, DamagedKeys, Sids
<1>6. (SatTypeOK /\ UpTypeOK /\ DownTypeOK /\ BuffersOK /\ SessionsOK)'
  BY <1>3, <1>4, <1>5 DEF SatInv
<1>7. TypeOK'
  BY <1>6, TypesOfQueues, PTL
<1> QED
  BY <1>3, <1>4, <1>7 DEF IndInv

\* A restarted satellite has nothing in hand, so it is behind nothing.
LEMMA RestartKeeps ==
    ASSUME IndInv, SatelliteRestart, UNCHANGED groundVars
    PROVE  IndInv'
<1>1. SatInv /\ TypeOK /\ WireInv /\ AcksAreEarned /\ DownTypeOK
  BY TypesOfQueues DEF IndInv
<1>2. UNCHANGED <<buffers, sessions, replay_windows, log, opened, up, down, sid>>
      /\ phase' = "boot"
  BY DEF groundVars, SatelliteRestart
<1>3. SatInv' /\ UpTypeOK' /\ Reads
  BY <1>1, <1>2, SatInvKept, SameIsThinned DEF Reads
<1>4. DownTypeOK' /\ AcksAreEarned'
  BY <1>1, <1>2, <1>3, QueueDownKept DEF MemoryGrows
<1>5. BuffersOK' /\ SessionsOK'
  BY <1>1, <1>2 DEF TypeOK, BuffersOK, SessionsOK, MessageKeys, DamagedKeys, Sids
<1>6. (SatTypeOK /\ UpTypeOK /\ DownTypeOK /\ BuffersOK /\ SessionsOK)'
  BY <1>3, <1>4, <1>5 DEF SatInv
<1>7. TypeOK'
  BY <1>6, TypesOfQueues, PTL
<1>8. ~Active'
  BY <1>2 DEF Active
<1>9. WireInOrder' /\ ArrivalsAreNew' /\ WindowsRemember' /\ TelemetryIsAgreed'
  BY <1>1, <1>2
     DEF WireInv, WireInOrder, ArrivalsAreNew, WindowsRemember, TelemetryIsAgreed, Good, RankAt
<1>10. NothingAhead'
  BY <1>1, <1>2, <1>8 DEF WireInv, NothingAhead, WireNotAhead, SoFar, Good, RankAt
<1> QED
  BY <1>3, <1>4, <1>7, <1>9, <1>10 DEF IndInv, WireInv

LEMMA StutterKeeps ==
    ASSUME IndInv, UNCHANGED vars
    PROVE  IndInv'
<1>1. UNCHANGED <<up, down>> /\ UNCHANGED satVars /\ QuietSessions /\ UNCHANGED buffers
  BY DEF IndInv, vars, linkVars, groundVars, QuietSessions, TypeOK, SessionsOK
<1>2. UpTypeOK' /\ Thinned /\ Reads /\ BuffersOK'
  BY <1>1, SameIsThinned DEF Reads, IndInv, TypeOK, BuffersOK, MessageKeys, DamagedKeys, Sids
<1> QED
  BY <1>1, <1>2, QuietKeeps

-----------------------------------------------------------------------------
LEMMA InitHolds == Init => IndInv
<1> SUFFICES ASSUME Init
             PROVE  IndInv
  OBVIOUS
<1>1. SatInv
  BY SatInitHolds DEF Init
<1> USE DEF Init, LinkInit, SatInit, GroundInit
<1>2. LinkTypeOK /\ ChunksOK /\ ControlsOK /\ AcksAreEarned
  BY LinkAssumption DEF LinkTypeOK, ChunksOK, ControlsOK, AcksAreEarned
<1>3. BuffersOK /\ SessionsOK
  BY FS_EmptySet DEF BuffersOK, SessionsOK
<1>4. WireInv
  BY DEF WireInv, WireInOrder, NothingAhead, WireNotAhead, ArrivalsAreNew, WindowsRemember,
         TelemetryIsAgreed
<1> QED
  BY <1>1, <1>2, <1>3, <1>4 DEF IndInv, TypeOK, SatInv

LEMMA NextKeeps == IndInv /\ [Next]_vars => IndInv'
<1> SUFFICES ASSUME IndInv, [Next]_vars
             PROVE  IndInv'
  OBVIOUS
<1>1. CASE SatStep
  BY <1>1, SatelliteStepKeeps DEF SatStep
<1>2. CASE GroundStep
  <2>1. CASE HandleFrame
    BY <1>2, <2>1, CollectKeeps, RejectKeeps, OpenKeeps, AnswerKnownKeeps, AcceptKeeps
       DEF GroundStep, HandleFrame
  <2>2. CASE GroundIdle
    BY <1>2, <2>2, IdleKeeps DEF GroundStep
  <2> QED
    BY <1>2, <2>1, <2>2 DEF GroundStep, GroundProgram
<1>3. CASE RadioStep
  BY <1>3, RadioKeeps DEF RadioStep
<1>4. CASE TimeStep
  BY <1>4, TimeKeeps DEF TimeStep
<1>5. CASE Mishap
  BY <1>5, RestartKeeps, TimeKeeps DEF Mishap
<1>6. CASE UNCHANGED vars
  BY <1>6, StutterKeeps
<1> QED
  BY <1>1, <1>2, <1>3, <1>4, <1>5, <1>6 DEF Next

\* The invariant of the whole link holds in every behaviour of the two programs.
THEOREM Inductive == Spec => []IndInv
  BY InitHolds, NextKeeps, PTL DEF Spec

\* Types of the composition, and of everything under way, damaged or not.
THEOREM TypeCorrect == Spec => []TypeOK
  BY Inductive, PTL DEF IndInv

\* No ACK is ever under way for a session that was not opened or a message that was not
\* logged: whatever is lost, damaged, repeated, late or restarted.
THEOREM AcksEarned == Spec => []AcksAreEarned
  BY Inductive, PTL DEF IndInv

-----------------------------------------------------------------------------
\* A handler that opens a session or accepts telemetry only takes chunks off the link.
LEMMA HandledIsThinned ==
    ASSUME TypeOK, OpenSession \/ AcceptTelemetry
    PROVE  Thinned
<1>1. up # <<>> /\ (NextFrame \/ DropRead)
  BY DEF OpenSession, AcceptTelemetry, TakeMessage, Reply, ExceptNack
<1>2. up' = Tail(up) => up' = SubSeq(up, 2, Len(up)) /\ 1 \in 1..Len(up)
  BY <1>1, FrameIsFirst, TailIsSubSeq DEF TypeOK, LinkTypeOK
<1>3. UpTaken
  BY <1>1, <1>2 DEF NextFrame, DropRead, UpTaken
<1> QED
  BY <1>3, TakenIsThinned

\* The steps of the system, by what they do to the state the programs keep: the ground
\* opens a session, accepts telemetry, or the satellite moves.
LEMMA KindsOfSteps ==
    ASSUME IndInv, [Next]_vars
    PROVE  \/ SatProgram /\ UNCHANGED groundVars
           \/ SatelliteRestart /\ UNCHANGED groundVars
           \/ UNCHANGED satVars /\ (OpenSession \/ AcceptTelemetry)
           \/ /\ UNCHANGED satVars /\ QuietSessions
              /\ Thinned
<1>1. TypeOK /\ SessionsOK
  BY DEF IndInv, TypeOK
<1>2. ASSUME UNCHANGED <<sessions, replay_windows, log, opened>>
      PROVE  QuietSessions
  BY <1>1, <1>2 DEF QuietSessions, SessionsOK
<1>3. CASE SatStep
  BY <1>3 DEF SatStep
<1>4. CASE GroundStep
  <2>1. CASE OpenSession \/ AcceptTelemetry
    BY <1>4, <2>1 DEF GroundStep
  <2>2. CASE CollectChunk \/ RejectGarbled \/ AckKnownSession \/ RefuseTelemetry \/ GroundIdle
    <3>1. QuietSessions /\ UNCHANGED satVars
      BY <1>2, <1>4, <2>2
         DEF GroundStep, CollectChunk, RejectGarbled, AckKnownSession, RefuseTelemetry, GroundIdle
    <3>2. CASE GroundIdle
      BY <1>1, <3>1, <3>2, SameIsThinned DEF GroundIdle
    <3>3. CASE CollectChunk \/ RejectGarbled \/ AckKnownSession \/ RefuseTelemetry
      <4>1. up # <<>> /\ (NextFrame \/ DropRead)
        BY <3>3 DEF CollectChunk, RejectGarbled, AckKnownSession, RefuseTelemetry, TakeMessage,
                    Reply, ExceptNack
      <4>2. up' = Tail(up) => up' = SubSeq(up, 2, Len(up)) /\ 1 \in 1..Len(up)
        BY <1>1, <4>1, FrameIsFirst, TailIsSubSeq DEF TypeOK, LinkTypeOK
      <4>3. UpTaken
        BY <4>1, <4>2 DEF NextFrame, DropRead, UpTaken
      <4> QED
        BY <1>1, <3>1, <4>3, TakenIsThinned
    <3> QED
      BY <2>2, <3>2, <3>3
  <2> QED
    BY <1>4, <2>1, <2>2 DEF GroundStep, GroundProgram, HandleFrame
<1>5. CASE RadioStep
  <2>1. QuietSessions /\ UNCHANGED satVars
    BY <1>2, <1>5 DEF RadioStep, groundVars
  <2>2. Thinned
    BY <1>1, <1>5, DamagedIsThinned, SameIsThinned DEF RadioStep, LinkStep, LoseControl
  <2> QED
    BY <2>1, <2>2
<1>6. CASE TimeStep
  BY <1>1, <1>2, <1>6, SameIsThinned DEF TimeStep, Tick
<1>7. CASE Mishap
  <2>1. CASE SatelliteRestart /\ UNCHANGED groundVars
    BY <2>1
  <2>2. CASE GroundRestart /\ UNCHANGED satVars
    BY <1>1, <2>2, SameIsThinned DEF GroundRestart, QuietSessions
  <2>3. CASE SessionExpires /\ UNCHANGED satVars
    <3>1. PICK s \in DOMAIN sessions : sessions' = [sessions EXCEPT ![s] = "expired"]
      BY <2>3 DEF SessionExpires
    <3>2. QuietSessions
      BY <1>1, <2>3, <3>1 DEF SessionExpires, QuietSessions, SessionsOK
    <3> QED
      BY <1>1, <2>3, <3>2, SameIsThinned DEF SessionExpires
  <2> QED
    BY <1>7, <2>1, <2>2, <2>3 DEF Mishap
<1>8. CASE UNCHANGED vars
  BY <1>1, <1>2, <1>8, SameIsThinned DEF vars, linkVars, groundVars
<1> QED
  BY <1>3, <1>4, <1>5, <1>6, <1>7, <1>8 DEF Next

\* The ground never keeps a finished message: whatever becomes complete is processed in
\* the same step, in any order of chunks, repeats and damage.
THEOREM NothingHeld == Spec => []NothingFinishedIsHeld
<1>1. Init => NothingFinishedIsHeld
  BY DEF Init, GroundInit, NothingFinishedIsHeld
<1>2. IndInv /\ NothingFinishedIsHeld /\ [Next]_vars => NothingFinishedIsHeld'
  <2> SUFFICES ASSUME IndInv, NothingFinishedIsHeld, [Next]_vars
               PROVE  NothingFinishedIsHeld'
    OBVIOUS
  <2>1. CASE GroundStep
    <3>1. CASE CollectChunk
      <4>1. Frame \in ChunkFrames /\ Frame.key \in MessageKeys \cup DamagedKeys
        BY <3>1, FrameIsFirst DEF CollectChunk, IndInv
      <4> QED
        BY <3>1, <4>1, CollectedKeeps DEF CollectChunk, CompletesMessage
    <3>2. CASE TakeMessage
      BY <3>2, HeldBuffers, HeldKeeps DEF TakeMessage
    <3>3. CASE GroundIdle
      BY <2>1, <3>3, IdleKeeps, HeldKeeps DEF GroundStep
    <3> QED
      BY <2>1, <3>1, <3>2, <3>3
         DEF GroundStep, GroundProgram, HandleFrame, RejectGarbled, OpenSession, AckKnownSession,
             RefuseTelemetry, AcceptTelemetry
  <2>2. CASE TimeStep
    BY <2>2, TimeKeeps, HeldKeeps DEF TimeStep
  <2>3. CASE Mishap
    <3>1. CASE SatelliteRestart /\ UNCHANGED groundVars
      BY <3>1 DEF groundVars, NothingFinishedIsHeld
    <3>2. CASE (GroundRestart \/ SessionExpires) /\ UNCHANGED satVars
      BY <3>2, TimeKeeps, HeldKeeps
    <3> QED
      BY <2>3, <3>1, <3>2 DEF Mishap
  <2>4. CASE SatStep \/ RadioStep \/ UNCHANGED vars
    BY <2>4 DEF SatStep, RadioStep, vars, groundVars, NothingFinishedIsHeld
  <2> QED
    BY <2>1, <2>2, <2>3, <2>4 DEF Next
<1> QED
  BY Inductive, <1>1, <1>2, PTL DEF Spec

\* A replay window that is not new ends with a number that is logged.
WindowEndsLogged ==
    \A s \in DOMAIN sessions :
        \/ replay_windows[s] = NewWindow
        \/ \E j \in 1..Len(log) : log[j] = <<s, replay_windows[s].max_seq>>

\* With a feature log that can be written, window and log agree: the window of a session
\* ends with the last message logged in it.
THEOREM WindowFollows ==
    ASSUME "log" \notin Failures
    PROVE  Spec => []WindowFollowsLog
<1>1. Init => WindowEndsLogged
  BY DEF Init, GroundInit, WindowEndsLogged
<1>2. IndInv /\ WindowEndsLogged /\ [Next]_vars => WindowEndsLogged'
  <2> SUFFICES ASSUME IndInv, WindowEndsLogged, [Next]_vars
               PROVE  WindowEndsLogged'
    OBVIOUS
  <2>1. SessionsOK
    BY DEF IndInv, TypeOK
  <2>2. CASE UNCHANGED groundVars \/ QuietSessions
    BY <2>2 DEF groundVars, QuietSessions, WindowEndsLogged
  <2>3. CASE OpenSession
    BY <2>1, <2>3 DEF OpenSession, Set, WindowEndsLogged, SessionsOK
  <2>4. CASE AcceptTelemetry /\ UNCHANGED satVars
    <3>1. log' = Append(log, <<Sid, Mid>>) /\ UNCHANGED sessions
      BY <2>4 DEF AcceptTelemetry
    <3>2. log \in Seq(Sids \X (1..MaxSequence)) /\ Len(log) \in Nat
      BY <2>1, LenProperties DEF SessionsOK
    <3>3. /\ Sid \in Sids /\ Mid \in 1..MaxSequence /\ TakeMessage /\ ~Garbled /\ Mid # NoMid
      BY <2>4, GoodMessage DEF AcceptTelemetry
    <3>4. /\ Len(log') = Len(log) + 1 /\ log'[Len(log) + 1] = <<Sid, Mid>>
          /\ \A j \in 1..Len(log) : log'[j] = log[j]
      <4>1. <<Sid, Mid>> \in Sids \X (1..MaxSequence)
        BY <3>3
      <4> QED
        BY <3>1, <3>2, <4>1, AppendProperties
    <3>5. /\ Sid \in DOMAIN sessions
          /\ DOMAIN replay_windows' = DOMAIN sessions
          /\ replay_windows'[Sid] = Record(replay_windows[Sid], Mid)
          /\ \A s \in DOMAIN sessions \ {Sid} : replay_windows'[s] = replay_windows[s]
      BY <2>1, <2>4 DEF AcceptTelemetry, UsableSession, Set, SessionsOK
    <3>6. Record(replay_windows[Sid], Mid).max_seq = Mid
      <4>1. /\ replay_windows[Sid] \in Windows /\ Accepts(replay_windows[Sid], Mid)
            /\ replay_windows[Sid].max_seq # -1 => 0 \in replay_windows[Sid].seen_mask
        BY <2>1, <2>4, <3>5
           DEF SessionsOK, AcceptTelemetry, IndInv, WireInv, WindowsRemember
      <4>2. replay_windows[Sid].max_seq <= Mid
        BY <3>3, <3>5, GoodMessage DEF IndInv, WireInv, ArrivalsAreNew, Sid
      <4> QED
        BY <3>3, <4>1, <4>2, AcceptedIsNewest
    <3>7. ASSUME NEW s \in DOMAIN sessions
          PROVE  \/ replay_windows'[s] = NewWindow
                 \/ \E j \in 1..Len(log') : log'[j] = <<s, replay_windows'[s].max_seq>>
      <4>1. CASE s = Sid
        <5>1. Len(log) + 1 \in 1..Len(log') /\ log'[Len(log) + 1] = <<s, replay_windows'[s].max_seq>>
          BY <3>2, <3>4, <3>5, <3>6, <4>1
        <5> QED
          BY <5>1
      <4>2. CASE s # Sid
        <5>1. \A j \in 1..Len(log) : j \in 1..Len(log')
          BY <3>2, <3>4
        <5> QED
          BY <3>4, <3>5, <4>2, <5>1 DEF WindowEndsLogged
      <4> QED
        BY <4>1, <4>2
    <3> QED
      BY <3>1, <3>7 DEF WindowEndsLogged
  <2> QED
    BY <2>2, <2>3, <2>4, KindsOfSteps
<1>3. IndInv /\ WindowEndsLogged => WindowFollowsLog
  <2> SUFFICES ASSUME IndInv, WindowEndsLogged, NEW s \in DOMAIN sessions
               PROVE  LET seqs == {log[k][2] : k \in {j \in 1..Len(log) : log[j][1] = s}}
                      IN  IF seqs = {} THEN replay_windows[s] = NewWindow
                          ELSE replay_windows[s].max_seq = Max(seqs)
    BY DEF WindowFollowsLog
  <2> DEFINE seqs == {log[k][2] : k \in {j \in 1..Len(log) : log[j][1] = s}}
             top == replay_windows[s].max_seq
  <2>1. top \in Int /\ \A j \in 1..Len(log) : log[j][2] \in Nat
    BY ElementOfSeq DEF IndInv, TypeOK, SessionsOK, Windows
  <2>2. \A n \in seqs : n \in Nat /\ n <= top
    BY <2>1 DEF IndInv, WireInv, WindowsRemember
  <2>3. CASE seqs = {}
    <3>1. ASSUME NEW j \in 1..Len(log), log[j] = <<s, top>>
          PROVE  FALSE
      <4>1. j \in {k \in 1..Len(log) : log[k][1] = s}
        BY <3>1
      <4>2. log[j][2] \in seqs
        BY <4>1
      <4> QED
        BY <2>3, <4>2
    <3> QED
      BY <2>3, <3>1 DEF WindowEndsLogged
  <2>4. CASE seqs # {}
    <3>1. replay_windows[s] # NewWindow
      BY <2>1, <2>2, <2>4 DEF NewWindow
    <3>2. PICK j \in 1..Len(log) : log[j] = <<s, top>>
      BY <3>1 DEF WindowEndsLogged
    <3>3. top \in seqs
      BY <3>2
    <3> HIDE DEF seqs, top
    <3>4. /\ Max(seqs) \in seqs
          /\ \A n \in seqs : Max(seqs) >= n
      BY <2>2, <3>3 DEF Max
    <3>5. Max(seqs) = top
      <4>1. \A m \in Nat : m <= top /\ m >= top => m = top
        BY <2>1
      <4> QED
        BY <2>2, <3>3, <3>4, <4>1
    <3> QED
      BY <2>4, <3>5 DEF seqs, top
  <2> QED
    BY <2>3, <2>4
<1> QED
  BY Inductive, <1>1, <1>2, <1>3, PTL DEF Spec

\* Sessions the ground no longer takes telemetry in stay so, whatever the satellite resends.
THEOREM LostStayLost == Spec => LostSessionsStayLost
<1>1. IndInv /\ [Next]_vars =>
        [\A s \in 1..sid : Lost(s) => Lost(s)' /\ LoggedIn(s)' = LoggedIn(s)]_vars
  <2> SUFFICES ASSUME IndInv, [Next]_vars, NEW s \in 1..sid, Lost(s)
               PROVE  Lost(s)' /\ LoggedIn(s)' = LoggedIn(s)
    OBVIOUS
  <2>1. TypeOK /\ SatInv /\ SessionsOK /\ s \in Nat /\ sid \in Nat
    BY DEF IndInv, TypeOK, SatInv, SatTypeOK
  <2>2. /\ ~(s \in DOMAIN sessions /\ sessions[s] = "active")
        /\ ~(phase = "si_wait" /\ sid = s)
        /\ \A k \in 1..Len(up) : up[k].key # MakeKey(s, NoMid)
    BY DEF Lost
  <2>3. CASE SatProgram /\ UNCHANGED groundVars
    <3>1. UNCHANGED <<sessions, log>> /\ Move
      BY <2>1, <2>3, SatSteps DEF groundVars
    <3>2. ~(phase' = "si_wait" /\ sid' = s)
      BY <2>1, <2>2, <3>1 DEF Move, Begins, Listens, Agrees, Waits, Concludes
    <3>3. ASSUME NEW k \in 1..Len(up'), up'[k].key = MakeKey(s, NoMid)
          PROVE  FALSE
      <4>1. up'[k].key = MakeKey(sid', MidInHand)
        BY <2>1, <2>2, <2>3, <3>3, SentIsInHand
      <4>2. sid' = s /\ MidInHand = NoMid
        <5>1. MakeKey(s, NoMid).sid = s /\ MakeKey(sid', MidInHand).sid = sid'
              /\ MakeKey(s, NoMid).mid = NoMid /\ MakeKey(sid', MidInHand).mid = MidInHand
          BY DEF MakeKey
        <5> QED
          BY <3>3, <4>1, <5>1
      <4>3. phase \notin {"tc_send", "tc_wait"}
        BY <2>1, <4>2, SatelliteAssumption DEF MidInHand, SatInv, SatTypeOK
      <4> QED
        BY <2>1, <2>2, <3>1, <4>2, <4>3 DEF Move, Begins, Listens, Agrees, Waits, Concludes
    <3> QED
      BY <2>2, <3>1, <3>2, <3>3 DEF Lost, LoggedIn, MakeKey
  <2>4. CASE SatelliteRestart /\ UNCHANGED groundVars
    BY <2>2, <2>4 DEF SatelliteRestart, groundVars, Lost, LoggedIn, MakeKey
  <2>5. ASSUME Thinned
        PROVE  \A k \in 1..Len(up') : up'[k].key # MakeKey(s, NoMid)
    BY <2>2, <2>5 DEF Thinned, MakeKey
  <2>6. CASE UNCHANGED satVars /\ QuietSessions /\ Thinned
    <3>1. ~(s \in DOMAIN sessions' /\ sessions'[s] = "active") /\ UNCHANGED log
      BY <2>2, <2>6 DEF QuietSessions
    <3> QED
      BY <2>2, <2>5, <2>6, <3>1 DEF Lost, LoggedIn, satVars, MakeKey
  <2>7. CASE UNCHANGED satVars /\ OpenSession
    <3>1. TakeMessage /\ ~Garbled /\ Mid = NoMid /\ UNCHANGED log
      BY <2>7 DEF OpenSession
    <3>2. Sid # s
      <4>1. 1 \in 1..Len(up) /\ up[1].key = MakeKey(Sid, Mid)
        BY <2>1, <3>1, FrameIsFirst DEF TakeMessage, MakeKey
      <4> QED
        BY <2>2, <3>1, <4>1
    <3>3. sessions' = Set(sessions, Sid, NewReceiverSession) /\ Reply(AckIt)
      BY <2>7 DEF OpenSession
    <3>4. ~(s \in DOMAIN sessions' /\ sessions'[s] = "active")
      BY <2>2, <3>2, <3>3 DEF Set
    <3>5. Thinned
      BY <2>1, <2>7, HandledIsThinned
    <3> QED
      BY <2>2, <2>5, <2>7, <3>1, <3>4, <3>5 DEF Lost, LoggedIn, satVars, MakeKey
  <2>8. CASE UNCHANGED satVars /\ AcceptTelemetry
    <3>1. /\ TakeMessage /\ ~Garbled /\ Sid # s /\ UNCHANGED sessions
          /\ UNCHANGED log \/ log' = Append(log, <<Sid, Mid>>)
      BY <2>2, <2>8 DEF AcceptTelemetry, UsableSession
    <3>2. Sid \in Sids /\ Mid \in 1..MaxSequence
      BY <2>8, AcceptKeeps, GoodMessage, <3>1
    <3>3. LoggedIn(s)' = LoggedIn(s)
      <4>1. CASE log' = Append(log, <<Sid, Mid>>)
        <5>1. log \in Seq(Sids \X (1..MaxSequence)) /\ <<Sid, Mid>> \in Sids \X (1..MaxSequence)
              /\ Len(log) \in Nat
          BY <2>1, <3>2, LenProperties DEF SessionsOK
        <5>2. /\ Len(log') = Len(log) + 1 /\ log'[Len(log) + 1] = <<Sid, Mid>>
              /\ \A j \in 1..Len(log) : log'[j] = log[j]
          BY <4>1, <5>1, AppendProperties
        <5>3. log'[Len(log) + 1][1] # s
          BY <3>1, <5>2
        <5> QED
          BY <5>1, <5>2, <5>3 DEF LoggedIn
      <4>2. CASE UNCHANGED log
        BY <4>2 DEF LoggedIn
      <4> QED
        BY <3>1, <4>1, <4>2
    <3>4. Thinned
      BY <2>1, <2>8, HandledIsThinned
    <3> QED
      BY <2>2, <2>5, <2>8, <3>1, <3>3, <3>4 DEF Lost, satVars, MakeKey
  <2> QED
    BY <2>3, <2>4, <2>6, <2>7, <2>8, KindsOfSteps
<1> QED
  BY Inductive, <1>1, PTL DEF Spec, LostSessionsStayLost

-----------------------------------------------------------------------------
\* Messages get their verdicts one after the other: in the session in hand those before
\* the message in hand have one, and a new session has none.
JudgedSoFar ==
    /\ \A v \in verdicts :
          /\ v[1] <= sid
          /\ v[1] = sid => phase = "boot" \/ (phase \in {"tc_send", "tc_wait"} /\ v[2] < sequence)
    /\ phase \in {"tc_send", "tc_wait"} =>
          \A m \in 1..(sequence - 1) : Delivery!Concluded(sid, m)

\* A telemetry chunk that was not misread is of a message that was in hand.
ArrivalsWereOffered ==
    \A k \in 1..Len(up) :
        Good(k) /\ up[k].key.mid # NoMid => Delivery!Offered(up[k].key.sid, up[k].key.mid)

OfferedInv == JudgedSoFar /\ ArrivalsWereOffered

\* The satellite's steps keep the order of its verdicts.
LEMMA JudgedKept ==
    ASSUME SatInv, JudgedSoFar, Move
    PROVE  JudgedSoFar' /\ verdicts \subseteq verdicts'
<1>1. /\ sid \in Nat /\ sequence \in Nat \ {0}
      /\ verdicts \subseteq (1..MaxSessions) \X (1..MaxSequence) \X {"ok", "fail"}
  BY DEF SatInv, SatTypeOK
<1>2. CASE Begins
  <2>1. sid' = sid + 1 /\ phase' = "si_wait" /\ UNCHANGED verdicts
    BY <1>2 DEF Begins
  <2>2. \A v \in verdicts : v[1] <= sid /\ v[1] \in Nat
    BY <1>1 DEF JudgedSoFar
  <2> QED
    BY <1>1, <2>1, <2>2 DEF JudgedSoFar
<1>3. CASE Listens
  BY <1>3 DEF Listens, JudgedSoFar
<1>4. CASE Agrees
  BY <1>4 DEF Agrees, JudgedSoFar
<1>5. CASE Waits
  BY <1>5 DEF Waits, JudgedSoFar, Delivery!Concluded
<1>6. ASSUME NEW outcome \in {"ok", "fail"}, Concludes(outcome)
      PROVE  JudgedSoFar' /\ verdicts \subseteq verdicts'
  <2>1. /\ phase \in {"tc_send", "tc_wait"} /\ phase' = "tc_send" /\ sid' = sid
        /\ sequence' = sequence + 1
        /\ verdicts' = verdicts \cup {<<sid, sequence, outcome>>}
    BY <1>6 DEF Concludes
  <2>2. ASSUME NEW v \in verdicts'
        PROVE  v[1] <= sid /\ (v[1] = sid => v[2] < sequence + 1)
    <3>1. CASE v \in verdicts
      <4>1. v[2] \in Nat
        BY <1>1, <3>1
      <4> QED
        BY <1>1, <2>1, <3>1, <4>1 DEF JudgedSoFar
    <3>2. CASE v = <<sid, sequence, outcome>>
      BY <1>1, <3>2
    <3> QED
      BY <2>1, <3>1, <3>2
  <2>3. ASSUME NEW m \in 1..((sequence + 1) - 1)
        PROVE  Delivery!Concluded(sid, m)'
    <3>1. CASE m = sequence
      BY <2>1, <3>1 DEF Delivery!Concluded
    <3>2. CASE m # sequence
      <4>1. m \in 1..(sequence - 1)
        BY <1>1, <3>2
      <4>2. Delivery!Concluded(sid, m)
        BY <2>1, <4>1 DEF JudgedSoFar
      <4> QED
        BY <2>1, <4>2 DEF Delivery!Concluded
    <3> QED
      BY <3>1, <3>2
  <2>4. \A m \in 1..(sequence' - 1) : Delivery!Concluded(sid, m)'
    BY <2>1, <2>3
  <2> QED
    BY <2>1, <2>2, <2>4 DEF JudgedSoFar, Delivery!Concluded
<1> QED
  BY <1>2, <1>3, <1>4, <1>5, <1>6 DEF Move, Begins, Listens, Agrees, Waits

\* Every step keeps the order of the verdicts, and what arrives within what was in hand.
LEMMA OfferedKept ==
    ASSUME IndInv, OfferedInv, [Next]_vars
    PROVE  OfferedInv'
<1>1. SatInv /\ TypeOK
  BY DEF IndInv
<1>2. CASE SatProgram /\ UNCHANGED groundVars
  <2>1. Move
    BY <1>1, <1>2, SatSteps
  <2>2. JudgedSoFar' /\ verdicts \subseteq verdicts'
    BY <1>1, <2>1, JudgedKept DEF OfferedInv
  <2>3. ASSUME NEW k \in 1..Len(up'), up'[k].d = "good", up'[k].key.mid # NoMid
        PROVE  Delivery!Offered(up'[k].key.sid, up'[k].key.mid)
    <3>1. CASE k \in 1..Len(up) /\ up'[k] = up[k]
      BY <2>3, <3>1 DEF OfferedInv, ArrivalsWereOffered, Good
    <3>2. CASE up'[k].key = MakeKey(sid', MidInHand)
      <4>1. up'[k].key.sid = sid' /\ up'[k].key.mid = MidInHand /\ MidInHand # NoMid
        BY <2>3, <3>2 DEF MakeKey
      <4>2. phase \in {"tc_send", "tc_wait"} /\ MidInHand = sequence /\ sequence \in Nat \ {0}
        BY <1>1, <4>1 DEF MidInHand, SatInv, SatTypeOK
      <4>3. sid' = sid
        BY <2>1, <4>2 DEF Move, Begins, Listens, Agrees, Waits, Concludes
      <4>4. sequence = 1 \/ sequence - 1 \in 1..(sequence - 1)
        BY <4>2
      <4> QED
        BY <4>1, <4>2, <4>3, <4>4 DEF OfferedInv, JudgedSoFar, Delivery!Offered
    <3> QED
      BY <1>1, <1>2, <3>1, <3>2, SentIsInHand
  <2>4. ArrivalsWereOffered'
    <3> SUFFICES ASSUME NEW k \in 1..Len(up'), up'[k].d = "good", up'[k].key.mid # NoMid
                 PROVE  Delivery!Offered(up[k].key.sid, up[k].key.mid)'
      BY DEF ArrivalsWereOffered, Good
    <3>1. Delivery!Offered(up'[k].key.sid, up'[k].key.mid)
      BY <2>3
    <3> QED
      BY <2>2, <3>1 DEF Delivery!Concluded, Delivery!Offered
  <2> QED
    BY <2>2, <2>4 DEF OfferedInv
<1>3. CASE SatelliteRestart /\ UNCHANGED groundVars
  BY <1>3 DEF SatelliteRestart, OfferedInv, JudgedSoFar, ArrivalsWereOffered, Good,
              Delivery!Concluded, Delivery!Offered
<1>4. CASE UNCHANGED satVars /\ Thinned
  <2>1. JudgedSoFar'
    BY <1>4 DEF satVars, OfferedInv, JudgedSoFar, Delivery!Concluded
  <2>2. PICK n \in Nat :
           \A k \in 1..Len(up') :
              k + n \in 1..Len(up) /\ (Good(k)' => Good(k + n) /\ up'[k].key = up[k + n].key)
    BY <1>4 DEF Thinned
  <2>3. ArrivalsWereOffered'
    <3> SUFFICES ASSUME NEW k \in 1..Len(up'), Good(k)', up'[k].key.mid # NoMid
                 PROVE  Delivery!Offered(up[k].key.sid, up[k].key.mid)'
      BY DEF ArrivalsWereOffered
    <3>1. Delivery!Offered(up'[k].key.sid, up'[k].key.mid)
      BY <2>2 DEF OfferedInv, ArrivalsWereOffered
    <3> QED
      BY <1>4, <3>1 DEF satVars, Delivery!Concluded, Delivery!Offered
  <2> QED
    BY <2>1, <2>3 DEF OfferedInv
<1> QED
  BY <1>1, <1>2, <1>3, <1>4, KindsOfSteps, HandledIsThinned

\* The invariant of the link and of the order in which messages are in hand.
THEOREM OfferedInOrder == Spec => [](IndInv /\ OfferedInv)
<1>1. Init => OfferedInv
  BY DEF Init, LinkInit, SatInit, OfferedInv, JudgedSoFar, ArrivalsWereOffered
<1>2. IndInv /\ OfferedInv /\ [Next]_vars => OfferedInv'
  BY OfferedKept
<1> QED
  BY Inductive, <1>1, <1>2, PTL DEF Spec

-----------------------------------------------------------------------------
\* A step of the satellite is one of TelemetryDelivery's, or none of them.
LEMMA SatelliteDelivers ==
    ASSUME IndInv, OfferedInv, SatProgram, UNCHANGED groundVars
    PROVE  [Delivery!Next]_(Delivery!vars)
<1> USE DEF Delivery!Next, Delivery!vars, offeredMap
<1>1. SatInv /\ TypeOK /\ Move /\ UNCHANGED <<opened, log>>
  BY SatSteps DEF IndInv, groundVars
<1>2. sid \in Nat /\ sequence \in Nat \ {0} /\ sequence # NoMid
  BY <1>1, SatelliteAssumption DEF SatInv, SatTypeOK
<1>3. down # <<>> => 1 \in 1..Len(down) /\ Control = down[1]
  BY <1>1, EmptySeq, LenProperties DEF TypeOK, LinkTypeOK, Control
<1>4. CASE Begins
  <2>1. Delivery!StartSession
    BY <1>1, <1>4 DEF Begins, Delivery!StartSession
  <2> QED
    BY <2>1
<1>5. CASE Listens \/ Waits
  BY <1>1, <1>5 DEF Listens, Waits
<1>6. CASE Agrees
  <2>1. sid \in opened
    BY <1>3, <1>6 DEF Agrees, IndInv, AcksAreEarned
  <2>2. \A v \in verdicts : v[1] # sid
    BY <1>6 DEF Agrees, OfferedInv, JudgedSoFar
  <2>3. Delivery!AgreeSession
    BY <1>1, <1>6, <2>1, <2>2 DEF Agrees, Delivery!AgreeSession
  <2> QED
    BY <2>3
<1>7. ASSUME NEW outcome \in {"ok", "fail"}, Concludes(outcome)
      PROVE  Delivery!Conclude(outcome)
  <2>1. outcome = "ok" => <<sid, sequence>> \in Delivery!Logged
    <3> SUFFICES ASSUME outcome = "ok"
                 PROVE  <<sid, sequence>> \in Delivery!Logged
      OBVIOUS
    <3>1. down[1].t = "ack" /\ down[1].sid = sid /\ down[1].mid = sequence /\ 1 \in 1..Len(down)
      BY <1>3, <1>7 DEF Concludes
    <3>2. \E j \in 1..Len(log) : log[j] = <<sid, sequence>>
      BY <1>2, <3>1 DEF IndInv, AcksAreEarned
    <3> QED
      BY <3>2 DEF Delivery!Logged
  <2> QED
    BY <1>1, <1>2, <1>7, <2>1 DEF Concludes, Delivery!Conclude
<1> QED
  BY <1>1, <1>4, <1>5, <1>6, <1>7 DEF Move

\* A step of the ground, of the radio or of time opens a session, logs a message, or is none.
LEMMA GroundDelivers ==
    ASSUME IndInv, OfferedInv, UNCHANGED satVars, OpenSession \/ AcceptTelemetry \/ QuietSessions
    PROVE  [Delivery!Next]_(Delivery!vars)
<1> USE DEF Delivery!Next, Delivery!vars, offeredMap
<1>1. UNCHANGED <<sid, offeredMap, verdicts>> /\ sid \in Nat
  BY DEF satVars, IndInv, SatInv, SatTypeOK
<1>2. CASE OpenSession
  <2>1. TakeMessage /\ ~Garbled /\ opened' = opened \cup {Sid} /\ UNCHANGED log
    BY <1>2 DEF OpenSession
  <2>2. Sid \in 1..sid
    <3>1. 1 \in 1..Len(up) /\ Sid = up[1].key.sid /\ Sid \in Sids
      BY <2>1, GoodMessage DEF Sid
    <3>2. Sid <= sid
      BY <3>1 DEF IndInv, WireInv, NothingAhead, WireNotAhead
    <3> QED
      BY <1>1, <3>1, <3>2 DEF Sids
  <2>3. Delivery!OpenSession(Sid)
    BY <1>1, <2>1 DEF Delivery!OpenSession
  <2> QED
    BY <2>2, <2>3
<1>3. CASE AcceptTelemetry
  <2>1. CASE UNCHANGED log
    BY <1>1, <1>3, <2>1 DEF AcceptTelemetry
  <2>2. CASE log' = Append(log, <<Sid, Mid>>)
    <3>1. /\ Sid \in opened /\ Sid <= sid /\ Mid \in 1..MaxSequence
          /\ \A j \in 1..Len(log) : log[j][1] = Sid => log[j][2] < Mid
      BY <1>3, AcceptKeeps
    <3>2. Sid \in 1..sid
      BY <1>1, <3>1 DEF IndInv, TypeOK, SessionsOK, Sids
    <3>3. Delivery!Offered(Sid, Mid)
      <4>1. Mid # NoMid /\ TakeMessage /\ ~Garbled
        BY <1>3 DEF AcceptTelemetry
      <4>2. 1 \in 1..Len(up) /\ Good(1) /\ Sid = up[1].key.sid /\ Mid = up[1].key.mid
        BY <4>1, GoodMessage DEF Sid, Mid
      <4> QED
        BY <4>1, <4>2 DEF OfferedInv, ArrivalsWereOffered
    <3>4. Delivery!LogMessage(Sid, Mid)
      BY <1>1, <1>3, <2>2, <3>1, <3>3 DEF AcceptTelemetry, Delivery!LogMessage
    <3> QED
      BY <3>1, <3>2, <3>4
  <2> QED
    BY <1>3, <2>1, <2>2 DEF AcceptTelemetry
<1>4. CASE QuietSessions
  BY <1>1, <1>4 DEF QuietSessions
<1> QED
  BY <1>2, <1>3, <1>4

\* The two programs over the link implement the abstract promise: each message is logged at
\* most once, in order and after it was in hand, only in a session both agreed on, and is
\* called delivered only if it was logged.
THEOREM Refinement == Spec => ImplementsDelivery
<1>1. Init => Delivery!Init
  BY DEF Init, SatInit, GroundInit, Delivery!Init, offeredMap
<1>2. IndInv /\ OfferedInv /\ [Next]_vars => [Delivery!Next]_(Delivery!vars)
  <2> SUFFICES ASSUME IndInv, OfferedInv, [Next]_vars
               PROVE  [Delivery!Next]_(Delivery!vars)
    OBVIOUS
  <2>1. CASE SatelliteRestart /\ UNCHANGED groundVars
    <3>1. Delivery!Abandon
      BY <2>1 DEF SatelliteRestart, groundVars, Delivery!Abandon, offeredMap
    <3> QED
      BY <3>1 DEF Delivery!Next
  <2> QED
    BY <2>1, KindsOfSteps, SatelliteDelivers, GroundDelivers
<1> QED
  BY OfferedInOrder, <1>1, <1>2, PTL DEF Spec, ImplementsDelivery, Delivery!Spec

-----------------------------------------------------------------------------
\* What is inductive of TelemetryDelivery: types, that the messages of the session in
\* hand have their verdicts up to the one in hand, and the promises themselves.
Pending ==
    /\ \A v \in verdicts : /\ v[1] <= sid
                           /\ v[1] = sid /\ offeredMap > 0 => v[2] < offeredMap
    /\ \A m \in 1..(offeredMap - 1) : Delivery!Concluded(sid, m)

PromiseInv ==
    /\ sid \in Nat /\ offeredMap \in Nat
    /\ log \in Seq(Nat \X Nat)
    /\ verdicts \subseteq Nat \X Nat \X {"ok", "fail"}
    /\ Pending
    /\ Delivery!Promises

\* Logging a message that was in hand, above those logged of its session, breaks no promise.
LEMMA LoggingKeepsPromises ==
    ASSUME PromiseInv, NEW s \in Nat, NEW m \in Nat, Delivery!LogMessage(s, m)
    PROVE  PromiseInv'
<1>1. /\ log' = Append(log, <<s, m>>) /\ Delivery!Offered(s, m)
      /\ UNCHANGED <<sid, offeredMap, verdicts>>
      /\ \A k \in 1..Len(log) : log[k][1] = s => log[k][2] < m
  BY DEF Delivery!LogMessage
<1>2. /\ log' \in Seq(Nat \X Nat) /\ Len(log) \in Nat /\ Len(log') = Len(log) + 1
      /\ log'[Len(log) + 1] = <<s, m>>
      /\ \A k \in 1..Len(log) : log'[k] = log[k]
  <2>1. <<s, m>> \in Nat \X Nat /\ log \in Seq(Nat \X Nat)
    BY DEF PromiseInv
  <2> QED
    BY <1>1, <2>1, AppendProperties, LenProperties
<1>3. \A k \in 1..Len(log') : k \in 1..Len(log) \/ k = Len(log) + 1
  BY <1>2
<1>4. Delivery!LoggedOnceInOrder'
  <2> SUFFICES ASSUME NEW j \in 1..Len(log'), NEW k \in 1..Len(log'), j < k,
                      log'[j][1] = log'[k][1]
               PROVE  log'[j][2] < log'[k][2]
    BY DEF Delivery!LoggedOnceInOrder
  <2>1. j \in 1..Len(log)
    BY <1>2
  <2>2. CASE k \in 1..Len(log)
    BY <1>2, <2>1, <2>2 DEF PromiseInv, Delivery!Promises, Delivery!LoggedOnceInOrder
  <2>3. CASE k = Len(log) + 1
    <3>1. log'[k][1] = s /\ log'[k][2] = m /\ log'[j] = log[j]
      BY <1>2, <2>1, <2>3
    <3> QED
      BY <1>1, <2>1, <3>1
  <2> QED
    BY <1>3, <2>2, <2>3
<1>5. Delivery!LoggedWasOffered'
  <2> SUFFICES ASSUME NEW k \in 1..Len(log')
               PROVE  Delivery!Offered(log[k][1], log[k][2])'
    BY DEF Delivery!LoggedWasOffered
  <2>1. Delivery!Offered(log'[k][1], log'[k][2])
    <3>1. CASE k \in 1..Len(log)
      BY <1>2, <3>1 DEF PromiseInv, Delivery!Promises, Delivery!LoggedWasOffered
    <3>2. CASE k = Len(log) + 1
      BY <1>1, <1>2, <3>2
    <3> QED
      BY <1>3, <3>1, <3>2
  <2> QED
    BY <1>1, <2>1 DEF Delivery!Offered, Delivery!Concluded
<1>6. Delivery!DeliveredIsLogged'
  <2> SUFFICES ASSUME NEW v \in verdicts, v[3] = "ok"
               PROVE  <<v[1], v[2]>> \in Delivery!Logged'
    BY <1>1 DEF Delivery!DeliveredIsLogged
  <2>1. PICK k \in 1..Len(log) : log[k] = <<v[1], v[2]>>
    BY DEF PromiseInv, Delivery!Promises, Delivery!DeliveredIsLogged, Delivery!Logged
  <2>2. k \in 1..Len(log') /\ log'[k] = <<v[1], v[2]>>
    BY <1>2, <2>1
  <2> QED
    BY <2>2 DEF Delivery!Logged
<1>7. Delivery!OneVerdictEach'
  BY <1>1 DEF PromiseInv, Delivery!Promises, Delivery!OneVerdictEach, Delivery!Offered,
              Delivery!Concluded
<1> QED
  BY <1>1, <1>2, <1>4, <1>5, <1>6, <1>7
     DEF PromiseInv, Pending, Delivery!Promises, Delivery!Concluded

\* Nor does the verdict on the message in hand, which is not said to be delivered before
\* it is logged.
LEMMA ConcludingKeepsPromises ==
    ASSUME PromiseInv, NEW outcome \in {"ok", "fail"}, Delivery!Conclude(outcome)
    PROVE  PromiseInv'
<1> DEFINE verdict == <<sid, offeredMap, outcome>>
<1>1. /\ offeredMap > 0 /\ (outcome = "ok" => <<sid, offeredMap>> \in Delivery!Logged)
      /\ verdicts' = verdicts \cup {verdict}
      /\ offeredMap' = offeredMap + 1 /\ UNCHANGED <<sid, log>>
      /\ sid \in Nat /\ offeredMap \in Nat
  BY DEF Delivery!Conclude, PromiseInv
<1>2. /\ \A v \in verdicts : /\ v[1] \in Nat /\ v[2] \in Nat /\ v[1] <= sid
                             /\ v[1] = sid => v[2] < offeredMap
      /\ \A m \in 1..(offeredMap - 1) : Delivery!Concluded(sid, m)
  BY <1>1 DEF PromiseInv, Pending
<1>3. verdict[1] = sid /\ verdict[2] = offeredMap /\ verdict[3] = outcome
  OBVIOUS
<1> HIDE DEF verdict
<1>4. \E o \in {"ok", "fail"} : <<sid, offeredMap, o>> \in verdicts'
  BY <1>1 DEF verdict
<1>5. /\ \A s, m : Delivery!Concluded(s, m) => Delivery!Concluded(s, m)'
      /\ \A s, m : Delivery!Offered(s, m) => Delivery!Offered(s, m)'
  BY <1>1 DEF Delivery!Concluded, Delivery!Offered
<1>6. Pending'
  <2>1. ASSUME NEW v \in verdicts'
        PROVE  v[1] <= sid /\ (v[1] = sid => v[2] < offeredMap + 1)
    BY <1>1, <1>2, <1>3, <2>1
  <2>2. ASSUME NEW m \in 1..offeredMap
        PROVE  Delivery!Concluded(sid, m)'
    <3>1. CASE m = offeredMap
      BY <1>1, <1>4, <3>1 DEF Delivery!Concluded
    <3>2. CASE m # offeredMap
      <4>1. m \in 1..(offeredMap - 1)
        BY <1>1, <3>2
      <4>2. Delivery!Concluded(sid, m)
        BY <1>2, <4>1
      <4> QED
        BY <1>1, <4>2 DEF Delivery!Concluded
    <3> QED
      BY <3>1, <3>2
  <2>3. (offeredMap + 1) - 1 = offeredMap
    BY <1>1
  <2> QED
    BY <1>1, <2>1, <2>2, <2>3 DEF Pending, Delivery!Concluded
<1>7. Delivery!Offered(sid, offeredMap)
  <2>1. offeredMap = 1 \/ offeredMap - 1 \in 1..(offeredMap - 1)
    BY <1>1
  <2> QED
    BY <1>2, <2>1 DEF Delivery!Offered
<1>8. Delivery!OneVerdictEach'
  <2>1. ASSUME NEW v \in verdicts'
        PROVE  Delivery!Offered(v[1], v[2])'
    <3>1. Delivery!Offered(v[1], v[2])
      BY <1>1, <1>3, <1>7, <2>1
         DEF PromiseInv, Delivery!Promises, Delivery!OneVerdictEach
    <3> QED
      BY <1>1, <3>1 DEF Delivery!Offered, Delivery!Concluded
  <2>2. ASSUME NEW v \in verdicts', NEW w \in verdicts', v[1] = w[1], v[2] = w[2]
        PROVE  v = w
    <3>1. CASE v \in verdicts /\ w \in verdicts
      BY <2>2, <3>1 DEF PromiseInv, Delivery!Promises, Delivery!OneVerdictEach
    <3>2. \A x \in verdicts : ~(x[1] = verdict[1] /\ x[2] = verdict[2])
      BY <1>1, <1>2, <1>3
    <3> QED
      BY <1>1, <2>2, <3>1, <3>2
  <2> QED
    BY <2>1, <2>2 DEF Delivery!OneVerdictEach
<1>9. Delivery!DeliveredIsLogged'
  BY <1>1, <1>3 DEF PromiseInv, Delivery!Promises, Delivery!DeliveredIsLogged, Delivery!Logged
<1>10. Delivery!LoggedOnceInOrder' /\ Delivery!LoggedWasOffered'
  <2>1. Delivery!LoggedOnceInOrder'
    BY <1>1 DEF PromiseInv, Delivery!Promises, Delivery!LoggedOnceInOrder
  <2>2. \A k \in 1..Len(log) : Delivery!Offered(log[k][1], log[k][2])
    BY DEF PromiseInv, Delivery!Promises, Delivery!LoggedWasOffered
  <2>3. Delivery!LoggedWasOffered'
    BY <1>1, <2>2 DEF Delivery!LoggedWasOffered, Delivery!Offered, Delivery!Concluded
  <2> QED
    BY <2>1, <2>3
<1>11. verdicts' \subseteq Nat \X Nat \X {"ok", "fail"}
  BY <1>1 DEF PromiseInv, verdict
<1> QED
  BY <1>1, <1>6, <1>8, <1>9, <1>10, <1>11 DEF PromiseInv, Delivery!Promises

\* What TelemetryDelivery promises follows from its steps.
THEOREM DeliveryPromises == Delivery!Spec => []Delivery!Promises
<1>1. Delivery!Init => PromiseInv
  BY DEF Delivery!Init, PromiseInv, Pending, Delivery!Promises, Delivery!LoggedOnceInOrder,
         Delivery!LoggedWasOffered, Delivery!DeliveredIsLogged, Delivery!OneVerdictEach
<1>2. PromiseInv /\ [Delivery!Next]_(Delivery!vars) => PromiseInv'
  <2> SUFFICES ASSUME PromiseInv, Delivery!Next \/ UNCHANGED Delivery!vars
               PROVE  PromiseInv'
    OBVIOUS
  <2>1. ASSUME UNCHANGED <<log, verdicts>>
        PROVE  Delivery!Promises'
    BY <2>1 DEF PromiseInv, Delivery!Promises, Delivery!LoggedOnceInOrder,
                Delivery!LoggedWasOffered, Delivery!DeliveredIsLogged, Delivery!Logged,
                Delivery!OneVerdictEach, Delivery!Offered, Delivery!Concluded
  <2>2. CASE Delivery!StartSession
    <3>1. /\ sid' = sid + 1 /\ offeredMap' = 0 /\ UNCHANGED <<log, verdicts>>
          /\ \A v \in verdicts : v[1] \in Nat /\ v[1] <= sid
      BY <2>2 DEF Delivery!StartSession, PromiseInv, Pending
    <3> QED
      BY <2>1, <3>1 DEF PromiseInv, Pending
  <2>3. CASE Delivery!Abandon
    BY <2>1, <2>3 DEF Delivery!Abandon, PromiseInv, Pending
  <2>4. CASE Delivery!AgreeSession
    BY <2>1, <2>4 DEF Delivery!AgreeSession, PromiseInv, Pending
  <2>5. ASSUME NEW s \in 1..sid, Delivery!OpenSession(s)
        PROVE  PromiseInv'
    BY <2>1, <2>5 DEF Delivery!OpenSession, PromiseInv, Pending, Delivery!Concluded
  <2>6. ASSUME NEW s \in 1..sid, NEW m \in 1..MaxSequence, Delivery!LogMessage(s, m)
        PROVE  PromiseInv'
    BY <2>6, LoggingKeepsPromises
  <2>7. ASSUME NEW outcome \in {"ok", "fail"}, Delivery!Conclude(outcome)
        PROVE  PromiseInv'
    BY <2>7, ConcludingKeepsPromises
  <2>8. CASE UNCHANGED Delivery!vars
    BY <2>1, <2>8 DEF Delivery!vars, PromiseInv, Pending, Delivery!Concluded
  <2> QED
    BY <2>2, <2>3, <2>4, <2>5, <2>6, <2>7, <2>8 DEF Delivery!Next
<1>3. PromiseInv => Delivery!Promises
  BY DEF PromiseInv
<1> QED
  BY <1>1, <1>2, <1>3, PTL DEF Delivery!Spec

\* End to end, for the two programs over any link, with restarts of either: no message is
\* logged twice, out of order or before it was in hand, each gets at most one verdict, none
\* is passed over, and what the satellite calls delivered is in the feature log.
THEOREM PromisesKept == Spec => []Delivery!Promises
  BY Refinement, DeliveryPromises, PTL DEF ImplementsDelivery
=============================================================================
