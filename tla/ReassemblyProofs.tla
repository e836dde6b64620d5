-------------------------- MODULE ReassemblyProofs --------------------------
(***************************************************************************)
(* For every set of messages, every chunk validate_transport_packet()      *)
(* admits and every TTL: parts stay inside their buffer's total, counting  *)
(* them decides whether the message has a gap, and a buffer is exactly     *)
(* what was heard since it was opened.                                     *)
(***************************************************************************)
EXTENDS Reassembly, FiniteSetTheorems, TLAPS

\* A buffer of the factory.
IsBuffer(buf) ==
    /\ buf = [total |-> buf.total, parts |-> buf.parts, idle |-> buf.idle]
    /\ buf.total \in Nat \ {0}
    /\ buf.parts = [i \in DOMAIN buf.parts |-> buf.parts[i]]
    /\ DOMAIN buf.parts \subseteq 0..(buf.total - 1)
    /\ buf.idle \in 0..Overdue

BuffersOK == /\ DOMAIN buffers \subseteq Keys
             /\ buffers = [key \in DOMAIN buffers |-> buffers[key]]
             /\ \A key \in DOMAIN buffers : IsBuffer(buffers[key])

HeardOK == heard = [key \in Keys |-> heard[key]]

IndInv == BuffersOK /\ HeardOK /\ BufferIsItsHistory

-----------------------------------------------------------------------------
\* Counting decides: with indexes inside the total, as many parts as the total
\* says are all of them.
LEMMA CountDecides ==
    ASSUME NEW n \in Nat, NEW S, S \subseteq 0..(n - 1)
    PROVE  Cardinality(S) = n <=> 0..(n - 1) \ S = {}
<1>1. IsFiniteSet(0..(n - 1)) /\ Cardinality(0..(n - 1)) = n
  BY FS_Interval
<1>2. CASE 0..(n - 1) \ S = {}
  <2>1. S = 0..(n - 1)
    BY <1>2
  <2> QED
    BY <1>1, <1>2, <2>1
<1>3. CASE 0..(n - 1) \ S # {}
  <2>1. S # 0..(n - 1)
    BY <1>3
  <2>2. IsFiniteSet(S) /\ Cardinality(S) <= n /\ Cardinality(S) # n
    BY <1>1, <2>1, FS_Subset
  <2> QED
    BY <1>3, <2>2
<1> QED
  BY <1>2, <1>3

LEMMA OverdueIsTime == Overdue \in Nat /\ 0 \in 0..Overdue
  BY TtlAssumption DEF Overdue

\* What is left of good buffers after a flush is the same buffers, fewer of them.
LEMMA FlushedKeepsBuffers ==
    ASSUME BuffersOK
    PROVE  /\ DOMAIN Flushed(buffers) = DOMAIN buffers \ Stale(buffers)
           /\ \A key \in DOMAIN Flushed(buffers) : Flushed(buffers)[key] = buffers[key]
  BY DEF Flushed, Restrict, BuffersOK

\* The buffer a chunk goes to is a good one, whether it was there or is new.
LEMMA TargetIsBuffer ==
    ASSUME BuffersOK, NEW c \in Chunks
    PROVE  IsBuffer(Target(buffers, c))
<1>1. CASE c.key \in DOMAIN Flushed(buffers)
  BY <1>1, FlushedKeepsBuffers DEF Target, BuffersOK
<1>2. CASE c.key \notin DOMAIN Flushed(buffers)
  BY <1>2, ChunksAssumption, OverdueIsTime DEF Target, NewBuffer, IsBuffer
<1> QED
  BY <1>1, <1>2

\* A part is added inside the total that its chunk and its buffer agree on.
LEMMA WithPartIsBuffer ==
    ASSUME NEW buf, IsBuffer(buf), NEW c \in Chunks, ~WrongTotal(buf, c)
    PROVE  /\ IsBuffer(WithPart(buf, c))
           /\ WithPart(buf, c).total = buf.total
           /\ DOMAIN WithPart(buf, c).parts = DOMAIN buf.parts \cup {c.i}
           /\ \A i \in DOMAIN buf.parts : WithPart(buf, c).parts[i] = buf.parts[i]
           /\ c.i \notin DOMAIN buf.parts => WithPart(buf, c).parts[c.i] = c.d
<1> DEFINE parts == [i \in DOMAIN buf.parts \cup {c.i} |->
                       IF i \in DOMAIN buf.parts THEN buf.parts[i] ELSE c.d]
<1>1. WithPart(buf, c) = [total |-> buf.total, parts |-> parts, idle |-> 0]
  BY DEF WithPart
<1>2. c.i \in 0..(buf.total - 1)
  BY ChunksAssumption DEF WrongTotal
<1> QED
  BY <1>1, <1>2, OverdueIsTime DEF IsBuffer

\* The state of the buffers after add_chunk(), by its verdict.
LEMMA AddedBuffers ==
    ASSUME BuffersOK, NEW c \in Chunks, buffers' = Added(buffers, c)
    PROVE  BuffersOK'
<1> DEFINE verdict == Verdict(buffers, c)
<1>1. CASE verdict = "crc_fail"
  BY <1>1, FlushedKeepsBuffers DEF Added, BuffersOK, Flushed, Restrict
<1>2. CASE verdict \in {"mismatch", "conflict"}
  <2>1. buffers' = Without(Flushed(buffers), c.key)
    BY <1>2 DEF Added
  <2> QED
    BY <2>1, FlushedKeepsBuffers DEF BuffersOK, Without, Restrict
<1>3. CASE verdict \notin {"crc_fail", "mismatch", "conflict"}
  <2>1. buffers' = [key \in DOMAIN Flushed(buffers) \cup {c.key} |->
                      IF key = c.key THEN WithPart(Target(buffers, c), c) ELSE buffers[key]]
    BY <1>3 DEF Added
  <2>2. ~WrongTotal(Target(buffers, c), c)
    BY <1>3 DEF Verdict
  <2>3. IsBuffer(WithPart(Target(buffers, c), c))
    BY <2>2, TargetIsBuffer, WithPartIsBuffer
  <2>4. c.key \in Keys
    BY ChunksAssumption
  <2> QED
    BY <2>1, <2>3, <2>4, FlushedKeepsBuffers DEF BuffersOK
<1> QED
  BY <1>1, <1>2, <1>3

\* The history's view of a buffer: an index, the total and a fragment for each part.
Content(buf) == {<<i, buf.total, buf.parts[i]>> : i \in DOMAIN buf.parts}

\* Adding a part adds its fragment; a repeated one adds nothing.
LEMMA ContentGrows ==
    ASSUME NEW buf, IsBuffer(buf), NEW c \in Chunks,
           ~WrongTotal(buf, c), ~Conflicts(buf, c)
    PROVE  Content(WithPart(buf, c)) = Content(buf) \cup {Fragment(c)}
<1> DEFINE grown == WithPart(buf, c)
<1>1. /\ grown.total = buf.total /\ buf.total = c.n
      /\ DOMAIN grown.parts = DOMAIN buf.parts \cup {c.i}
      /\ \A i \in DOMAIN buf.parts : grown.parts[i] = buf.parts[i]
      /\ grown.parts[c.i] = c.d
  BY WithPartIsBuffer DEF WrongTotal, Conflicts
<1> HIDE DEF grown
<1>2. Content(grown) = {<<i, buf.total, grown.parts[i]>> : i \in DOMAIN buf.parts \cup {c.i}}
  BY <1>1 DEF Content
<1>3. \A i \in DOMAIN buf.parts :
         <<i, buf.total, grown.parts[i]>> = <<i, buf.total, buf.parts[i]>>
  BY <1>1
<1>4. Content(grown) = {<<i, buf.total, grown.parts[i]>> : i \in DOMAIN buf.parts}
                       \cup {<<c.i, buf.total, grown.parts[c.i]>>}
  BY <1>2
<1>5. {<<i, buf.total, grown.parts[i]>> : i \in DOMAIN buf.parts}
        = {<<i, buf.total, buf.parts[i]>> : i \in DOMAIN buf.parts}
  BY <1>3, Zenon
<1>6. <<c.i, buf.total, grown.parts[c.i]>> = Fragment(c)
  BY <1>1 DEF Fragment
<1>7. Content(buf) = {<<i, buf.total, buf.parts[i]>> : i \in DOMAIN buf.parts}
  BY DEF Content
<1> QED
  BY <1>4, <1>5, <1>6, <1>7 DEF grown

\* add_chunk() and its history go together.
LEMMA AddedHistory ==
    ASSUME IndInv, NEW c \in Chunks, AddChunk(c)
    PROVE  BufferIsItsHistory'
<1>1. BuffersOK /\ buffers' = Added(buffers, c) /\ c.key \in Keys
  BY ChunksAssumption DEF IndInv, AddChunk
<1>2. \A key \in Keys :
         heard[key] = IF key \in DOMAIN buffers THEN Content(buffers[key]) ELSE {}
  BY DEF IndInv, BufferIsItsHistory, Content
<1>3. \A key \in Keys :
         heard'[key] = IF key \notin DOMAIN buffers' THEN {}
                       ELSE (IF key \in Stale(buffers) THEN {} ELSE heard[key])
                            \cup (IF key = c.key /\ c.intact THEN {Fragment(c)} ELSE {})
  BY DEF AddChunk
<1> DEFINE live == Flushed(buffers)
<1>4. /\ DOMAIN live = DOMAIN buffers \ Stale(buffers)
      /\ \A key \in DOMAIN live : live[key] = buffers[key]
  BY <1>1, FlushedKeepsBuffers
<1>5. SUFFICES ASSUME NEW key \in Keys
               PROVE  heard'[key] = IF key \in DOMAIN buffers'
                                    THEN Content(buffers'[key]) ELSE {}
  BY DEF BufferIsItsHistory, Content
<1>6. key \in DOMAIN live => heard[key] = Content(buffers[key]) /\ key \notin Stale(buffers)
  BY <1>2, <1>4
<1>7. CASE ~c.intact
  <2>1. buffers' = live
    BY <1>1, <1>7 DEF Added, Verdict
  <2> QED
    BY <1>3, <1>4, <1>6, <1>7, <2>1
<1>8. CASE c.intact /\ (WrongTotal(Target(buffers, c), c) \/ Conflicts(Target(buffers, c), c))
  <2>1. buffers' = Without(live, c.key)
    BY <1>1, <1>8 DEF Added, Verdict
  <2>2. /\ DOMAIN buffers' = DOMAIN live \ {c.key}
        /\ \A k \in DOMAIN buffers' : buffers'[k] = live[k]
    BY <2>1 DEF Without, Restrict
  <2>3. CASE key \in DOMAIN buffers'
    <3>1. key # c.key /\ key \in DOMAIN live /\ buffers'[key] = buffers[key]
      BY <1>4, <2>2, <2>3
    <3> QED
      BY <1>3, <1>6, <2>3, <3>1
  <2>4. CASE key \notin DOMAIN buffers'
    BY <1>3, <2>4
  <2> QED
    BY <2>3, <2>4
<1>9. CASE c.intact /\ ~WrongTotal(Target(buffers, c), c) /\ ~Conflicts(Target(buffers, c), c)
  <2>1. Verdict(buffers, c) \in {"duplicate", "complete", "stored"}
    BY <1>9 DEF Verdict
  <2>2. buffers' = [k \in DOMAIN live \cup {c.key} |->
                      IF k = c.key THEN WithPart(Target(buffers, c), c) ELSE buffers[k]]
    BY <1>1, <2>1 DEF Added
  <2>3. CASE key = c.key
    <3>1. Content(buffers'[key]) = Content(Target(buffers, c)) \cup {Fragment(c)}
      BY <1>1, <1>9, <2>2, <2>3, TargetIsBuffer, ContentGrows
    <3>2. CASE key \in DOMAIN live
      <4>1. Target(buffers, c) = buffers[key]
        BY <2>3, <3>2 DEF Target
      <4> QED
        BY <1>3, <1>6, <1>9, <2>2, <2>3, <3>1, <3>2, <4>1
    <3>3. CASE key \notin DOMAIN live
      <4>1. Content(Target(buffers, c)) = {}
        BY <2>3, <3>3 DEF Target, NewBuffer, Content
      <4>2. (IF key \in Stale(buffers) THEN {} ELSE heard[key]) = {}
        BY <1>2, <1>4, <3>3
      <4> QED
        BY <1>3, <1>9, <2>2, <2>3, <3>1, <4>1, <4>2
    <3> QED
      BY <3>2, <3>3
  <2>4. CASE key # c.key
    BY <1>3, <1>4, <1>6, <2>2, <2>4
  <2> QED
    BY <2>3, <2>4
<1> QED
  BY <1>7, <1>8, <1>9

\* Taking buffers away, and their history with them.
LEMMA RemovalKeepsInv ==
    ASSUME IndInv, NEW gone,
           buffers' = Restrict(buffers, DOMAIN buffers \ gone),
           heard' = [key \in Keys |-> IF key \in gone THEN {} ELSE heard[key]]
    PROVE  IndInv'
<1>1. /\ DOMAIN buffers' = DOMAIN buffers \ gone
      /\ buffers' = [key \in DOMAIN buffers' |-> buffers'[key]]
      /\ \A key \in DOMAIN buffers' : buffers'[key] = buffers[key]
  BY DEF Restrict
<1>2. BuffersOK'
  BY <1>1 DEF IndInv, BuffersOK
<1>3. HeardOK'
  BY DEF HeardOK
<1>4. BufferIsItsHistory'
  <2> SUFFICES ASSUME NEW key \in Keys
               PROVE  heard'[key] = IF key \in DOMAIN buffers'
                        THEN {<<i, buffers'[key].total, buffers'[key].parts[i]>> :
                                 i \in DOMAIN buffers'[key].parts}
                        ELSE {}
    BY DEF BufferIsItsHistory
  <2>1. heard[key] = IF key \in DOMAIN buffers
                     THEN {<<i, buffers[key].total, buffers[key].parts[i]>> :
                              i \in DOMAIN buffers[key].parts}
                     ELSE {}
    BY DEF IndInv, BufferIsItsHistory
  <2>2. CASE key \in gone
    BY <1>1, <2>2
  <2>3. CASE key \notin gone
    BY <1>1, <2>1, <2>3
  <2> QED
    BY <2>2, <2>3
<1> QED
  BY <1>2, <1>3, <1>4 DEF IndInv

\* Time changes nothing but idle times, which stay below their cap.
LEMMA AgingKeepsInv ==
    ASSUME IndInv, Tick
    PROVE  IndInv'
<1>1. /\ DOMAIN buffers' = DOMAIN buffers
      /\ buffers' = [key \in DOMAIN buffers' |-> buffers'[key]]
      /\ \A key \in DOMAIN buffers' :
            buffers'[key] = [total |-> buffers[key].total,
                             parts |-> buffers[key].parts,
                             idle  |-> IF buffers[key].idle < Overdue
                                       THEN buffers[key].idle + 1 ELSE Overdue]
      /\ heard' = heard
  BY DEF Tick, Aged
<1>2. ASSUME NEW key \in DOMAIN buffers'
      PROVE  IsBuffer(buffers'[key])
  <2>1. IsBuffer(buffers[key])
    BY <1>1, <1>2 DEF IndInv, BuffersOK
  <2> QED
    BY <1>1, <1>2, <2>1, OverdueIsTime DEF IsBuffer
<1>3. BuffersOK'
  BY <1>1, <1>2 DEF IndInv, BuffersOK
<1>4. HeardOK'
  BY <1>1 DEF IndInv, HeardOK
<1>5. BufferIsItsHistory'
  <2> SUFFICES ASSUME NEW key \in Keys
               PROVE  heard'[key] = IF key \in DOMAIN buffers'
                        THEN {<<i, buffers'[key].total, buffers'[key].parts[i]>> :
                                 i \in DOMAIN buffers'[key].parts}
                        ELSE {}
    BY DEF BufferIsItsHistory
  <2>1. heard[key] = IF key \in DOMAIN buffers
                     THEN {<<i, buffers[key].total, buffers[key].parts[i]>> :
                              i \in DOMAIN buffers[key].parts}
                     ELSE {}
    BY DEF IndInv, BufferIsItsHistory
  <2>2. key \in DOMAIN buffers => /\ buffers'[key].total = buffers[key].total
                                  /\ buffers'[key].parts = buffers[key].parts
    BY <1>1
  <2> QED
    BY <1>1, <2>1, <2>2
<1> QED
  BY <1>3, <1>4, <1>5 DEF IndInv

\* The invariant holds of a new factory and every call keeps it.
THEOREM Inductive == Spec => []IndInv
<1>1. Init => IndInv
  BY DEF Init, IndInv, BuffersOK, HeardOK, BufferIsItsHistory
<1>2. IndInv /\ [Next]_vars => IndInv'
  <2> SUFFICES ASSUME IndInv, [Next]_vars
               PROVE  IndInv'
    OBVIOUS
  <2>1. ASSUME NEW c \in Chunks, AddChunk(c)
        PROVE  IndInv'
    <3>1. BuffersOK'
      BY <2>1, AddedBuffers DEF IndInv, AddChunk
    <3>2. HeardOK'
      BY <2>1 DEF AddChunk, HeardOK
    <3> QED
      BY <2>1, <3>1, <3>2, AddedHistory DEF IndInv
  <2>2. ASSUME NEW key \in Keys, GetAssembled(key)
        PROVE  IndInv'
    <3>1. heard' = [k \in Keys |-> IF k \in {key} THEN {} ELSE heard[k]]
      BY <2>2 DEF GetAssembled, IndInv, HeardOK
    <3> QED
      BY <2>2, <3>1, RemovalKeepsInv DEF GetAssembled, Without
  <2>3. ASSUME NEW key \in Keys, GetNothing(key)
        PROVE  IndInv'
    BY <2>3 DEF GetNothing, IndInv, BuffersOK, HeardOK, BufferIsItsHistory
  <2>4. CASE FlushStale
    BY <2>4, RemovalKeepsInv DEF FlushStale, Flushed
  <2>5. CASE Tick
    BY <2>5, AgingKeepsInv
  <2>6. CASE UNCHANGED vars
    BY <2>6 DEF vars, IndInv, BuffersOK, HeardOK, BufferIsItsHistory
  <2> QED
    BY <2>1, <2>2, <2>3, <2>4, <2>5, <2>6 DEF Next
<1> QED
  BY <1>1, <1>2, PTL DEF Spec

\* Types: every part lies inside its buffer's total.
THEOREM TypeCorrect == Spec => []TypeOK
<1>1. IndInv => TypeOK
  BY DEF IndInv, BuffersOK, HeardOK, IsBuffer, TypeOK
<1> QED
  BY Inductive, <1>1, PTL

\* is_complete() counts and assemble() reads: they agree for every total.
THEOREM CompletenessIsCounting == Spec => []CompleteMeansNoGap
<1>1. IndInv => CompleteMeansNoGap
  BY CountDecides DEF IndInv, BuffersOK, IsBuffer, CompleteMeansNoGap, IsComplete, Missing
<1> QED
  BY Inductive, <1>1, PTL

\* A buffer holds what was heard since it was opened, no more and no less.
THEOREM HistoryKept == Spec => []BufferIsItsHistory
  BY Inductive, PTL DEF IndInv

\* A message handed over is whole, of one total, and made of fragments heard for it.
THEOREM HandedOverWhole == Spec => HandedOverWasHeard
<1>1. IndInv /\ [Next]_vars =>
        [\A key \in Keys :
           GetAssembled(key) =>
             LET n == Cardinality(DOMAIN answer'.payload) IN
             /\ DOMAIN answer'.payload = 0..(n - 1)
             /\ \A i \in 0..(n - 1) : <<i, n, answer'.payload[i]>> \in heard[key]]_vars
  <2> SUFFICES ASSUME IndInv, NEW key \in Keys, GetAssembled(key)
               PROVE  LET n == Cardinality(DOMAIN answer'.payload) IN
                      /\ DOMAIN answer'.payload = 0..(n - 1)
                      /\ \A i \in 0..(n - 1) : <<i, n, answer'.payload[i]>> \in heard[key]
    OBVIOUS
  <2> DEFINE buf == buffers[key]
  <2>1. answer'.payload = buf.parts /\ IsComplete(buf) /\ key \in DOMAIN buffers
    BY DEF GetAssembled
  <2>2. IsBuffer(buf)
    BY <2>1 DEF IndInv, BuffersOK
  <2>3. Cardinality(DOMAIN buf.parts) = buf.total /\ 0..(buf.total - 1) \ DOMAIN buf.parts = {}
    BY <2>1, <2>2, CountDecides DEF IsBuffer, IsComplete
  <2>4. DOMAIN buf.parts = 0..(buf.total - 1)
    BY <2>2, <2>3 DEF IsBuffer
  <2>5. heard[key] = {<<i, buf.total, buf.parts[i]>> : i \in DOMAIN buf.parts}
    BY <2>1 DEF IndInv, BufferIsItsHistory
  <2> QED
    BY <2>1, <2>3, <2>4, <2>5
<1> QED
  BY Inductive, <1>1, PTL DEF Spec, HandedOverWasHeard

\* add_chunk() drops what is stale and, at most, the buffer of its own chunk.
LEMMA AddedDrops ==
    ASSUME BuffersOK, NEW c \in Chunks, buffers' = Added(buffers, c)
    PROVE  DOMAIN buffers \ DOMAIN buffers' \subseteq Stale(buffers) \cup {c.key}
<1> DEFINE verdict == Verdict(buffers, c)
<1>1. DOMAIN Flushed(buffers) = DOMAIN buffers \ Stale(buffers)
  BY FlushedKeepsBuffers
<1>2. CASE verdict = "crc_fail"
  BY <1>1, <1>2 DEF Added
<1>3. CASE verdict \in {"mismatch", "conflict"}
  <2>1. buffers' = Without(Flushed(buffers), c.key)
    BY <1>3 DEF Added
  <2> QED
    BY <1>1, <2>1 DEF Without, Restrict
<1>4. CASE verdict \notin {"crc_fail", "mismatch", "conflict"}
  <2>1. buffers' = [key \in DOMAIN Flushed(buffers) \cup {c.key} |->
                      IF key = c.key THEN WithPart(Target(buffers, c), c) ELSE buffers[key]]
    BY <1>4 DEF Added
  <2> QED
    BY <1>1, <2>1
<1> QED
  BY <1>2, <1>3, <1>4

\* No buffer goes but by its own handing over, a chunk of its own message, or its age.
THEOREM DroppedRightly == Spec => DroppedForAReason
<1>1. IndInv /\ [Next]_vars =>
        [\A key \in DOMAIN buffers \ DOMAIN buffers' :
           \/ ~IsComplete(buffers[key]) /\ buffers[key].idle > Ttl(key)
           \/ answer'.call \in {"add_chunk", "get_assembled"} /\ answer'.key = key]_vars
  <2> SUFFICES ASSUME IndInv, Next, NEW key \in DOMAIN buffers \ DOMAIN buffers'
               PROVE  \/ ~IsComplete(buffers[key]) /\ buffers[key].idle > Ttl(key)
                      \/ answer'.call \in {"add_chunk", "get_assembled"} /\ answer'.key = key
    OBVIOUS
  <2>1. CASE key \in Stale(buffers)
    BY <2>1 DEF Stale
  <2>2. ASSUME NEW c \in Chunks, AddChunk(c), key \notin Stale(buffers)
        PROVE  answer'.call = "add_chunk" /\ answer'.key = key
    <3>1. key = c.key
      BY <2>2, AddedDrops DEF AddChunk, IndInv
    <3> QED
      BY <2>2, <3>1 DEF AddChunk
  <2>3. ASSUME NEW k \in Keys, GetAssembled(k)
        PROVE  answer'.call = "get_assembled" /\ answer'.key = key
    BY <2>3 DEF GetAssembled, Without, Restrict
  <2>4. ASSUME NEW k \in Keys, GetNothing(k)
        PROVE  FALSE
    BY <2>4 DEF GetNothing
  <2>5. CASE FlushStale
    <3>1. DOMAIN buffers' = DOMAIN buffers \ Stale(buffers)
      BY <2>5, FlushedKeepsBuffers DEF FlushStale, IndInv
    <3> QED
      BY <2>1, <3>1
  <2>6. CASE Tick
    BY <2>6 DEF Tick, Aged
  <2> QED
    BY <2>1, <2>2, <2>3, <2>4, <2>5, <2>6 DEF Next
<1> QED
  BY Inductive, <1>1, PTL DEF Spec, DroppedForAReason

-----------------------------------------------------------------------------
\* What AbandonedBuffersGo wants of a message again and again: that it has no buffer, a
\* finished one, or one that just got a chunk.
Attended(key) == key \in DOMAIN buffers => IsComplete(buffers[key]) \/ buffers[key].idle = 0

\* A neglected buffer only gets older, a clock step makes it so until it is past its TTL,
\* and then the next pass of the receiver's loop removes it.
Fades(key) ==
    /\ Attended(key)' \/ buffers'[key].idle >= buffers[key].idle
    /\ Tick /\ buffers[key].idle <= Ttl(key) => buffers'[key].idle = buffers[key].idle + 1
    /\ LoopRuns /\ buffers[key].idle > Ttl(key) => Attended(key)'

\* After add_chunk() a buffer was just updated, or was not stale and is what it was.
LEMMA AddedLeaves ==
    ASSUME BuffersOK, NEW c \in Chunks, AddChunk(c), NEW key \in DOMAIN buffers'
    PROVE  \/ buffers'[key].idle = 0
           \/ key \in DOMAIN buffers \ Stale(buffers) /\ buffers'[key] = buffers[key]
<1> DEFINE verdict == Verdict(buffers, c)
<1>1. /\ DOMAIN Flushed(buffers) = DOMAIN buffers \ Stale(buffers)
      /\ \A k \in DOMAIN Flushed(buffers) : Flushed(buffers)[k] = buffers[k]
  BY FlushedKeepsBuffers
<1>2. CASE verdict = "crc_fail"
  BY <1>1, <1>2 DEF AddChunk, Added
<1>3. CASE verdict \in {"mismatch", "conflict"}
  <2>1. buffers' = Without(Flushed(buffers), c.key)
    BY <1>3 DEF AddChunk, Added
  <2> QED
    BY <1>1, <2>1 DEF Without, Restrict
<1>4. CASE verdict \notin {"crc_fail", "mismatch", "conflict"}
  <2>1. buffers' = [k \in DOMAIN Flushed(buffers) \cup {c.key} |->
                      IF k = c.key THEN WithPart(Target(buffers, c), c) ELSE buffers[k]]
    BY <1>4 DEF AddChunk, Added
  <2>2. CASE key = c.key
    BY <2>1, <2>2 DEF WithPart
  <2>3. CASE key # c.key
    BY <1>1, <2>1, <2>3
  <2> QED
    BY <2>2, <2>3
<1> QED
  BY <1>2, <1>3, <1>4

\* A time to live lies before the idle time at which every buffer is overdue.
LEMMA TtlComesFirst ==
    ASSUME NEW key
    PROVE  Ttl(key) \in Nat /\ Ttl(key) < Overdue /\ Overdue \in Nat
  BY TtlAssumption DEF Ttl, Overdue

\* Only time makes a buffer that is there, and stays, older.
LEMMA TickFades ==
    ASSUME BuffersOK, Tick, NEW key \in DOMAIN buffers
    PROVE  /\ buffers'[key].idle >= buffers[key].idle
           /\ buffers[key].idle <= Ttl(key) => buffers'[key].idle = buffers[key].idle + 1
<1>1. buffers[key].idle \in 0..Overdue
  BY DEF BuffersOK, IsBuffer
<1>2. buffers'[key].idle = IF buffers[key].idle < Overdue THEN buffers[key].idle + 1 ELSE Overdue
  BY DEF Tick, Aged
<1> QED
  BY <1>1, <1>2, TtlComesFirst

\* The pass of the loop that finds a neglected buffer past its TTL ends the neglect.
LEMMA PassAttends ==
    ASSUME BuffersOK, NEW key, ~Attended(key), LoopRuns, buffers[key].idle > Ttl(key)
    PROVE  Attended(key)'
<1>1. key \in Stale(buffers)
  BY DEF Attended, Stale
<1>2. CASE FlushStale
  <2>1. key \notin DOMAIN buffers'
    BY <1>1, <1>2, FlushedKeepsBuffers DEF FlushStale
  <2> QED
    BY <2>1 DEF Attended
<1>3. ASSUME NEW c \in Chunks, AddChunk(c)
      PROVE  Attended(key)'
  BY <1>1, <1>3, AddedLeaves DEF Attended
<1> QED
  BY <1>2, <1>3 DEF LoopRuns

\* The safety half of AbandonedBuffersGo: whatever else is called, and for every TTL, an
\* incomplete buffer without new chunks is out after its TTL and one more pass of the
\* receiver's loop (add_chunk() or flush_stale(), reassembly.py:511 and 650-671).
THEOREM AbandonedFade == Spec => [][\A key \in Keys : ~Attended(key) => Fades(key)]_vars
<1>1. IndInv /\ [Next]_vars => [\A key \in Keys : ~Attended(key) => Fades(key)]_vars
  <2> SUFFICES ASSUME IndInv, Next, NEW key \in Keys, ~Attended(key)
               PROVE  Fades(key)
    OBVIOUS
  <2>1. BuffersOK /\ key \in DOMAIN buffers /\ buffers[key].idle \in Nat
    <3>1. BuffersOK /\ key \in DOMAIN buffers
      BY DEF IndInv, Attended
    <3>2. IsBuffer(buffers[key])
      BY <3>1 DEF BuffersOK
    <3>3. buffers[key].idle \in 0..Overdue
      BY <3>2 DEF IsBuffer
    <3> QED
      BY <3>1, <3>3
  <2>2. Attended(key)' \/ buffers'[key].idle >= buffers[key].idle
    <3>1. CASE key \notin DOMAIN buffers'
      BY <3>1 DEF Attended
    <3>2. CASE key \in DOMAIN buffers'
      <4>1. ASSUME NEW c \in Chunks, AddChunk(c)
            PROVE  buffers'[key].idle = 0 \/ buffers'[key] = buffers[key]
        BY <2>1, <3>2, <4>1, AddedLeaves
      <4>2. ASSUME NEW k \in Keys, GetAssembled(k)
            PROVE  buffers'[key] = buffers[key]
        BY <3>2, <4>2 DEF GetAssembled, Without, Restrict
      <4>3. ASSUME NEW k \in Keys, GetNothing(k)
            PROVE  buffers'[key] = buffers[key]
        BY <4>3 DEF GetNothing
      <4>4. CASE FlushStale
        BY <2>1, <3>2, <4>4, FlushedKeepsBuffers DEF FlushStale
      <4>5. CASE Tick
        BY <2>1, <4>5, TickFades
      <4> QED
        BY <2>1, <4>1, <4>2, <4>3, <4>4, <4>5 DEF Next, Attended
    <3> QED
      BY <3>1, <3>2
  <2>3. Tick /\ buffers[key].idle <= Ttl(key) => buffers'[key].idle = buffers[key].idle + 1
    BY <2>1, TickFades
  <2>4. LoopRuns /\ buffers[key].idle > Ttl(key) => Attended(key)'
    BY <2>1, PassAttends
  <2> QED
    BY <2>2, <2>3, <2>4 DEF Fades
<1> QED
  BY Inductive, <1>1, PTL DEF Spec
=============================================================================
