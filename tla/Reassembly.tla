----------------------------- MODULE Reassembly -----------------------------
(***************************************************************************)
(* groundstation/reassembly.py: one ReassemblyFactory driven through its   *)
(* public methods in any order, while time passes.  The history variable   *)
(* heard keeps, for each buffer, the intact fragments passed in since that *)
(* buffer was opened.                                                      *)
(***************************************************************************)
EXTENDS ChunkBuffers

CONSTANTS Keys,          \* [sid, mid] of the messages in flight
          Chunks         \* the chunks that may be passed to add_chunk()

\* validate_transport_packet() lets only these reach the factory.
ASSUME ChunksAssumption ==
    \A c \in Chunks : /\ c.key \in Keys
                      /\ c.n \in Nat \ {0}
                      /\ c.i \in 0..(c.n - 1)
                      /\ c.intact \in BOOLEAN

VARIABLES buffers,       \* _buffers
          answer,        \* what the last call returned
          heard          \* history: fragments heard in the life of each buffer

vars == <<buffers, answer, heard>>

Fragment(c) == <<c.i, c.n, c.d>>
Silent == [call |-> "none"]

Init == /\ buffers = [key \in {} |-> key]
        /\ answer = Silent
        /\ heard = [key \in Keys |-> {}]

AddChunk(c) ==
    /\ buffers' = Added(buffers, c)
    /\ answer' = [call |-> "add_chunk", key |-> c.key, verdict |-> Verdict(buffers, c)]
    /\ heard' = [key \in Keys |->
                   IF key \notin DOMAIN buffers' THEN {}
                   ELSE (IF key \in Stale(buffers) THEN {} ELSE heard[key])
                        \cup (IF key = c.key /\ c.intact THEN {Fragment(c)} ELSE {})]

\* get_assembled() hands the parts over and forgets the buffer, or returns None.
GetAssembled(key) ==
    /\ key \in DOMAIN buffers
    /\ IsComplete(buffers[key])
    /\ answer' = [call |-> "get_assembled", key |-> key, payload |-> buffers[key].parts]
    /\ buffers' = Without(buffers, key)
    /\ heard' = [heard EXCEPT ![key] = {}]

GetNothing(key) ==
    /\ ~(key \in DOMAIN buffers /\ IsComplete(buffers[key]))
    /\ answer' = [call |-> "get_nothing", key |-> key]
    /\ UNCHANGED <<buffers, heard>>

\* flush_stale() returns the expired messages with the chunks they still missed.
FlushStale ==
    /\ buffers' = Flushed(buffers)
    /\ answer' = [call |-> "flush_stale",
                  expired |-> {<<key, Trimmed(Missing(buffers[key]))>> : key \in Stale(buffers)}]
    /\ heard' = [key \in Keys |-> IF key \in Stale(buffers) THEN {} ELSE heard[key]]

Tick == /\ buffers' = Aged(buffers)
        /\ UNCHANGED <<answer, heard>>

Next == \/ \E c \in Chunks : AddChunk(c)
        \/ \E key \in Keys : GetAssembled(key) \/ GetNothing(key)
        \/ FlushStale
        \/ Tick

Spec == Init /\ [][Next]_vars

\* The receiver's loop handles a chunk or, when none comes, calls flush_stale();
\* and time does not stand still.
LoopRuns == FlushStale \/ \E c \in Chunks : AddChunk(c)
FairSpec == Spec /\ WF_vars(LoopRuns) /\ WF_vars(Tick)

-----------------------------------------------------------------------------
\* Types; in particular no part lies outside its buffer's total, although an index
\* is only ever checked against the total its own chunk claims.
TypeOK ==
    /\ DOMAIN buffers \subseteq Keys
    /\ \A key \in DOMAIN buffers :
          LET buf == buffers[key] IN
          /\ DOMAIN buf = {"total", "parts", "idle"}
          /\ buf.total \in Nat \ {0}
          /\ DOMAIN buf.parts \subseteq 0..(buf.total - 1)
          /\ buf.idle \in 0..Overdue
    /\ DOMAIN heard = Keys

\* is_complete() only counts, assemble() reads every index from 0: they agree, so
\* assemble() never meets a gap and a message with every chunk is never held back.
CompleteMeansNoGap ==
    \A key \in DOMAIN buffers :
        IsComplete(buffers[key]) <=> Missing(buffers[key]) = {}

\* A buffer holds exactly the fragments heard since it was opened: none is lost or
\* overwritten, and none from before an expiry, a conflict or a changed total
\* survives into the message that is collected next under the same key.
BufferIsItsHistory ==
    \A key \in Keys :
        heard[key] = IF key \in DOMAIN buffers
                     THEN {<<i, buffers[key].total, buffers[key].parts[i]>> :
                              i \in DOMAIN buffers[key].parts}
                     ELSE {}

\* A message that is handed over has no gap, one total, and only fragments that
\* were heard for it since its buffer was opened.
HandedOverWasHeard ==
    [][\A key \in Keys :
          GetAssembled(key) =>
             LET n == Cardinality(DOMAIN answer'.payload) IN
             /\ DOMAIN answer'.payload = 0..(n - 1)
             /\ \A i \in 0..(n - 1) : <<i, n, answer'.payload[i]>> \in heard[key]]_vars

\* Time alone drops a buffer only when it is incomplete and silent for longer than
\* its own TTL: a complete message waits for get_assembled() however long.
DroppedForAReason ==
    [][\A key \in DOMAIN buffers \ DOMAIN buffers' :
          \/ ~IsComplete(buffers[key]) /\ buffers[key].idle > Ttl(key)
          \/ answer'.call \in {"add_chunk", "get_assembled"} /\ answer'.key = key]_vars

\* No incomplete buffer stays for ever without a chunk coming in for it.
AbandonedBuffersGo ==
    \A key \in Keys :
        []<>(key \in DOMAIN buffers =>
               IsComplete(buffers[key]) \/ buffers[key].idle = 0)
=============================================================================
