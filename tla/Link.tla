-------------------------------- MODULE Link --------------------------------
(***************************************************************************)
(* The radio link between the satellite and the ground station, as the two *)
(* programs meet it: one byte stream each way, in order, whose frames may  *)
(* be lost or damaged.  up carries the chunks of split messages, down the  *)
(* ACK and NACK packets.  What waits unread is bounded, as the operating   *)
(* system's serial buffers are: a frame that finds no room is lost.        *)
(***************************************************************************)
EXTENDS ChunkBuffers, Sequences

CONSTANTS MaxUp,          \* frames that fit between the satellite's write and the ground's read
          MaxDown,        \* frames that fit between the ground's write and the satellite's read
          Damage          \* what the radio may do to a frame: a subset of Damages

Damages == {"lost",       \* the frame, or its framing or JSON, is destroyed
            "crc",        \* a bit error in the fragment that the CRC shows
            "collision",  \* a bit error in the fragment that the CRC misses
            "header"}     \* one in the chunk's numbers, which the CRC does not cover

ASSUME LinkAssumption == /\ MaxUp \in Nat \ {0} /\ MaxDown \in Nat \ {0}
                         /\ Damage \subseteq Damages

VARIABLES up, down

linkVars == <<up, down>>

Push(queue, frames, limit) ==
    LET all == queue \o frames
    IN  IF Len(all) > limit THEN SubSeq(all, 1, limit) ELSE all

\* The chunks of one message of n chunks as make_chunk_packets() numbers them.
MessageChunks(sid, mid, n) ==
    [k \in 1..n |-> [key |-> MakeKey(sid, mid), i |-> k - 1, n |-> n,
                     d |-> "good", intact |-> TRUE]]

Ack(sid, mid) == [t |-> "ack", sid |-> sid, mid |-> mid, m |-> {}]
Nack(sid, mid, missing) == [t |-> "nack", sid |-> sid, mid |-> mid, m |-> Trimmed(missing)]

\* What may be under way: chunks, and control packets.
ChunkFrames == [key : [sid : Nat, mid : {NoMid} \cup Nat], i : Nat, n : Nat \ {0},
                d : {"good", "bad"}, intact : BOOLEAN]
ControlFrames == [t : {"ack", "nack"}, sid : Nat, mid : {NoMid} \cup Nat, m : SUBSET Nat]

LinkTypeOK == /\ up \in Seq(ChunkFrames) /\ Len(up) <= MaxUp
              /\ down \in Seq(ControlFrames) /\ Len(down) <= MaxDown

LinkInit == up = <<>> /\ down = <<>>

LoseChunk == /\ "lost" \in Damage
             /\ up # <<>>
             /\ up' = Tail(up)
             /\ UNCHANGED down

LoseControl == /\ "lost" \in Damage
               /\ down # <<>>
               /\ down' = Tail(down)
               /\ UNCHANGED up

\* What validate_transport_packet() asks of a chunk's numbers.
Valid(chunk) == chunk.n > 0 /\ chunk.i \in 0..(chunk.n - 1)

\* What a chunk can be taken for when one of its numbers is damaged and still valid:
\* another index, another total, or part of the message before or after.  Its fragment
\* is then in the wrong place.
Misread(chunk) ==
    LET As(key, i, n) == [key |-> key, i |-> i, n |-> n, d |-> "bad", intact |-> chunk.intact]
        neighbours == UNION {{mid - 1, mid + 1} \ {0} : mid \in {chunk.key.mid} \ {NoMid}}
        misread == {As(chunk.key, i, chunk.n) : i \in 0..chunk.n \ {chunk.i}}
                   \cup {As(chunk.key, chunk.i, n) : n \in {chunk.n - 1, chunk.n + 1}}
                   \cup {As(MakeKey(chunk.key.sid, mid), chunk.i, chunk.n) :
                            mid \in neighbours}
    IN  {m \in misread : Valid(m)}

CorruptChunk ==
    /\ up # <<>>
    /\ Head(up).intact /\ Head(up).d = "good"
    /\ \/ "crc" \in Damage /\ up' = [up EXCEPT ![1] = [@ EXCEPT !.intact = FALSE]]
       \/ "collision" \in Damage /\ up' = [up EXCEPT ![1] = [@ EXCEPT !.d = "bad"]]
       \/ "header" \in Damage /\ \E c \in Misread(Head(up)) : up' = [up EXCEPT ![1] = c]
    /\ UNCHANGED down

LinkStep == LoseChunk \/ LoseControl \/ CorruptChunk
=============================================================================
