------------------------------ MODULE Framing -------------------------------
(***************************************************************************)
(* The frames of both directions, FRAME_START, a stuffed length, the       *)
(* payload as it is, FRAME_END: how a packet is written to the serial      *)
(* port, and how the other side carves frames out of whatever each read    *)
(* returns, through bytes that are altered or lost.  transmitter.py and    *)
(* receiver.py hold the same code twice.                                   *)
(***************************************************************************)
EXTENDS Integers, Sequences, SequencesExt

CONSTANTS ByteSize,      \* number of values of a byte
          FRAME_START, FRAME_END, FRAME_ESC,
          FRAME_ESC_XOR, \* a power of two
          LenBytes,      \* FRAME_LEN_BYTES
          MaxLength,     \* MAX_FRAME_JSON_BYTES
          Payloads,      \* the packets' texts, as bytes
          MaxFrames      \* bound: frames that are written

Byte == 0..(ByteSize - 1)
Special == {FRAME_START, FRAME_END, FRAME_ESC}

\* b ^ FRAME_ESC_XOR, an XOR with one bit.
Flipped(b) == IF (b \div FRAME_ESC_XOR) % 2 = 1 THEN b - FRAME_ESC_XOR ELSE b + FRAME_ESC_XOR

\* n divided by the size of a byte again and again.
Quotients(n) ==
    LET left[k \in 0..LenBytes] == IF k = 0 THEN n ELSE left[k - 1] \div ByteSize
    IN  left

\* Every length fits into its field, or to_bytes() would raise.
FitsField(n) == Quotients(n)[LenBytes] = 0

\* A packet is JSON in ASCII: no control byte, no byte beyond '}'.  The escape byte
\* is '}' itself, and payloads are not stuffed.
ASSUME FramingAssumption ==
    /\ ByteSize \in Nat \ {0} /\ Special \subseteq Byte /\ FRAME_ESC_XOR \in Byte \ {0}
    /\ FRAME_START \notin {FRAME_END, FRAME_ESC}
    /\ \A b \in Special : Flipped(b) \in Byte \ Special
    /\ LenBytes \in Nat \ {0} /\ MaxLength \in Nat \ {0}
    /\ \A n \in 1..MaxLength : FitsField(n)
    /\ MaxFrames \in Nat
    /\ \A p \in Payloads :
          /\ p \in Seq(Byte \ {0, FRAME_START, FRAME_END})
          /\ Len(p) \in 1..MaxLength

VARIABLES sent,     \* history: the payloads written, in order
          wire,     \* bytes written and not yet read
          buffer,   \* serial_buffer, rx_buffer
          frames,   \* every payload extracted, in order
          heard,    \* history: every byte read
          hit       \* history: which written byte was altered or lost; 0 if none

vars == <<sent, wire, buffer, frames, heard, hit>>

-----------------------------------------------------------------------------
\* Faulty variant: the bit is set, not flipped, and the result leaves the byte.
Stuffed_Added(b) == IF b \in Special THEN <<FRAME_ESC, b + FRAME_ESC_XOR>> ELSE <<b>>

\* Faulty variant: the escape byte itself is not escaped.
Stuffed_EscapeLeft(b) == IF b \in Special \ {FRAME_ESC} THEN <<FRAME_ESC, Flipped(b)>> ELSE <<b>>

\* _stuff_length(), one byte of it.
Stuffed(b) == IF b \in Special THEN <<FRAME_ESC, Flipped(b)>> ELSE <<b>>

\* int.to_bytes(LenBytes, "big"): the remainders of those divisions, the last one first.
BigEndian(n) == [k \in 1..LenBytes |-> Quotients(n)[LenBytes - k] % ByteSize]

\* What write_transport_packet() and write_framed_packet() write.
OnWire(payload) ==
    <<FRAME_START>> \o FlattenSeq([k \in 1..LenBytes |-> Stuffed(BigEndian(Len(payload))[k])])
                    \o payload \o <<FRAME_END>>

-----------------------------------------------------------------------------
\* _unstuff_length(): FieldEnd(b)[k] is the index after the k-th byte of the length
\* in b, whose field starts at 2; it runs past the buffer when bytes are missing.
FieldEnd(b) ==
    LET after[k \in 0..LenBytes] ==
            IF k = 0 THEN 2
            ELSE LET i == after[k - 1]
                 IN  IF i <= Len(b) /\ b[i] = FRAME_ESC THEN i + 2 ELSE i + 1
    IN  after

HasLength(b) == FieldEnd(b)[LenBytes] <= Len(b) + 1

LengthOf(b) ==
    LET Digit(k) == LET i == FieldEnd(b)[k - 1]
                    IN  IF b[i] = FRAME_ESC THEN Flipped(b[i + 1]) ELSE b[i]
        value[k \in 0..LenBytes] ==
            IF k = 0 THEN 0 ELSE value[k - 1] * ByteSize + Digit(k)
    IN  value[LenBytes]

\* Faulty variant: a length is taken whatever its size.
BadLength_NoLimit(n) == n <= 0

BadLength(n) == n <= 0 \/ n > MaxLength

\* total_len
FrameSize(b) == FieldEnd(b)[LenBytes] + LengthOf(b)

\* Junk before a start marker is dropped, all of it if there is no marker.
FromStart(b) == IF Contains(b, FRAME_START)
                THEN SubSeq(b, SelectInSeq(b, LAMBDA x : x = FRAME_START), Len(b))
                ELSE <<>>

\* Faulty variant: the parser starts over with an empty buffer.
Resync_Wipe(b) == <<>>

\* One byte is dropped and the parser tries from the next.
Resync(b) == Tail(b)

PayloadOf(b) == SubSeq(b, FieldEnd(b)[LenBytes], FrameSize(b) - 1)

\* extract_framed_packets(): the frames in a buffer and what is left of it.  Its test
\* of the least size decides nothing more: an incomplete length is waited for anyway.
Extract[b \in Seq(Int)] ==
    LET s == FromStart(b)
        Wait == [frames |-> <<>>, rest |-> s]
    IN  IF s = <<>> \/ ~HasLength(s) THEN Wait
        ELSE IF BadLength(LengthOf(s)) THEN Extract[Resync(s)]
        ELSE IF Len(s) < FrameSize(s) THEN Wait
        ELSE IF s[FrameSize(s)] # FRAME_END THEN Extract[Resync(s)]
        ELSE LET others == Extract[SubSeq(s, FrameSize(s) + 1, Len(s))]
             IN  [frames |-> <<PayloadOf(s)>> \o others.frames,
                  rest   |-> others.rest]

-----------------------------------------------------------------------------
Init == /\ sent = <<>> /\ wire = <<>>
        /\ buffer = <<>> /\ frames = <<>>
        /\ heard = <<>> /\ hit = 0

Write(payload) ==
    /\ Len(sent) < MaxFrames
    /\ sent' = Append(sent, payload)
    /\ wire' = wire \o OnWire(payload)
    /\ UNCHANGED <<buffer, frames, heard, hit>>

\* ser.read() returns the next n bytes.
Read(n) ==
    LET incoming == SubSeq(wire, 1, n)
        found == Extract[buffer \o incoming]
    IN  /\ wire' = SubSeq(wire, n + 1, Len(wire))
        /\ buffer' = found.rest
        /\ frames' = frames \o found.frames
        /\ heard' = heard \o incoming
        /\ UNCHANGED <<sent, hit>>

BytesOf(payloads) == FlattenSeq([k \in 1..Len(payloads) |-> OnWire(payloads[k])])

\* How many of the bytes that were written are no longer under way.
Passed == Len(BytesOf(sent)) - Len(wire)

\* The radio alters the next byte, or loses it; once in a behaviour.
Damage ==
    /\ hit = 0
    /\ wire # <<>>
    /\ hit' = Passed + 1
    /\ \/ \E b \in Byte \ {Head(wire)} : wire' = <<b>> \o Tail(wire)
       \/ wire' = Tail(wire)
    /\ UNCHANGED <<sent, buffer, frames, heard>>

Next == \/ \E payload \in Payloads : Write(payload)
        \/ \E n \in 1..Len(wire) : Read(n)
        \/ Damage

Spec == Init /\ [][Next]_vars

-----------------------------------------------------------------------------
TypeOK == /\ sent \in Seq(Payloads)
          /\ wire \in Seq(Byte) /\ buffer \in Seq(Byte) /\ heard \in Seq(Byte)
          /\ frames \in Seq(Seq(Byte))
          /\ hit \in 0..Len(BytesOf(sent))

\* The bytes of the longest frame there can be: every byte of its length stuffed.
LongestFrame == 1 + 2 * LenBytes + MaxLength + 1

\* However the serial port cuts or merges the stream, the frames that are found and
\* the bytes still held are those of the whole stream parsed at once.
ReadsDoNotMatter == Extract[heard] = [frames |-> frames, rest |-> buffer]

\* Without damage the length field is decoded as it was stuffed, so every frame
\* arrives: what is left over is the beginning of the next.
UndamagedArrives ==
    hit = 0 => /\ IsPrefix(frames, sent)
               /\ wire = <<>> => frames = sent /\ buffer = <<>>

\* Damage has a reach: a frame that starts a longest frame or more beyond the damaged
\* byte is found as soon as its last byte is read, whatever length the parser was
\* led to believe.
BeyondReachArrives ==
    LET StartOf(k) == Len(BytesOf(SubSeq(sent, 1, k - 1))) + 1
        EndOf(k) == Len(BytesOf(SubSeq(sent, 1, k)))
        safe == {k \in 1..Len(sent) : StartOf(k) >= hit + LongestFrame /\ EndOf(k) <= Passed}
    IN  safe # {} => IsSuffix(SubSeq(sent, Min(safe), Max(safe)), frames)

\* The parser holds less than one longest frame, and only from a start marker on, so
\* noise cannot make the buffer grow.
HoldsPartOfOneFrame ==
    buffer # <<>> => Head(buffer) = FRAME_START /\ Len(buffer) < LongestFrame
=============================================================================
