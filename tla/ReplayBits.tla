----------------------------- MODULE ReplayBits -----------------------------
(***************************************************************************)
(* The integer arithmetic of groundstation/replay_window.py: _seen_mask as *)
(* the number it is, with shifts as multiplication and division by powers  *)
(* of two.  ReplayMask has the same mask as the set of its one-bits; here  *)
(* the two are compared.                                                   *)
(***************************************************************************)
EXTENDS ReplayWindow

\* The number the lowest digits of a mask make, for each count of digits.
LowDigits(mask) ==
    LET number[digits \in 0..WindowSize] ==
            IF digits = 0 THEN 0
            ELSE number[digits - 1] + (IF digits - 1 \in mask THEN 2^(digits - 1) ELSE 0)
    IN  number

\* The integer whose one-bits are the members of a set.
Number(mask) == LowDigits(mask)[WindowSize]

HasBit(number, bit) == (number \div 2^bit) % 2 = 1
WithBit(number, bit) == IF HasBit(number, bit) THEN number ELSE number + 2^bit

\* Faulty variants: the shifted mask is not cut; it is cut one bit too narrow.
NumberShifted_Uncut(number, shift) == number * 2^shift
NumberShifted_Narrow(number, shift) ==
    IF shift >= WindowSize THEN 0 ELSE (number * 2^shift) % 2^(WindowSize - 1)

\* The mask after a jump ahead by shift: emptied, or shifted and cut to the window.
NumberShifted(number, shift) ==
    IF shift >= WindowSize THEN 0 ELSE (number * 2^shift) % 2^WindowSize

\* check() and record() on the pair of max_seq and the integer.
NumberAccepts(top, number, seq) ==
    /\ seq >= 0
    /\ \/ top = -1
       \/ seq > top
       \/ top - seq < WindowSize /\ ~HasBit(number, top - seq)

NumberRecord(top, number, seq) ==
    IF top = -1 THEN <<seq, 1>>
    ELSE IF seq > top THEN <<seq, WithBit(NumberShifted(number, seq - top), 0)>>
    ELSE <<top, WithBit(number, top - seq)>>

\* The arithmetic of the mask is the set of its bits, in every window that can arise
\* and for every number: check() decides the same, record() leaves the same mask, and
\* no bit outgrows the window (replay_window.py:147-161).
ArithmeticIsBits ==
    \A seq \in Inputs :
        /\ NumberAccepts(win.max_seq, Number(win.seen_mask), seq) <=> Accepts(win, seq)
        /\ Accepts(win, seq) =>
              NumberRecord(win.max_seq, Number(win.seen_mask), seq)
                 = <<Record(win, seq).max_seq, Number(Record(win, seq).seen_mask)>>
=============================================================================
