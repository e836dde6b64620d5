----------------------------- MODULE ReplayMask -----------------------------
(***************************************************************************)
(* The replay window of groundstation/replay_window.py as a value.  The    *)
(* integer _seen_mask is the set of its one-bits: bit i stands for the     *)
(* sequence number max_seq - i.                                            *)
(***************************************************************************)
EXTENDS Integers

CONSTANT WindowSize      \* window_size; the receiver uses 64

ASSUME WindowSizeAssumption == WindowSize \in Nat \ {0}   \* __init__ raises otherwise

Bits == 0..(WindowSize - 1)

\* max_seq is -1 until the first packet.
Windows == [max_seq : Nat \cup {-1}, seen_mask : SUBSET Bits]

NewWindow == [max_seq |-> -1, seen_mask |-> {}]

Rejections == {"negative_sequence", "too_old", "duplicate"}
Acceptances == {"first_packet", "new_high", "in_window_new"}

\* check(): the reason it gives; the decision's flag is membership in Acceptances.
Check(w, seq) ==
    CASE seq < 0                           -> "negative_sequence"
      [] seq >= 0 /\ w.max_seq = -1        -> "first_packet"
      [] seq > w.max_seq /\ w.max_seq # -1 -> "new_high"
      [] seq >= 0 /\ seq <= w.max_seq /\ w.max_seq - seq >= WindowSize -> "too_old"
      [] seq >= 0 /\ seq <= w.max_seq /\ w.max_seq - seq \in w.seen_mask -> "duplicate"
      [] OTHER                             -> "in_window_new"

Accepts(w, seq) == Check(w, seq) \in Acceptances

\* Faulty variants: a shift that is not cut to the window; a shift that assumes that
\* no number was skipped.
Shifted_Uncut(mask, shift) == {bit + shift : bit \in mask}
Shifted_ByOne(mask, shift) == {bit \in Bits : bit - 1 \in mask}

\* (mask << shift) & ((1 << window_size) - 1), and 0 once shift >= window_size.
Shifted(mask, shift) == {bit \in Bits : bit - shift \in mask}

\* Faulty variant: the window is one number wider on one side.
RecordRaises_TooWide(w, seq) ==
    \/ seq < 0
    \/ /\ w.max_seq # -1
       /\ seq <= w.max_seq
       /\ \/ w.max_seq - seq > WindowSize
          \/ w.max_seq - seq \in w.seen_mask

\* The inputs on which record() raises ValueError instead of recording.
RecordRaises(w, seq) ==
    \/ seq < 0
    \/ /\ w.max_seq # -1
       /\ seq <= w.max_seq
       /\ \/ w.max_seq - seq >= WindowSize
          \/ w.max_seq - seq \in w.seen_mask

\* Faulty variant: a new highest number starts an empty mask.
Record_Restarts(w, seq) ==
    IF seq > w.max_seq THEN [max_seq |-> seq, seen_mask |-> {0}]
    ELSE [w EXCEPT !.seen_mask = @ \cup {w.max_seq - seq}]

\* What record() leaves behind when it does not raise.
Record(w, seq) ==
    IF w.max_seq = -1 THEN [max_seq |-> seq, seen_mask |-> {0}]
    ELSE IF seq > w.max_seq
    THEN [max_seq |-> seq, seen_mask |-> Shifted(w.seen_mask, seq - w.max_seq) \cup {0}]
    ELSE [w EXCEPT !.seen_mask = @ \cup {w.max_seq - seq}]

\* window_floor(): the oldest number still inside the window.
WindowFloor(w) ==
    IF w.max_seq = -1 THEN -1
    ELSE IF w.max_seq < WindowSize THEN 0
    ELSE w.max_seq - WindowSize + 1
=============================================================================
