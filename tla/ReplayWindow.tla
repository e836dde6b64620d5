---------------------------- MODULE ReplayWindow ----------------------------
(***************************************************************************)
(* groundstation/replay_window.py: one ReplayWindow object driven through  *)
(* its public methods in any order, with any sequence number of Inputs.    *)
(* The receiver calls check() and then record(); accept() is the two in    *)
(* one call.                                                               *)
(***************************************************************************)
EXTENDS ReplayMask

CONSTANT Inputs          \* the sequence numbers a caller may pass

ASSUME InputsAssumption == Inputs \subseteq Int

VARIABLES win,           \* the object's max_seq and _seen_mask
          outcome,       \* what the last call returned or raised
          recorded       \* history: numbers recorded since creation or reset

vars == <<win, outcome, recorded>>

Init == /\ win = NewWindow
        /\ outcome = "none"
        /\ recorded = {}

\* check(seq) decides and changes nothing.
CheckSeq(seq) == /\ outcome' = Check(win, seq)
                 /\ UNCHANGED <<win, recorded>>

\* accept(seq): check, and record only when the decision is good.
Accept(seq) ==
    /\ outcome' = Check(win, seq)
    /\ IF Accepts(win, seq)
       THEN /\ win' = Record(win, seq)
            /\ recorded' = recorded \cup {seq}
       ELSE UNCHANGED <<win, recorded>>

\* record(seq) called on its own: it raises or it records.
RecordSeq(seq) ==
    IF RecordRaises(win, seq)
    THEN /\ outcome' = "raised"
         /\ UNCHANGED <<win, recorded>>
    ELSE /\ outcome' = "recorded"
         /\ win' = Record(win, seq)
         /\ recorded' = recorded \cup {seq}

Reset == /\ win' = NewWindow
         /\ outcome' = "none"
         /\ recorded' = {}

Next == \/ \E seq \in Inputs : CheckSeq(seq) \/ Accept(seq) \/ RecordSeq(seq)
        \/ Reset

Spec == Init /\ [][Next]_vars

-----------------------------------------------------------------------------
\* Types of the window's fields, the outcomes and the history.
TypeOK == /\ win \in Windows
          /\ outcome \in Acceptances \cup Rejections \cup {"none", "recorded", "raised"}
          /\ recorded \subseteq Nat

\* The window is a faithful digest of its history: max_seq is the newest number
\* recorded (-1 exactly when there is none) and, through every shift, bit i of the
\* mask says exactly whether max_seq - i was recorded.  No bit is lost inside the
\* window and none survives outside it.
WindowMatchesHistory ==
    /\ (win.max_seq = -1) <=> (recorded = {})
    /\ recorded # {} => win.max_seq \in recorded
    /\ \A seq \in recorded : seq <= win.max_seq
    /\ win.seen_mask = {bit \in Bits : win.max_seq - bit \in recorded}

\* A number that was recorded once is refused for ever, also after the window
\* has moved past it: check() lets no packet be replayed.
NoReplay == \A seq \in recorded : ~Accepts(win, seq)

\* Nothing else is refused: a number that is not negative, was not recorded and
\* is not older than the window floor is accepted, so packets that arrive late
\* and out of order get through.
OnlyReplaysRefused ==
    \A seq \in Inputs :
        seq >= 0 /\ seq \notin recorded /\ seq >= WindowFloor(win) => Accepts(win, seq)

\* record() raises on exactly the numbers check() refuses, so the receiver's
\* check-then-record never raises after a good decision.
RecordAgreesWithCheck ==
    \A seq \in Inputs : RecordRaises(win, seq) <=> ~Accepts(win, seq)

-----------------------------------------------------------------------------
\* How the object implements the abstract promise: the mask is the set of
\* numbers taken, a returned reason or a raised error is the verdict.
verdictMap == CASE outcome = "none" -> "none"
                [] outcome \in Acceptances \cup {"recorded"} -> "accepted"
                [] OTHER -> "refused"

Promise == INSTANCE ReplaySpec WITH taken <- recorded, verdict <- verdictMap

\* Every call of the object is a step of ReplaySpec: its verdict on each number
\* is the one the full history of recorded numbers calls for.
ImplementsReplaySpec == Promise!Spec
=============================================================================
