----------------------------- MODULE ReplaySpec -----------------------------
(***************************************************************************)
(* What the ground station's replay protection promises for one session,   *)
(* without saying how: a sequence number is taken at most once, and one    *)
(* that the newest taken number has left WindowSize or more behind is      *)
(* refused for good.  replay_window.py is shown to implement this.         *)
(***************************************************************************)
EXTENDS Integers

CONSTANTS WindowSize,    \* how far behind the newest number one may still be
          Inputs         \* the sequence numbers that can be offered

VARIABLES taken,         \* every number taken since the window was created or reset
          verdict        \* what the last offer was told

vars == <<taken, verdict>>

Fresh(seq) == /\ seq >= 0
              /\ seq \notin taken
              /\ \A old \in taken : old - seq < WindowSize

Init == /\ taken = {}
        /\ verdict = "none"

\* The number is judged and, if the judgement is good, it may be taken.
Take(seq) == /\ Fresh(seq)
             /\ taken' = taken \cup {seq}
             /\ verdict' = "accepted"

Judge(seq) == /\ verdict' = IF Fresh(seq) THEN "accepted" ELSE "refused"
              /\ UNCHANGED taken

Forget == /\ taken' = {}
          /\ verdict' = "none"

Next == \/ \E seq \in Inputs : Take(seq) \/ Judge(seq)
        \/ Forget

Spec == Init /\ [][Next]_vars
=============================================================================
