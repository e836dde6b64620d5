------------------------- MODULE TelemetryDelivery --------------------------
(***************************************************************************)
(* What the satellite and the ground station promise together, without     *)
(* chunks, NACKs, timeouts or windows: the two agree on a session, within  *)
(* it the satellite offers its messages one after the other, the ground    *)
(* logs some of those offered, each at most once and in order, and the     *)
(* satellite calls a message delivered only if it was logged.  That a      *)
(* message is called failed promises nothing.                              *)
(***************************************************************************)
EXTENDS Integers, Sequences

CONSTANT Messages      \* the numbers of a session's messages, from 1

VARIABLES session,     \* the satellite's current session; 0 before the first
          opened,      \* the sessions the ground has opened
          offered,     \* the message in hand; 0 while no session is agreed
          log,         \* <<session, message>> in the order the ground logged them
          verdicts     \* <<session, message, "ok" or "fail">> as the satellite saw it

vars == <<session, opened, offered, log, verdicts>>

Logged == {log[k] : k \in 1..Len(log)}
Concluded(s, m) == \E outcome \in {"ok", "fail"} : <<s, m, outcome>> \in verdicts

\* Message m of session s has been in hand: it is the first, or the one before is done.
Offered(s, m) == m = 1 \/ Concluded(s, m - 1)

Init == /\ session = 0
        /\ opened = {}
        /\ offered = 0
        /\ log = <<>>
        /\ verdicts = {}

StartSession == /\ session' = session + 1
                /\ offered' = 0
                /\ UNCHANGED <<opened, log, verdicts>>

\* The satellite stops: what it had in hand is no longer offered.
Abandon == /\ offered' = 0
           /\ UNCHANGED <<session, opened, log, verdicts>>

\* The ground may still hear of a session the satellite has given up.
OpenSession(s) == /\ opened' = opened \cup {s}
                  /\ UNCHANGED <<session, offered, log, verdicts>>

\* A session is taken up once: not again after any of its messages is done.
AgreeSession == /\ session \in opened
                /\ offered = 0
                /\ \A v \in verdicts : v[1] # session
                /\ offered' = 1
                /\ UNCHANGED <<session, opened, log, verdicts>>

LogMessage(s, m) ==
    /\ s \in opened
    /\ Offered(s, m)
    /\ \A k \in 1..Len(log) : log[k][1] = s => log[k][2] < m
    /\ log' = Append(log, <<s, m>>)
    /\ UNCHANGED <<session, opened, offered, verdicts>>

Conclude(outcome) ==
    /\ offered > 0
    /\ outcome = "ok" => <<session, offered>> \in Logged
    /\ verdicts' = verdicts \cup {<<session, offered, outcome>>}
    /\ offered' = offered + 1
    /\ UNCHANGED <<session, opened, log>>

Next == \/ StartSession \/ Abandon \/ AgreeSession
        \/ \E s \in 1..session : OpenSession(s)
        \/ \E s \in 1..session, m \in Messages : LogMessage(s, m)
        \/ \E outcome \in {"ok", "fail"} : Conclude(outcome)

Spec == Init /\ [][Next]_vars

-----------------------------------------------------------------------------
\* What the promise comes to, in terms of the feature log and of what the satellite
\* says.  A session's messages are logged in the order of their numbers, none twice,
\* however the sessions mix (receiver.py:755-786).
LoggedOnceInOrder ==
    \A j, k \in 1..Len(log) :
        j < k /\ log[j][1] = log[k][1] => log[j][2] < log[k][2]

\* Nothing is logged that the satellite has not come to (transmitter.py:943-984).
LoggedWasOffered == \A k \in 1..Len(log) : Offered(log[k][1], log[k][2])

\* What DELIVERY_OK was said of is in the log, and stays there (transmitter.py:966-982).
DeliveredIsLogged == \A v \in verdicts : v[3] = "ok" => <<v[1], v[2]>> \in Logged

\* No message is called both delivered and failed, or passed over (transmitter.py:974-984).
OneVerdictEach ==
    \A v \in verdicts :
        /\ Offered(v[1], v[2])
        /\ \A w \in verdicts : v[1] = w[1] /\ v[2] = w[2] => v = w

Promises == LoggedOnceInOrder /\ LoggedWasOffered /\ DeliveredIsLogged /\ OneVerdictEach
=============================================================================
