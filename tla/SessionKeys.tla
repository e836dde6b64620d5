---------------------------- MODULE SessionKeys -----------------------------
(***************************************************************************)
(* The keys of a session: the long-term pairs on disk that two tools write *)
(* and an operator copies, the copies both programs read when they start,  *)
(* and the AES key that each side derives for itself (key_manager.py).     *)
(* Nothing tells the two sides that their keys agree: decapsulating with   *)
(* another private key gives another secret, not an error.                 *)
(*                                                                         *)
(* A key pair is a number, its two halves carry the same one, and 0 is a   *)
(* missing file; a file is written whole.  What was sent may arrive at any *)
(* later time, repeatedly, or never; how the programs fight losses is      *)
(* AegisLink's subject.                                                    *)
(***************************************************************************)
EXTENDS Integers

CONSTANTS MaxPairs,      \* bound: pairs generated of each kind
          MaxSessions,   \* bound: starts of the satellite, one session each
          MaxMessages    \* bound: telemetry packets of a session

ASSUME KeysAssumption == /\ MaxPairs \in Nat \ {0}
                         /\ MaxSessions \in Nat \ {0}
                         /\ MaxMessages \in Nat \ {0}

\* The pair for encapsulation is made on the ground, the one for signing on the satellite.
Kinds == {"kem", "mldsa"}
Pairs == 0..MaxPairs
Sids == 1..MaxSessions

VARIABLES made,          \* pairs generated so far, of each kind
          writing,       \* the pair a running tool has yet to write the private half of
          public,        \* the public key file where the pair was generated
          private,       \* the private key file beside it
          copied,        \* the public key file on the other machine
          sat,           \* the satellite program and the keys it holds in memory
          ground,        \* the ground station program, likewise
          starts,        \* how often the satellite was started; numbers its sessions
          sessions,      \* the ground's sessions: sid -> AES key
          inits,         \* session-init packets that were sent
          packets,       \* telemetry packets that were sent
          acked,         \* the sids of the session-inits the ground has acknowledged
          read,          \* history: every packet the ground decrypted, and the pair it trusted
          careless       \* history: a program runs that was not started, or kept running, in
                         \* the order described below

files == <<made, writing, public, private, copied>>
air == <<inits, packets, acked>>
vars == <<files, sat, ground, starts, sessions, air, read, careless>>

Off == [on |-> FALSE, sid |-> 0, kem |-> 0, mldsa |-> 0, ready |-> FALSE, next |-> 1]
Down == [on |-> FALSE, kem |-> 0, mldsa |-> 0]
NoSessions == [s \in {} |-> s]

Init == /\ made = [k \in Kinds |-> 0]
        /\ writing = [k \in Kinds |-> 0]
        /\ public = [k \in Kinds |-> 0]
        /\ private = [k \in Kinds |-> 0]
        /\ copied = [k \in Kinds |-> 0]
        /\ sat = Off /\ ground = Down
        /\ starts = 0
        /\ sessions = NoSessions
        /\ inits = {} /\ packets = {} /\ acked = {}
        /\ read = {}
        /\ careless = FALSE

-----------------------------------------------------------------------------
\* encapsulate() and decapsulate(): the secret depends on the ciphertext and on the
\* key that opens it, and is the sender's when that is the key it was made for.
Encapsulated(sid, pair) == [for |-> sid, pair |-> pair]
Secret(ciphertext, pair) == [ciphertext |-> ciphertext, pair |-> pair]

\* derive_aes256_key(): one key for each secret; both sides use the same salt and info.
DerivedKey(secret) == [aes |-> secret]

\* Faulty variant: the ground takes the secret itself for the key.
GroundKey_Underived(ciphertext) == Secret(ciphertext, ground.kem)

SatelliteKey(ciphertext) == DerivedKey(Secret(ciphertext, ciphertext.pair))
GroundKey(ciphertext) == DerivedKey(Secret(ciphertext, ground.kem))

\* verify(): FALSE on any failure, one of them a signature made with another pair.
Verified(packet) == packet.signed = ground.mldsa

\* Faulty variant: no authentication tag, so that a wrong key gives wrong plaintext.
Decrypts_Anyhow(packet, key) == TRUE
Plaintext(packet, key) == IF packet.key = key THEN packet.plaintext ELSE <<0, 0>>

\* decrypt(): raises unless the key is the one encrypt() was given.
Decrypts(packet, key) == packet.key = key

-----------------------------------------------------------------------------
\* The order the tools ask for: keys are made and copied while nothing runs (they are
\* run "once ... before starting a session"), and nothing is started on half a set.  A
\* mistake is mended by stopping both programs and starting them on a whole set.
Running == sat.on \/ ground.on
InStep == \A k \in Kinds : public[k] # 0 /\ private[k] = public[k] /\ copied[k] = public[k]

FileStep == /\ careless' = (careless \/ Running)
            /\ UNCHANGED <<sat, ground, starts, sessions, air, read>>

\* bootstrap_receiver_session.py and generate_keys.py generate a pair and write the
\* public key first, ...
WritePublic(k) ==
    /\ writing[k] = 0
    /\ made[k] < MaxPairs
    /\ made' = [made EXCEPT ![k] = @ + 1]
    /\ writing' = [writing EXCEPT ![k] = made[k] + 1]
    /\ public' = [public EXCEPT ![k] = made[k] + 1]
    /\ UNCHANGED <<private, copied>>
    /\ FileStep

\* ... then the private one, ...
WritePrivate(k) ==
    /\ writing[k] # 0
    /\ private' = [private EXCEPT ![k] = writing[k]]
    /\ writing' = [writing EXCEPT ![k] = 0]
    /\ UNCHANGED <<made, public, copied>>
    /\ FileStep

\* ... unless they are stopped in between.
ToolStops(k) ==
    /\ writing[k] # 0
    /\ writing' = [writing EXCEPT ![k] = 0]
    /\ UNCHANGED <<made, public, private, copied>>
    /\ FileStep

\* The operator copies the public key to the other machine.
CopyPublic(k) ==
    /\ public[k] # 0
    /\ copied' = [copied EXCEPT ![k] = public[k]]
    /\ UNCHANGED <<made, writing, public, private>>
    /\ FileStep

-----------------------------------------------------------------------------
\* Faulty variant: every start uses the same session id.
NewSid_Fixed == 1

\* _make_session_id(): one never used before.
NewSid == starts + 1

\* The satellite starts: it reads its two keys (a missing file ends it at once), makes
\* the session and sends the signed session-init.
StartSatellite ==
    /\ ~sat.on
    /\ starts < MaxSessions
    /\ copied["kem"] # 0 /\ private["mldsa"] # 0
    /\ starts' = starts + 1
    /\ sat' = [on |-> TRUE, sid |-> NewSid, kem |-> copied["kem"],
               mldsa |-> private["mldsa"], ready |-> FALSE, next |-> 1]
    /\ inits' = inits \cup {[sid |-> NewSid, signed |-> private["mldsa"],
                             ciphertext |-> Encapsulated(NewSid, copied["kem"])]}
    /\ careless' = ((careless /\ ground.on) \/ ~InStep)
    /\ UNCHANGED <<files, ground, sessions, packets, acked, read>>

StopSatellite == /\ sat.on
                 /\ sat' = Off
                 /\ UNCHANGED <<files, ground, sessions, starts, air, read, careless>>

\* The ground station starts: it reads its two keys and knows no session.
StartGround ==
    /\ ~ground.on
    /\ private["kem"] # 0 /\ copied["mldsa"] # 0
    /\ ground' = [on |-> TRUE, kem |-> private["kem"], mldsa |-> copied["mldsa"]]
    /\ sessions' = NoSessions
    /\ careless' = ((careless /\ sat.on) \/ ~InStep)
    /\ UNCHANGED <<files, sat, starts, air, read>>

StopGround == /\ ground.on
              /\ ground' = Down
              /\ sessions' = NoSessions
              /\ UNCHANGED <<files, sat, starts, air, read, careless>>

-----------------------------------------------------------------------------
\* A session-init whose signature is good opens its session, or finds it open, and is
\* acknowledged; any other is NACKed and changes nothing.
ReceiveInit(p) ==
    /\ ground.on
    /\ Verified(p)
    /\ sessions' = IF p.sid \in DOMAIN sessions THEN sessions
                   ELSE [s \in DOMAIN sessions \cup {p.sid} |->
                           IF s = p.sid THEN GroundKey(p.ciphertext) ELSE sessions[s]]
    /\ acked' = acked \cup {p.sid}
    /\ UNCHANGED <<files, sat, ground, starts, inits, packets, read, careless>>

ReceiveAck == /\ sat.on
              /\ sat.sid \in acked
              /\ sat' = [sat EXCEPT !.ready = TRUE]
              /\ UNCHANGED <<files, ground, sessions, starts, air, read, careless>>

\* The key create_initiator_session() has put into the session.
SessionKey == SatelliteKey(Encapsulated(sat.sid, sat.kem))

\* One turn of the telemetry loop.  The plaintext is marked with its session and number.
SendTelemetry ==
    /\ sat.on /\ sat.ready
    /\ sat.next <= MaxMessages
    /\ packets' = packets \cup {[sid |-> sat.sid, signed |-> sat.mldsa,
                                 key |-> SessionKey, plaintext |-> <<sat.sid, sat.next>>]}
    /\ sat' = [sat EXCEPT !.next = @ + 1]
    /\ UNCHANGED <<files, ground, sessions, starts, inits, acked, read, careless>>

\* A packet whose signature is good, in a session that is open, whose ciphertext
\* decrypts; any other is NACKed and changes nothing.  GroundStation has what comes
\* besides: the session's age and the replay window, which let less be read.
ReceiveTelemetry(p) ==
    /\ ground.on
    /\ Verified(p)
    /\ p.sid \in DOMAIN sessions
    /\ Decrypts(p, sessions[p.sid])
    /\ read' = read \cup {[sid |-> p.sid, trusted |-> ground.mldsa,
                           plaintext |-> Plaintext(p, sessions[p.sid])]}
    /\ UNCHANGED <<files, sat, ground, sessions, starts, air, careless>>

FileSteps(k) == WritePublic(k) \/ WritePrivate(k) \/ ToolStops(k) \/ CopyPublic(k)

Next == \/ \E k \in Kinds : FileSteps(k)
        \/ StartSatellite \/ StopSatellite \/ StartGround \/ StopGround
        \/ \E p \in inits : ReceiveInit(p)
        \/ ReceiveAck \/ SendTelemetry
        \/ \E p \in packets : ReceiveTelemetry(p)

Spec == Init /\ [][Next]_vars

-----------------------------------------------------------------------------
AesKeys == {SatelliteKey(Encapsulated(s, n)) : s \in Sids, n \in Pairs}
           \cup {DerivedKey(Secret(Encapsulated(s, n), m)) : s \in Sids, n \in Pairs, m \in Pairs}

\* Types of the files, of both programs' memory and of what was sent.
TypeOK ==
    /\ made \in [Kinds -> Pairs] /\ writing \in [Kinds -> Pairs]
    /\ public \in [Kinds -> Pairs] /\ private \in [Kinds -> Pairs]
    /\ copied \in [Kinds -> Pairs]
    /\ sat \in [on : BOOLEAN, sid : 0..MaxSessions, kem : Pairs, mldsa : Pairs,
                ready : BOOLEAN, next : 1..(MaxMessages + 1)]
    /\ ground \in [on : BOOLEAN, kem : Pairs, mldsa : Pairs]
    /\ starts \in 0..MaxSessions
    /\ sessions \in [DOMAIN sessions -> AesKeys] /\ DOMAIN sessions \subseteq Sids
    /\ inits \subseteq [sid : Sids, signed : Pairs,
                        ciphertext : {Encapsulated(s, n) : s \in Sids, n \in Pairs}]
    /\ packets \subseteq [sid : Sids, signed : Pairs, key : AesKeys,
                          plaintext : Sids \X (1..MaxMessages)]
    /\ acked \subseteq Sids
    /\ \A r \in read : r.sid \in Sids /\ r.trusted \in Pairs
    /\ careless \in BOOLEAN

\* Whatever mixture of keys the two sides have started with, what the ground reads in a
\* session is what the satellite encrypted for that session and signed with the pair
\* whose public half the ground trusted then (receiver.py:700-743).
ReadIsWhatWasSent ==
    \A r \in read : \E p \in packets :
        /\ p.sid = r.sid /\ p.plaintext = r.plaintext /\ r.plaintext[1] = r.sid
        /\ p.signed = r.trusted

\* What becomes of a session the ground has opened for the running satellite: its
\* signatures are good, and its packets can be read exactly if both programs hold the
\* same encapsulation pair, whatever was started, stopped, copied or sent before.  They
\* do if keys were made and copied as the tools ask for since the two were last both
\* down: mixed or half written keys of earlier runs leave nothing behind.
KeysAgree ==
    sat.on /\ sat.sid \in DOMAIN sessions =>
        /\ sat.mldsa = ground.mldsa
        /\ sessions[sat.sid] = SessionKey <=> sat.kem = ground.kem
        /\ ~careless => sat.kem = ground.kem
=============================================================================
