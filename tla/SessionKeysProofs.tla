------------------------- MODULE SessionKeysProofs --------------------------
(***************************************************************************)
(* Proofs about SessionKeys, for any number of pairs, starts and messages. *)
(***************************************************************************)
EXTENDS SessionKeys, TLAPS

\* While nobody is careless, a running program has the pair that lies on the disk.
KeysOnDisk ==
    ~careless => /\ sat.on => sat.kem = public["kem"]
                 /\ ground.on => ground.kem = public["kem"]

\* A session-init belongs to one start, and its ciphertext to the pair of that start.
InitsOfStarts ==
    /\ sat.on => sat.sid \in 1..starts
    /\ \A p \in inits : /\ p.sid \in 1..starts
                        /\ p.ciphertext.for = p.sid
                        /\ sat.on /\ p.sid = sat.sid => /\ p.ciphertext.pair = sat.kem
                                                       /\ p.signed = sat.mldsa

\* The ground has each key from a session-init, verified and opened with the pairs it
\* holds now.
SessionsOfInits ==
    \A s \in DOMAIN sessions :
        /\ ground.on
        /\ \E p \in inits : /\ p.sid = s /\ Verified(p)
                           /\ sessions[s] = GroundKey(p.ciphertext)

\* A packet carries a plaintext of its own session.
PacketsOfSessions == \A p \in packets : p.plaintext[1] = p.sid

IndInv == /\ TypeOK
          /\ KeysOnDisk /\ InitsOfStarts /\ SessionsOfInits
          /\ PacketsOfSessions /\ ReadIsWhatWasSent

-----------------------------------------------------------------------------
\* Two sides with one pair derive one key from one ciphertext (derive_aes256_key()).
LEMMA OnePairOneKey ==
    ASSUME IndInv
    PROVE  KeysAgree
<1> SUFFICES ASSUME sat.on, sat.sid \in DOMAIN sessions
             PROVE  /\ sat.mldsa = ground.mldsa
                    /\ sessions[sat.sid] = SessionKey <=> sat.kem = ground.kem
                    /\ ~careless => sat.kem = ground.kem
    BY DEF KeysAgree
<1>1. PICK p \in inits : /\ p.sid = sat.sid /\ Verified(p)
                        /\ sessions[sat.sid] = GroundKey(p.ciphertext)
    BY DEF IndInv, SessionsOfInits
<1>2. ~careless => sat.kem = ground.kem
    BY DEF IndInv, SessionsOfInits, KeysOnDisk
<1>3. p.ciphertext = Encapsulated(sat.sid, sat.kem)
    <2>1. PICK s \in Sids, n \in Pairs : p.ciphertext = Encapsulated(s, n)
        BY DEF IndInv, TypeOK
    <2>2. p.ciphertext.for = sat.sid /\ p.ciphertext.pair = sat.kem
        BY <1>1 DEF IndInv, InitsOfStarts
    <2> QED BY <2>1, <2>2 DEF Encapsulated
<1>4. p.ciphertext.pair = sat.kem
    BY <1>3 DEF Encapsulated
<1>5. sat.mldsa = ground.mldsa
    BY <1>1 DEF IndInv, InitsOfStarts, Verified
<1>6. sessions[sat.sid] = SessionKey <=> sat.kem = ground.kem
    BY <1>1, <1>3, <1>4 DEF SessionKey, SatelliteKey, GroundKey, DerivedKey, Secret
<1> QED
    BY <1>2, <1>5, <1>6

\* What a step of the key tools or of the operator leaves alone is all it could disturb.
LEMMA FilesKeepInv ==
    ASSUME IndInv, NEW k \in Kinds, FileSteps(k)
    PROVE  IndInv'
<1>1. /\ UNCHANGED <<sat, ground, starts, sessions, inits, packets, acked, read>>
      /\ careless' = (careless \/ Running)
    BY DEF FileSteps, WritePublic, WritePrivate, ToolStops, CopyPublic, FileStep, air
<1>2. TypeOK'
    <2>1. /\ made' \in [Kinds -> Pairs] /\ writing' \in [Kinds -> Pairs]
          /\ public' \in [Kinds -> Pairs] /\ private' \in [Kinds -> Pairs]
          /\ copied' \in [Kinds -> Pairs]
        BY KeysAssumption DEF FileSteps, WritePublic, WritePrivate, ToolStops, CopyPublic,
                              IndInv, TypeOK, Pairs
    <2> QED BY <1>1, <2>1 DEF IndInv, TypeOK, Running
<1>3. KeysOnDisk'
    BY <1>1 DEF IndInv, KeysOnDisk, Running
<1>4. InitsOfStarts' /\ PacketsOfSessions' /\ ReadIsWhatWasSent'
    BY <1>1 DEF IndInv, InitsOfStarts, PacketsOfSessions, ReadIsWhatWasSent
<1>5. SessionsOfInits'
    BY <1>1 DEF IndInv, SessionsOfInits, GroundKey, Verified
<1> QED BY <1>2, <1>3, <1>4, <1>5 DEF IndInv

\* A key derived by either side is one of the keys there are.
LEMMA KeysAreAesKeys ==
    ASSUME NEW s \in Sids, NEW n \in Pairs, NEW m \in Pairs
    PROVE  /\ SatelliteKey(Encapsulated(s, n)) \in AesKeys
           /\ DerivedKey(Secret(Encapsulated(s, n), m)) \in AesKeys
BY DEF AesKeys

\* The memory of a program that does not run.
LEMMA RestingTypes ==
    /\ Off \in [on : BOOLEAN, sid : 0..MaxSessions, kem : Pairs, mldsa : Pairs,
               ready : BOOLEAN, next : 1..(MaxMessages + 1)]
    /\ Down \in [on : BOOLEAN, kem : Pairs, mldsa : Pairs]
    /\ DOMAIN NoSessions = {} /\ NoSessions \in [DOMAIN NoSessions -> AesKeys]
<1>1. 0 \in Pairs /\ 0 \in 0..MaxSessions /\ 1 \in 1..(MaxMessages + 1)
    BY KeysAssumption DEF Pairs
<1>2. DOMAIN NoSessions = {} /\ NoSessions \in [DOMAIN NoSessions -> AesKeys]
    BY DEF NoSessions
<1> QED BY <1>1, <1>2 DEF Off, Down

\* A start of the satellite takes a session id that no session-init has (_make_session_id()).
LEMMA SatelliteStartKeepsInv ==
    ASSUME IndInv, StartSatellite
    PROVE  IndInv'
<1>1. /\ starts' = starts + 1 /\ starts + 1 \in Sids
      /\ sat' = [on |-> TRUE, sid |-> starts + 1, kem |-> copied["kem"],
                 mldsa |-> private["mldsa"], ready |-> FALSE, next |-> 1]
      /\ inits' = inits \cup {[sid |-> starts + 1, signed |-> private["mldsa"],
                               ciphertext |-> Encapsulated(starts + 1, copied["kem"])]}
      /\ copied["kem"] \in Pairs /\ private["mldsa"] \in Pairs
      /\ careless' = ((careless /\ ground.on) \/ ~InStep)
      /\ UNCHANGED <<made, writing, public, private, copied, ground, sessions, packets,
                     acked, read>>
    BY KeysAssumption DEF StartSatellite, NewSid, files, Sids, IndInv, TypeOK, Kinds
<1>2. TypeOK'
    <2>1. sat' \in [on : BOOLEAN, sid : 0..MaxSessions, kem : Pairs, mldsa : Pairs,
                    ready : BOOLEAN, next : 1..(MaxMessages + 1)]
        BY <1>1, KeysAssumption DEF Sids
    <2>2. inits' \subseteq [sid : Sids, signed : Pairs,
                            ciphertext : {Encapsulated(s, n) : s \in Sids, n \in Pairs}]
        BY <1>1 DEF IndInv, TypeOK
    <2>3. starts' \in 0..MaxSessions /\ careless' \in BOOLEAN
        BY <1>1, KeysAssumption DEF IndInv, TypeOK, Sids, InStep
    <2> QED BY <1>1, <2>1, <2>2, <2>3 DEF IndInv, TypeOK
<1>3. KeysOnDisk'
    BY <1>1 DEF IndInv, KeysOnDisk, InStep, Kinds
<1>4. InitsOfStarts'
    <2>1. starts \in Nat
        BY KeysAssumption DEF IndInv, TypeOK
    <2>2. /\ sat'.sid \in 1..starts' /\ sat'.sid = starts + 1 /\ sat'.kem = copied["kem"]
          /\ sat'.mldsa = private["mldsa"]
        BY <1>1, <2>1
    <2>3. ASSUME NEW p \in inits'
          PROVE  /\ p.sid \in 1..starts' /\ p.ciphertext.for = p.sid
                 /\ p.sid = sat'.sid => p.ciphertext.pair = sat'.kem /\ p.signed = sat'.mldsa
        <3>1. CASE p \in inits
            BY <1>1, <2>1, <2>2, <3>1 DEF IndInv, InitsOfStarts
        <3>2. CASE p \notin inits
            BY <1>1, <2>1, <2>2, <3>2 DEF Encapsulated
        <3> QED BY <3>1, <3>2
    <2> QED BY <2>2, <2>3 DEF InitsOfStarts
<1>5. SessionsOfInits'
    BY <1>1 DEF IndInv, SessionsOfInits, GroundKey, Verified
<1>6. PacketsOfSessions' /\ ReadIsWhatWasSent'
    BY <1>1 DEF IndInv, PacketsOfSessions, ReadIsWhatWasSent
<1> QED BY <1>2, <1>3, <1>4, <1>5, <1>6 DEF IndInv

\* A start of the ground station begins without sessions.
LEMMA GroundStartKeepsInv ==
    ASSUME IndInv, StartGround
    PROVE  IndInv'
<1>1. /\ ground' = [on |-> TRUE, kem |-> private["kem"], mldsa |-> copied["mldsa"]]
      /\ sessions' = NoSessions
      /\ careless' = ((careless /\ sat.on) \/ ~InStep)
      /\ private["kem"] \in Pairs /\ copied["mldsa"] \in Pairs
      /\ UNCHANGED <<made, writing, public, private, copied, sat, starts, inits, packets,
                     acked, read>>
    BY DEF StartGround, files, air, IndInv, TypeOK, Kinds
<1>2. DOMAIN sessions' = {}
    BY <1>1 DEF NoSessions
<1>3. TypeOK'
    <2>1. ground' \in [on : BOOLEAN, kem : Pairs, mldsa : Pairs] /\ careless' \in BOOLEAN
        BY <1>1 DEF IndInv, TypeOK, InStep
    <2>2. sessions' \in [DOMAIN sessions' -> AesKeys]
        BY <1>1, <1>2 DEF NoSessions
    <2> QED BY <1>1, <1>2, <2>1, <2>2 DEF IndInv, TypeOK
<1>4. KeysOnDisk'
    BY <1>1 DEF IndInv, KeysOnDisk, InStep, Kinds
<1>5. InitsOfStarts' /\ SessionsOfInits'
    BY <1>1, <1>2 DEF IndInv, InitsOfStarts, SessionsOfInits
<1>6. PacketsOfSessions' /\ ReadIsWhatWasSent'
    BY <1>1 DEF IndInv, PacketsOfSessions, ReadIsWhatWasSent
<1> QED BY <1>3, <1>4, <1>5, <1>6 DEF IndInv

\* A program that stops forgets its keys, and the ground its sessions.
LEMMA StopsKeepInv ==
    ASSUME IndInv, StopSatellite \/ StopGround
    PROVE  IndInv'
<1>1. /\ UNCHANGED <<made, writing, public, private, copied, starts, inits, packets,
                     acked, read, careless>>
      /\ sat' \in {sat, Off} /\ ground' \in {ground, Down}
      /\ \/ sessions' = sessions /\ ground' = ground
         \/ sessions' = NoSessions
    BY DEF StopSatellite, StopGround, files, air
<1>2. TypeOK'
    <2>1. /\ sat' \in [on : BOOLEAN, sid : 0..MaxSessions, kem : Pairs, mldsa : Pairs,
                       ready : BOOLEAN, next : 1..(MaxMessages + 1)]
          /\ ground' \in [on : BOOLEAN, kem : Pairs, mldsa : Pairs]
        BY <1>1, RestingTypes DEF IndInv, TypeOK
    <2>2. sessions' \in [DOMAIN sessions' -> AesKeys] /\ DOMAIN sessions' \subseteq Sids
        <3>1. CASE sessions' = sessions
            BY <3>1 DEF IndInv, TypeOK
        <3>2. CASE sessions' = NoSessions
            BY <3>2, RestingTypes
        <3> QED BY <1>1, <3>1, <3>2
    <2> QED BY <1>1, <2>1, <2>2 DEF IndInv, TypeOK
<1>3. KeysOnDisk' /\ InitsOfStarts'
    BY <1>1 DEF IndInv, KeysOnDisk, InitsOfStarts, Off, Down
<1>4. SessionsOfInits'
    BY <1>1 DEF IndInv, SessionsOfInits, NoSessions, GroundKey, Verified
<1>5. PacketsOfSessions' /\ ReadIsWhatWasSent'
    BY <1>1 DEF IndInv, PacketsOfSessions, ReadIsWhatWasSent
<1> QED BY <1>2, <1>3, <1>4, <1>5 DEF IndInv

-----------------------------------------------------------------------------
\* The ground derives a key only for a session-init it has before it.
LEMMA ReceiveInitKeepsInv ==
    ASSUME IndInv, NEW p \in inits, ReceiveInit(p)
    PROVE  IndInv'
<1>1. /\ ground.on /\ Verified(p)
      /\ sessions' = IF p.sid \in DOMAIN sessions THEN sessions
                     ELSE [s \in DOMAIN sessions \cup {p.sid} |->
                             IF s = p.sid THEN GroundKey(p.ciphertext) ELSE sessions[s]]
      /\ acked' = acked \cup {p.sid}
      /\ UNCHANGED <<made, writing, public, private, copied, sat, ground, starts, inits,
                     packets, read, careless>>
    BY DEF ReceiveInit, files
<1>2. p.sid \in Sids /\ GroundKey(p.ciphertext) \in AesKeys
    BY KeysAreAesKeys DEF IndInv, TypeOK, GroundKey
<1>3. TypeOK'
    <2>1. sessions' \in [DOMAIN sessions' -> AesKeys] /\ DOMAIN sessions' \subseteq Sids
        BY <1>1, <1>2 DEF IndInv, TypeOK
    <2> QED BY <1>1, <1>2, <2>1 DEF IndInv, TypeOK
<1>4. KeysOnDisk' /\ InitsOfStarts'
    BY <1>1 DEF IndInv, KeysOnDisk, InitsOfStarts
<1>5. SessionsOfInits'
    <2> SUFFICES ASSUME NEW s \in DOMAIN sessions'
                 PROVE  \E q \in inits : /\ q.sid = s /\ Verified(q)
                                         /\ sessions'[s] = GroundKey(q.ciphertext)
        BY <1>1 DEF SessionsOfInits, GroundKey, Verified
    <2>1. CASE s \in DOMAIN sessions
        BY <1>1, <2>1 DEF IndInv, SessionsOfInits
    <2>2. CASE s \notin DOMAIN sessions
        BY <1>1, <2>2
    <2> QED BY <2>1, <2>2
<1>6. PacketsOfSessions' /\ ReadIsWhatWasSent'
    BY <1>1 DEF IndInv, PacketsOfSessions, ReadIsWhatWasSent
<1> QED BY <1>3, <1>4, <1>5, <1>6 DEF IndInv

LEMMA ReceiveAckKeepsInv ==
    ASSUME IndInv, ReceiveAck
    PROVE  IndInv'
<1>1. /\ sat' = [sat EXCEPT !.ready = TRUE]
      /\ UNCHANGED <<made, writing, public, private, copied, ground, starts, sessions,
                     inits, packets, acked, read, careless>>
    BY DEF ReceiveAck, files, air
<1>2. TypeOK'
    <2>1. sat' \in [on : BOOLEAN, sid : 0..MaxSessions, kem : Pairs, mldsa : Pairs,
                    ready : BOOLEAN, next : 1..(MaxMessages + 1)]
        <3>1. sat \in [on : BOOLEAN, sid : 0..MaxSessions, kem : Pairs, mldsa : Pairs,
                       ready : BOOLEAN, next : 1..(MaxMessages + 1)]
            BY DEF IndInv, TypeOK
        <3>2. TRUE \in BOOLEAN
            OBVIOUS
        <3> QED BY ONLY <1>1, <3>1, <3>2, Zenon
    <2> QED BY <1>1, <2>1 DEF IndInv, TypeOK
<1>3. KeysOnDisk' /\ InitsOfStarts'
    BY <1>1 DEF IndInv, TypeOK, KeysOnDisk, InitsOfStarts
<1>4. SessionsOfInits' /\ PacketsOfSessions' /\ ReadIsWhatWasSent'
    BY <1>1 DEF IndInv, SessionsOfInits, PacketsOfSessions, ReadIsWhatWasSent, GroundKey, Verified
<1> QED BY <1>2, <1>3, <1>4 DEF IndInv

\* A packet that is sent carries a plaintext of the session it is sent in.
LEMMA SendKeepsInv ==
    ASSUME IndInv, SendTelemetry
    PROVE  IndInv'
<1>1. /\ sat.on /\ sat.next <= MaxMessages
      /\ packets' = packets \cup {[sid |-> sat.sid, signed |-> sat.mldsa,
                                   key |-> SessionKey, plaintext |-> <<sat.sid, sat.next>>]}
      /\ sat' = [sat EXCEPT !.next = @ + 1]
      /\ UNCHANGED <<made, writing, public, private, copied, ground, starts, sessions,
                     inits, acked, read, careless>>
    BY DEF SendTelemetry, files
<1>2. sat.sid \in Sids /\ sat.kem \in Pairs /\ sat.mldsa \in Pairs
    BY <1>1, KeysAssumption DEF IndInv, TypeOK, InitsOfStarts, Sids
<1>3. SessionKey \in AesKeys
    BY <1>2, KeysAreAesKeys DEF SessionKey
<1>4. TypeOK'
    <2>1. sat' \in [on : BOOLEAN, sid : 0..MaxSessions, kem : Pairs, mldsa : Pairs,
                    ready : BOOLEAN, next : 1..(MaxMessages + 1)]
        BY <1>1, KeysAssumption DEF IndInv, TypeOK
    <2>2. <<sat.sid, sat.next>> \in Sids \X (1..MaxMessages)
        BY <1>1, <1>2, KeysAssumption DEF IndInv, TypeOK
    <2>3. packets' \subseteq [sid : Sids, signed : Pairs, key : AesKeys,
                              plaintext : Sids \X (1..MaxMessages)]
        BY <1>1, <1>2, <1>3, <2>2 DEF IndInv, TypeOK
    <2> QED BY <1>1, <2>1, <2>3 DEF IndInv, TypeOK
<1>5. KeysOnDisk' /\ InitsOfStarts'
    BY <1>1 DEF IndInv, TypeOK, KeysOnDisk, InitsOfStarts
<1>6. SessionsOfInits' /\ PacketsOfSessions' /\ ReadIsWhatWasSent'
    BY <1>1 DEF IndInv, SessionsOfInits, PacketsOfSessions, ReadIsWhatWasSent, GroundKey, Verified
<1> QED BY <1>4, <1>5, <1>6 DEF IndInv

\* What is read is a packet that was sent, since only its own key opens it (decrypt()).
LEMMA ReceiveTelemetryKeepsInv ==
    ASSUME IndInv, NEW p \in packets, ReceiveTelemetry(p)
    PROVE  IndInv'
<1>1. /\ p.signed = ground.mldsa
      /\ read' = read \cup {[sid |-> p.sid, trusted |-> ground.mldsa,
                             plaintext |-> p.plaintext]}
      /\ UNCHANGED <<made, writing, public, private, copied, sat, ground, starts, sessions,
                     inits, packets, acked, careless>>
    BY DEF ReceiveTelemetry, Verified, Decrypts, Plaintext, files, air
<1>2. TypeOK'
    BY <1>1 DEF IndInv, TypeOK
<1>3. KeysOnDisk' /\ InitsOfStarts'
    BY <1>1 DEF IndInv, KeysOnDisk, InitsOfStarts
<1>4. SessionsOfInits' /\ PacketsOfSessions'
    BY <1>1 DEF IndInv, SessionsOfInits, PacketsOfSessions, GroundKey, Verified
<1>5. ReadIsWhatWasSent'
    BY <1>1 DEF IndInv, ReadIsWhatWasSent, PacketsOfSessions
<1> QED BY <1>2, <1>3, <1>4, <1>5 DEF IndInv

-----------------------------------------------------------------------------
\* The invariant the other theorems follow from: keys in memory are those on the disk
\* unless the operator is careless, each key of the ground comes from a session-init, and
\* each session-init from one start of the satellite (key_manager.py:219-312).
THEOREM Inductive == Spec => []IndInv
<1>1. Init => IndInv
    <2> SUFFICES ASSUME Init PROVE IndInv
        OBVIOUS
    <2>1. TypeOK
        <3>1. 0 \in Pairs /\ 0 \in 0..MaxSessions
            BY KeysAssumption DEF Pairs
        <3>2. [k \in Kinds |-> 0] \in [Kinds -> Pairs]
            BY <3>1
        <3>3. sessions \in [DOMAIN sessions -> AesKeys] /\ DOMAIN sessions \subseteq Sids
            BY RestingTypes DEF Init
        <3>4. /\ made \in [Kinds -> Pairs] /\ writing \in [Kinds -> Pairs]
              /\ public \in [Kinds -> Pairs] /\ private \in [Kinds -> Pairs]
              /\ copied \in [Kinds -> Pairs]
            BY <3>2 DEF Init
        <3>5. /\ sat \in [on : BOOLEAN, sid : 0..MaxSessions, kem : Pairs, mldsa : Pairs,
                          ready : BOOLEAN, next : 1..(MaxMessages + 1)]
              /\ ground \in [on : BOOLEAN, kem : Pairs, mldsa : Pairs]
            BY RestingTypes DEF Init
        <3>6. inits = {} /\ packets = {} /\ acked = {} /\ read = {}
            BY DEF Init
        <3>7. starts \in 0..MaxSessions /\ careless \in BOOLEAN
            BY <3>1 DEF Init
        <3> QED BY <3>3, <3>4, <3>5, <3>6, <3>7 DEF TypeOK
    <2>2. KeysOnDisk /\ InitsOfStarts /\ SessionsOfInits
        BY DEF Init, KeysOnDisk, InitsOfStarts, SessionsOfInits, Off, Down, NoSessions
    <2>3. PacketsOfSessions /\ ReadIsWhatWasSent
        BY DEF Init, PacketsOfSessions, ReadIsWhatWasSent
    <2> QED BY <2>1, <2>2, <2>3 DEF IndInv
<1>2. IndInv /\ [Next]_vars => IndInv'
    <2> SUFFICES ASSUME IndInv, [Next]_vars PROVE IndInv'
        OBVIOUS
    <2>1. ASSUME NEW k \in Kinds, FileSteps(k) PROVE IndInv'
        BY <2>1, FilesKeepInv
    <2>2. CASE StartSatellite
        BY <2>2, SatelliteStartKeepsInv
    <2>3. CASE StartGround
        BY <2>3, GroundStartKeepsInv
    <2>4. CASE StopSatellite \/ StopGround
        BY <2>4, StopsKeepInv
    <2>5. ASSUME NEW p \in inits, ReceiveInit(p) PROVE IndInv'
        BY <2>5, ReceiveInitKeepsInv
    <2>6. CASE ReceiveAck
        BY <2>6, ReceiveAckKeepsInv
    <2>7. CASE SendTelemetry
        BY <2>7, SendKeepsInv
    <2>8. ASSUME NEW p \in packets, ReceiveTelemetry(p) PROVE IndInv'
        BY <2>8, ReceiveTelemetryKeepsInv
    <2>9. CASE UNCHANGED vars
        BY <2>9 DEF vars, files, air, IndInv, TypeOK, KeysOnDisk, InitsOfStarts,
                    SessionsOfInits, PacketsOfSessions, ReadIsWhatWasSent, GroundKey, Verified
    <2> QED BY <2>1, <2>2, <2>3, <2>4, <2>5, <2>6, <2>7, <2>8, <2>9 DEF Next
<1> QED BY <1>1, <1>2, PTL DEF Spec

\* Files, memory and packets keep their types, for any number of pairs, starts and messages.
THEOREM TypeCorrect == Spec => []TypeOK
<1>1. IndInv => TypeOK
    BY DEF IndInv
<1> QED BY <1>1, Inductive, PTL

\* An open session can be read exactly if both sides hold one encapsulation pair, which
\* they do if keys were made and copied while nothing ran, since the two were last both
\* down (bootstrap_receiver_session.py:11-13).
THEOREM SameKey == Spec => []KeysAgree
<1>1. IndInv => KeysAgree
    BY OnePairOneKey
<1> QED BY <1>1, Inductive, PTL

\* Whatever keys the two sides hold, nothing is read but what was sent for that session
\* and signed with the trusted pair (receiver.py:700-749).
THEOREM ReadWasSent == Spec => []ReadIsWhatWasSent
<1>1. IndInv => ReadIsWhatWasSent
    BY DEF IndInv
<1> QED BY <1>1, Inductive, PTL
=============================================================================
