# AegisLEO: a TLA+ verification project

AegisLEO sends signed and encrypted telemetry from a satellite to a ground
station over a half-duplex LoRa link. This directory models the part of the
repository that has state and can go wrong over time: the transport between
`satellite/transmitter.py` and `groundstation/receiver.py`, with the
reassembly of chunked messages, the replay window and the byte framing they
rely on; the keys both sides must agree on; and the data, from the telemetry
sample to the file the anomaly detector is trained from. TLC checks the models
on small instances. TLAPS proves for every value of the constants the safety
properties of the replay window, of reassembly, of the framing, of the session
keys, of the satellite against arbitrary answers, of the feature log, and of the composition
of satellite and ground station, which is proved to implement an abstract
specification of delivery.

## 1. The system

| Part | State | Operations |
|---|---|---|
| Satellite transmitter (`satellite/transmitter.py`) | session id, sequence number, pending chunks, cycle counters of the loop it waits in | send the session-init, wait for its ACK or NACK, send a telemetry message, wait, resend all or some chunks, report `DELIVERY_OK` or `DELIVERY_FAIL` |
| Ground station receiver (`groundstation/receiver.py`) | serial buffer, sessions, replay windows, time of the last NACK | parse frames, validate chunks, collect them, process a finished message, ACK, NACK, periodic and expiry NACKs while idle |
| Reassembly factory (`groundstation/reassembly.py`) | one `ChunkAssembly` for each (type, session, message) | `add_chunk`, `get_assembled`, `flush_stale` |
| Replay window (`groundstation/replay_window.py`) | `max_seq`, `_seen_mask` | `check`, `accept`, `record`, `reset`, `window_floor` |
| Framing (both programs hold the same code) | receive buffer | stuff and unstuff the length, write a frame, extract frames |
| Session keys (`crypto/key_manager.py` over `pq_kem.py`, `aes_gcm.py`, `mldsa_signatures.py`) | sessions with an AES key and an expiry time; key files on both machines | make a pair, write it, copy its public half, load, encapsulate, decapsulate, derive, test expiry |
| Key tools (`tools/bootstrap_receiver_session.py`, `tools/generate_keys.py`) | the key files | generate a pair, write its two halves |
| Telemetry model (`common/telemetry_model.py`, `ccsds/frame.py`) | none | sample, features, envelope, frame |
| Detector (`models/runtime_detector.py`) | none | score one packet |
| Feature log (`groundstation/feature_logger.py`, `models/generate_normal_dataset.py`, `models/window_dataset.py`) | one CSV file with two writers and a reader | append a row, replace the file, cut windows |
| Legacy, MQTT and training code, radio stubs, adversary scripts, tools | not part of the running link | |

The two programs share nothing but the link. The satellite splits a message
into chunks, each a JSON packet with a CRC of its fragment, in a frame of its
own. The ground station collects chunks until a message is complete and then
processes it in the same pass: decode, verify, find the session, decrypt,
consult the replay window, log, score, ACK. Anything that fails is answered
with a NACK, for chunk 0 or for chunks 0 to 7. While no byte comes in, the
ground station NACKs every incomplete buffer at intervals and expires stale
ones. The satellite has one message in flight and reads one control packet in
each listening cycle.

What is hard in it:

* loss, damage and late answers in either direction, with retransmission
  driven by both sides (the satellite's silence and the ground's NACKs);
* answers to an earlier message or an earlier session still under way;
* buffers that expire, conflict, or are opened by chunks of a message that is
  already finished;
* state that is changed before a later step of the same handler fails;
* boundaries: of the replay window, of the cycle counters, of the length field;
* restarts of either side, which forget everything but the feature log;
* writes that raise, to the serial port or to the feature log, in the middle of
  a handler or of the frames of one read;
* keys that are replaced on disk under a running program, which neither side
  can notice;
* a file with two writers and no lock.

What correctness means for each part:

* replay window: its verdict on a number is that of the complete history;
* reassembly: a message handed over is whole and unmixed, a buffer is dropped
  only for a reason, an abandoned one does go;
* framing: the frames found do not depend on how the bytes were read, and
  damage has a bounded reach;
* link: the ground logs a message at most once, in order, in a session that was
  agreed; `DELIVERY_OK` is true; the satellite never waits for ever, keeps
  silent or floods the link, whatever it is answered;
* keys: what is read is what was sent; the keys of a session agree exactly when
  both sides hold one pair, and in the documented order of making and copying
  keys they do;
* data: every value stays under its name from the sample to the training
  window, and no sample of the simulator raises an alarm.

`PROJECT.json` lists the hazards one by one with their lines and the properties
that cover them.

## 2. Modules

| Module | What it is |
|---|---|
| `ReplaySpec` | abstract: remembers every number ever taken and judges by that |
| `ReplayMask` | the window as a value: `Check`, `RecordRaises`, `Record`, `WindowFloor` |
| `ReplayWindow` | the object under any sequence of calls; implements `ReplaySpec` |
| `ReplayBits` | the arithmetic of `_seen_mask` as an integer, compared with `ReplayMask` |
| `ReplayWindowProofs` | proofs about `ReplayWindow` and `ReplayBits` |
| `ChunkBuffers` | buffers as values: `Verdict` and `Added` (`add_chunk`), `Stale` and `Flushed` (`flush_stale`), `Missing`, `Trimmed`, `Aged` |
| `Reassembly` | the factory under any sequence of calls and the passing of time |
| `ReassemblyProofs` | its proofs |
| `Framing` | the byte level: frames, stuffing, parser, arbitrary reads, one damaged byte |
| `FramingProofs` | its proofs |
| `Link` | the radio link as the programs see it (external): two bounded queues, loss, damage |
| `Satellite` | the transmitter, over `Link` |
| `SatelliteProofs` | lemmas about the queues, the pending chunks and the satellite's steps, for the two systems it is part of |
| `GroundStation` | the receiver, over `Link`, `ChunkBuffers` and `ReplayMask` |
| `TelemetryDelivery` | abstract: what both sides do together, and the promises that follow from it |
| `AegisLink` | the composition of satellite, ground station and link; implements `TelemetryDelivery` |
| `AegisLinkProofs` | its proofs |
| `SatelliteAlone` | the same `Satellite` against answers of any kind |
| `SatelliteAloneProofs` | its proofs |
| `SessionKeys` | key files, the programs that load them, sessions, and what is encrypted and read |
| `SessionKeysProofs` | its proofs |
| `TelemetryModel` | sample, payload, frame, features, detector and envelope as operators |
| `FeatureLog` | the training file with its two writers and its reader, over `TelemetryModel` |
| `FeatureLogProofs` | its proofs |
| `MCReplayWindow`, `MCReassembly`, `MCFraming`, `MCAegisLink`, `MCSatellite`, `MCSessionKeys`, `MCFeatureLog` | instances for TLC |

Operators with an underscore in their name (`Record_Restarts`,
`TakeMessage_Kept`, ...) are faulty variants of the definition that follows
them. They are not part of any specification; each shows that a property would
notice that fault.

### How state and actions correspond to the code

*Replay window.* `win.max_seq` is `max_seq`; the set `win.seen_mask` holds the
positions of the one bits of `_seen_mask`, so that the shift with its cut to
`window_size` bits is `Shifted`. `RecordRaises` states the tests of `record()`
separately from those of `check()`, because the code has them twice.

`ReplayBits` repeats `check()` and `record()` on the integer, a shift being a
multiplication by a power of two and the cut a remainder.

*Reassembly.* `buffers` is `_buffers`. The key keeps session and message id;
the chunk type is determined by the message id, which a session-init lacks
(`NoMid`). A fragment is a model value, a CRC failure the flag `intact`.
`idle` counts `Tick`s since `updated_at`, up to one more than the largest TTL.
`add_chunk()` begins with `flush_stale()`, so `Added` begins with `Flushed`.

*Framing.* A byte has three bits in the runs and keeps the low bits of the real
one: 0x7E, 0x7F, 0x7D are 6, 7, 5, and the mask 0x20 is 4. `Extract` is the
whole parsing loop. The two copies of the parser differ in the least size they
wait for, which decides nothing: an incomplete length is waited for anyway.

*Satellite.* `phase` is the place in the program. One action is one listening
cycle: `SiQuietCycle`, `SiForeignControl`, `SiAck` and `SiNack` for the
session-init, and the four `Tc...` actions for telemetry. `ReadControl` is
`read_control_packet()`: it takes as many control packets as have arrived,
returns the first and loses the others. `verdicts` and, on the other side,
`opened` are history variables. Session ids, random in the code, are
numbered in the order they are made (`FreshSid`). Sleeps have no state and are
left out.

*Ground station.* One action handles one frame, up to the answer:
`CollectChunk`, `RejectGarbled`, `OpenSession`, `AckKnownSession`,
`RefuseTelemetry`, `AcceptTelemetry`. `GroundIdle` is the branch for an empty
read. Several frames in one read are several steps, since nothing is read or
sent between them that the order of steps would hide. Cryptography appears by
its effect: a message with an altered fragment does not decode or verify.
`AcceptTelemetry` records, logs and only then lets the detector return or
raise. The constant `DetectorInputs` says what the detector is handed:
`detect()` is written and tested for a frame, the receiver hands it a
`Telemetry` object, on which it always raises (see Findings). The runs of the
link that pass allow either in each step, so they hold of the code as it is and
with that call repaired. The runs that find something have the code as it is,
`{"telemetry"}`. `Failures` says which writes may raise. A control packet whose
write raises may be out or not (`AnswerRaises`); inside a handler the `except`
branch answers again with NACK [0] (`ExceptNack`), and when that raises too, or
the first write was outside the handler's `try`, the loop over the frames of
this read ends and the frames behind are dropped (`DropRead`).

*Satellite alone.* `SatelliteAlone` uses the actions of `Satellite` as they are,
with the counts of the code, and lets any control packet come at any time:
ACKs and NACKs of this message, of others, and of sessions of earlier starts.
`silence` and `sendings` are history variables.

*Session keys.* A pair is a number, a file holds the number of the pair its
half is from. `writing` is a key tool between its two writes; what a single
`write_bytes()` leaves half done is left out. A ciphertext is the session it
was made for with the pair it was made with; `Secret` of it depends on the pair
it is opened with, and `DerivedKey` on the secret. `GroundKey` never fails,
because ML-KEM decapsulation does not. A plaintext is marked with the session
and the number it was made for, which the frame itself does not say, so that
the properties can tell. Packets stay in the air for ever and
may be received at any time, so losses, repetitions and delays are all there,
and the replay window and the session's age, which only refuse, are left to
`GroundStation`. `careless` records that keys were touched while a program
ran, or a program was started on files of different pairs; it is forgotten when
one program is started on files that fit while the other is down. The tools write to
`keys/` and `dev_secrets/groundstation/`, where the program on the same machine
reads them; `copied` is the public half on the other machine.

*Data.* Numbers are integers in small units. `FeatureVector`, `FeatureKeys`,
`Payload`, `Received` and `FeatureColumns` are the five lists of the code that
name the same values. `FeatureLog` has the file operations of `log()` as
separate steps (`LogLooks`, `LogOpens`, `LogWrites`) since another program may
come between them; what one `with open(...)` block writes reaches the file
when it is closed. The generator's flushes may come anywhere.

*Link.* Frames are whole at this level. What `Framing` shows justifies it:
damage destroys the frames within its reach, which are lost frames here. A
frame that the parser holds back until more bytes come is a late one
(`Timely = FALSE`). `Damage` and `Mishaps` choose, run by run, what may go
wrong. A damaged chunk number (`Misread`) is possible because the CRC covers
the fragment alone. That every chunk of a message is misread alike, into a
whole message of another number, is left out. Damage to the session id is not
modelled: nobody shares the resulting id, so the chunk is as good as lost.
`Misread` takes the number to either neighbour, the message before or the one
after; with two messages to a session every other message is one.

## 3. Runs

| Run | Instance | What it shows |
|---|---|---|
| `replay_window` | window of 3, numbers -1 to 8 | types, digest, `NoReplay`, `OnlyReplaysRefused`, `RecordAgreesWithCheck`, `ArithmeticIsBits`, refinement of `ReplaySpec` |
| `reassembly` | a session-init of 2 chunks and a telemetry message of 3, with repeats, conflicting fragments, other totals and a bad CRC | nothing is mixed up or lost, buffers go only for a reason, abandoned ones do go |
| `framing` | up to 4 frames of 1 or 5 payload bytes, every cut into reads, one byte altered or lost | the parser does not depend on the reads; undamaged frames arrive; damage has a reach; the buffer is bounded |
| `aegis_link` | one session, two messages of two chunks, losses both ways, answers that may be late, writes to the port that raise | `AcksAreEarned` and the refinement of `TelemetryDelivery` |
| `aegis_link_damage` | fragments and chunk numbers damaged unnoticed by the CRC, a feature log that fails | nothing misplaced, conflicting or garbled is logged or acknowledged, and no complete message stays in the buffers |
| `aegis_link_restart` | two sessions, both programs restart at any time, sessions expire | the promise survives restarts; a session the ground has lost is refused until the satellite starts again (`LostSessionsStayLost`) |
| `satellite` | the real counts 32, {6, 10}, 14, 3; arbitrary answers | `WaitingEnds`; no message is left in silence (`SilenceIsBroken`) or sent more often than the satellite listens (`OneSendingPerRead`); each is concluded once |
| `session_keys` | two pairs of each kind, two starts, two messages | `ReadIsWhatWasSent`; `KeysAgree`: one key exactly when one pair, and one pair when the files were settled |
| `feature_log` | all 60 phases of the sample's cycles, two further messages, a synthetic set of 2 rows, windows of 2 | the file is its history, windows lose only the last row, columns hold what they are named for, no sample raises an alarm, what the envelope check explains is flagged |
| `aegis_link_no_ack`, `aegis_link_expiry`, `aegis_link_nack_list` | | the findings below |

*Bounds.* The window of 3 with numbers up to 8 has jumps shorter than, equal
to and longer than the window, and numbers on both sides of the floor. Two
chunks are the least for which a message can be partly there; reassembly alone
has three. In the composition the cycle counts 32, 14, 3 and the nudges in
{6, 10} are scaled to 2, 2 or 3, 1 or 2, and {1} or {2}: the order of nudge,
quiet limit and end is kept, and every branch is reached. `satellite` has the
counts of the code. Two messages are needed for an answer to
the earlier one to meet the later, two sessions for a restart. `MaxUp` (3 to
5) and `MaxDown` (1 or 2) are what waits unread; a full queue drops, so the
bound adds behaviours and removes none that matter. The framing payloads
include a length that needs stuffing and end in the escape byte, as JSON does;
`LongestFrame` is 13, and four frames reach beyond it.

The sample's cycles have lengths 5, 15, 3 and 4, so all repeat after 60
numbers. Two pairs and two starts are what it takes for an old key, packet or
session to meet a new one; the proofs are for any number.

*Deadlock* is checked except in `framing`, where everything may have been
sent and read, and in `satellite`, where the program may have exited.

*Fairness.* `FairSpec` of `SatelliteAlone` has weak fairness of the satellite's
program, a loop whose reads time out (`ACK_WAIT_SECONDS`, the serial timeout
of 0.2 s), so that it never blocks, and of bytes leaving the port. Nothing is
assumed of the radio or of the ground station. `FairSpec` of `Reassembly` has
weak fairness of time and of the receiver's loop: again and again a pass calls
`add_chunk()` or `flush_stale()`. A pass that reads only noise, control packets
or packets that fail validation (`receiver.py:579-607`) calls neither, so this
assumes that the radio is not busy with such input for ever. That a message is delivered at all is not
claimed: no fairness of the radio would suffice, since the satellite gives a
message up after fourteen cycles.

## 4. Findings

* `aegis_link_no_ack`: `receiver.py:788` passes a `Telemetry` object to a
  detector that calls `frame.get()`. It raises for every accepted packet, after
  the sequence number is recorded and the features are logged. The satellite
  gets NACK [0], resends, and is refused as a replay.
* `aegis_link_expiry`: `add_chunk()` begins with `flush_stale()` and drops the
  list it returns (`reassembly.py:511`). A message that is stale when a chunk of
  another comes in, before an empty read, vanishes without a NACK, which the
  comment at `reassembly.py:644-648` warns of.
* `aegis_link_nack_list`: the NACK for an expired buffer lists what was missing
  when the rest has just been deleted, against `docs/protocol_spec.md:102`.

Smaller observations, without a run of their own:

* `read_control_packet()` throws away what it read behind the first control
  packet. Once the detector call is repaired, that may be the ACK of a telemetry
  message; the ground refuses the repetition as a duplicate with NACK [0], and
  the satellite ends with `DELIVERY_FAIL` for a message that was logged. Nothing
  in the repository promises otherwise, and `TelemetryDelivery` does not either.
* One altered byte of a length can merge two frames, against the comment at
  `transmitter.py:419-421`.
* `README.md:148` says that the bootstrap tool puts the public key into
  `dev_secrets/satellite/`; it puts both keys into `dev_secrets/groundstation/`
  and prints that the public one is to be copied.
* A key tool that is stopped between its two writes, or run again while a
  program is up, leaves keys that do not fit. Nothing tells: the session is
  opened and acknowledged, and then every telemetry packet fails to decrypt.
  `KeysAgree` says so: the keys of the session agree exactly when the pairs do,
  and the pairs do if the order the tools' texts ask for was kept since both
  programs were last down.
* `log()` takes the existence of the file for its header (`feature_logger.py:65`),
  although `feature_logger.py:40-41` says that the first use writes one. Stopped
  between opening a new file and closing it, `log()` leaves one that never gets
  a header, and so does the generator stopped before its first flush; training
  then takes the first row for the names of the columns. `FileIsItsHistory`
  describes the file in these cases (`headless`): the header is missing, and
  nothing else.
* The generator and a receiver that write to the training file at the same time
  overwrite each other's rows. `FileIsItsHistory` leaves out the cases recorded
  in `spoiled`: this one, a stop within a line, and a generator that empties the
  file after `log()` has found none.

## 5. Proofs

`ReplayWindowProofs` assumes that the window size is a positive natural number
(the constructor's own test) and that inputs are integers. The inductive
invariant is `TypeOK` with `WindowMatchesHistory`: the types alone do not say
which numbers the mask stands for, and it is the digest that makes `check()` a
function of the history. `RecordKeepsDigest` shows that one `record()` keeps
it, through the shift. `CheckIsFreshness` and `RaisesIffRefused` then give
`NoReplay`, `OnlyReplaysRefused`, `RecordAgreesWithCheck` and the refinement
of `ReplaySpec` (`Refinement`), whose every step is mapped by the same two
lemmas.

`BitsAreArithmetic` shows that the integer `_seen_mask` is the number of that set of
bits, through test, or, shift and cut, for every window size. The library has no
theory of powers, so `PowersOfTwo` counts subsets: the sets of bits below `n`
split in two halves, with and without the last, which doubles their number. A
number is the sum of its digits: `DigitsAdd` takes such a sum apart at any bit,
and `DigitsFit` and `DigitsAbove` say that the part below is smaller than the power at
that bit and the part above a multiple of it. Division by that power therefore reads
the bit (`BitOfNumber`), adding it sets it (`BitAdded`), and the remainder by
2^`WindowSize` after multiplying by 2^`shift` is what is left of the shifted set
(`NumberOfShifted`). `LeastNumber` stands in for induction over the digits.

`ReassemblyProofs` assumes what `validate_transport_packet()` lets through
(`ChunksAssumption`) and natural TTLs. The inductive invariant joins `TypeOK`
with `BufferIsItsHistory`. That no part lies outside the total is not tested
by the code where it matters: it follows from the test of each chunk's index
against the chunk's own total and of that total against the buffer's.
`CountDecides` turns it into "counting decides completeness", hence
`CompletenessIsCounting` and `HandedOverWhole`. `DroppedRightly` goes through
what `add_chunk()` may remove (`AddedDrops`): a buffer other than the one the call
names goes only when it is incomplete and silent for longer than its own TTL.
`AbandonedFade` is the converse, and the safety half of `AbandonedBuffersGo`: a
buffer without new chunks never gets younger, every clock step makes it older until
it is past its TTL, and then the first call of `add_chunk()` or `flush_stale()`
removes it. What is left to fairness is that the clock and the loop go on.

`SessionKeysProofs` assumes that the bounds are positive. The inductive
invariant adds to `TypeOK` and `ReadIsWhatWasSent` where each key comes from:
what a running program holds is what lies on the disk unless somebody was
careless (`KeysOnDisk`); every session-init belongs to one start of the
satellite, whose id no other has, and to the two pairs of that start
(`InitsOfStarts`); every key of the ground was derived from such a
session-init, verified and opened with the pairs the ground holds now
(`SessionsOfInits`); and a packet carries a plaintext of its own session
(`PacketsOfSessions`). `OnePairOneKey` then gives `KeysAgree`: the ciphertext of
the running session was made with the satellite's pair and the ground opened it
with its own, so the keys are equal exactly if the pairs are; unless somebody was
careless, both are the pair on the disk. Without `InitsOfStarts` an old session-init of
the same id could carry another pair.

`SatelliteProofs` holds what the next two need. Its first lemma,
`LeastNumber`, says that a non-empty set of natural numbers has a least member;
it stands in for induction, and follows from the library's theorem that the
subsets of a finite set are well-founded. From it `NthIsThere` gets the chunks
to resend in their order. `SatSteps` sums up every step of the
satellite as a move of its own state, at most one sending, and at most one read
that shortens a queue.

`AegisLinkProofs` assumes positive bounds and counts (`SatelliteAssumption`,
`LinkAssumption` and the like), and leaves `Damage`, `Failures`, `Mishaps`,
`Timely` and `DetectorInputs` open, so one proof covers all the runs' links and
many more. The inductive invariant is

* `SatInv`, `TypeOK` and `AcksAreEarned`: an ACK under way is for a message that
  the ground has logged, or for a session it has opened;
* `WireInOrder`: chunks that no damage has renumbered arrive in the order of
  their sessions and messages. Resending does not break it, because the
  satellite never comes back to an earlier message (`SoFarForward`);
* `NothingAhead`: nothing under way, logged or in a replay window is ahead of
  the satellite;
* `ArrivalsAreNew`: what is still to arrive is not behind what is logged, nor
  behind the replay window of its session. With `WireInOrder` this is why a late
  chunk of an earlier message cannot follow a logged later one;
* `WindowsRemember`: the newest number of a window is refused by it, and
  everything logged is in it;
* `TelemetryIsAgreed`: telemetry is sent only in a session the ground has opened.

`NothingHeld`, `LostStayLost` and `Refinement` follow step by step from it. For
`Refinement`, `GroundDelivers` maps an accepted packet to `TelemetryDelivery`'s
log step, whose guard (newer than everything logged in its session, in an agreed
session) is what `AcceptedIsNewest` gets from the invariant.

`OfferedInv` adds what the log says of the satellite. `JudgedSoFar`: while it works on a
message, every earlier one of its session has a verdict, and no verdict is ahead.
`ArrivalsWereOffered`: a chunk under way that was not misread belongs to a message whose
predecessor is done. `OfferedInOrder` shows them inductive over the invariant above,
and `Refinement` needs them for the guard of the log step, `Offered`.
`DeliveryPromises` is about `TelemetryDelivery` alone: its invariant `PromiseInv` gives that each session's messages
are logged once and in order, only after they were in hand; that what
`DELIVERY_OK` was said of is in the log; and that no message is judged twice or passed
over. With `Refinement` this becomes a theorem of the composition, `PromisesKept`, for
every link, failing write and restart that the constants allow.

`WindowFollows` has the hypothesis `"log" \notin Failures`: when the write to the
feature log raises, a number is in the window and not in the log, which is the
behaviour of the code (`receiver.py` records before it logs). The run
`aegis_link_restart`, which checks `WindowFollowsLog`, meets it.

`SatelliteAloneProofs` joins the satellite's own counters with the two history
counts. `Pace` bounds `silence` and `sendings`, phase by phase, by `cycle` and
`quiet`: each read is a listening cycle, and each silent read since the last
sending is one of the quiet cycles, which an answer to another message does not
reset. The phases before `tc_wait` are in it because the first message starts
with the counts that the session-init has left. `Concluded` adds to
`EachConcludedOnce` that every verdict is on a session up to the current one, and
on the current one only while its telemetry loop runs. Both hold for any counts,
chunks and answers. `WaitsAreBounded` is the safety half of `WaitingEnds`: a loop that
waits has `ReadsLeft`, a positive number, and each of its steps lowers it or ends
the wait; what is left to fairness is that the program takes its next step.

`FeatureLogProofs` has an inductive invariant of four parts. `DataInv`: the
types, closed, so that every line is a header, a torn line or the row of a
sample. `FileInv`: there is no file but by a writer, and what `log()` found when
it looked is still so when it opens the file, unless it was overtaken, which
spoils it. `GeneratorInv`: while the generator writes, the file is the part of its
set written so far. `HistoryInv`: a settled file that was not spoiled is its
history, place by place; a stop before the first line makes it `headless`, and moves
every place by one (`Headed`). `RowIsOfSample` follows a
value through the five lists of names to its column, and gives `RowsNamed`;
`SampleValues` bounds every reading of a sample, whatever its number, and gives
`SamplesNominal`; `AnomalousByRange` shows that the one half point the detector's
score can have from the state of a sample never decides an alarm, which gives
`EnvelopeFlagged`.

`FramingProofs` leaves open the size of a byte, the markers, the escape mask, the
width of the length field, the longest frame and the payloads. `FramingAssumption`
says what the code's own values have in common: the markers are bytes, the start
marker is neither of the others, flipping takes a special byte to one that is
not; every length up to the longest fits its field, or `to_bytes()` would raise;
and payloads are JSON in ASCII without control bytes or markers. The argument:

* The parser exists. `Extract` is a recursive function, which the prover knows only
  as a choice. `ExtractIsParse` shows that it does satisfy its equation: every pass
  of the loop shortens the buffer (`PassesShorten`), parsers of all buffers up to a
  length can be continued to the next (`SolvedOneFurther`), and they agree
  (`SolvedAlike`). `LeastNumber` stands in for induction here and in what follows:
  a shortest counterexample would have a shorter one.
* Reads do not matter. `ExtractInTwo`: what is found in two reads is what is found in
  both together, because what one pass has decided, more bytes do not change
  (`DecidedStays`). `RestIsShort` bounds what is held back.
* A frame arrives. `FlippedTwice`, `BytePlaces` and `LengthArrives` follow a length
  through stuffing and back, byte by byte; `FrameArrives` is the whole frame with
  anything behind it, `PartWaits` a part of one, and `CleanStream` any number of
  frames heard up to any byte.
* Damage has a reach. There is no start marker within a frame (`OneStart`), so a rest
  that begins with one and lies behind the damage begins at a frame
  (`StartIsFrame`). If intact bytes behind the damage end with a frame and are at least
  a longest frame less one, nothing can be held back after them
  (`NothingHeldOver`): it would be shorter than a longest frame, begin at a frame
  and contain all of it, and a rest contains no whole frame. From there on the
  parser is as good as new (`NothingLeftOver`, `FarEnoughArrive`).

The inductive invariant `StreamInv` is `TypeOK`, `ReadsDoNotMatter` and
`NothingLost`: unless a byte was hit, what was heard and what is under way are what
was written. `IntactBehindHit` adds the same for the bytes behind the one that was
hit. Both are kept by every step, and the properties follow from them by these
lemmas: `FramesDoNotDependOnReads`, `BufferIsBounded`, `FramesArrive`,
`FramesBehindDamageArrive`.

Only model-checked: the two liveness properties `AbandonedBuffersGo` and `WaitingEnds`,
since fairness and ENABLED are outside the prover's reach. Their safety halves,
`AbandonedFade` and `WaitsAreBounded`, are proved.

## 6. Not modelled

The mathematics of the cryptographic primitives, JSON, base64 and zlib,
printing and statistics have no state the properties could tell apart.
`common/protocol.py` does not compile at this commit (its line 77), and the
MQTT path depends on it. The legacy programs are superseded, and
`session_state.py`, `chunking.py`, `pq_sign.py`, the radio stubs and most of
`ccsds/` are imported by neither running program. The training of the
autoencoder is numerics. The adversary scripts, experiments and the two
remaining tools are demonstrations around the system. Windows that are cut across a gap or a restart are taken as the code takes
them, because nothing says what they should be. `PROJECT.json` lists each.

## 7. Plan

Done: replay window (model, arithmetic, refinement, proofs); reassembly (model,
proofs); framing (model, proofs); satellite, ground station and link with their
composition, failing writes and the abstract specification of delivery (models,
proofs, refinement); the satellite alone with the real counts (model, proofs);
session keys (model, proofs); telemetry, detector and feature log (model,
proofs).

Every safety property that a run checks is proved. What could follow needs other
tools or a decision about the code: the liveness properties, should a prover for
fairness be at hand; how long `sessions` and `replay_windows` may grow in the receiver
(`receiver.py:675`), which prunes nothing; and windows cut across a gap, once it is
said what they should be.
