-------------------------- MODULE FeatureLogProofs --------------------------
(***************************************************************************)
(* The feature log for any start of the sequence numbers, any number of    *)
(* messages and generated rows, and any length of window: what its lines   *)
(* are, when they are the file's history, and what training gets of it.    *)
(***************************************************************************)
EXTENDS FeatureLog, FiniteSetTheorems, SequenceTheorems, TLAPS

-----------------------------------------------------------------------------
\* The samples that rows are made of.
Samples == {Jittered(SampleTelemetry(q), j) : q \in Nat, j \in Jitters}

\* A remainder is below what it is the remainder of.
LEMMA Remainders ==
    ASSUME NEW q \in Nat
    PROVE  /\ q % 3 \in 0..2 /\ q % 4 \in 0..3 /\ q % 5 \in 0..4 /\ q % 15 \in 0..14
  OBVIOUS

\* The fields of a Telemetry object.
Fields == {"seq", "temperature_c", "battery_pct", "mode", "latitude", "longitude",
           "altitude_km", "bus_v", "bus_i"}

LEMMA JitteredFields ==
    ASSUME NEW t, NEW j, DOMAIN t = Fields
    PROVE  LET u == Jittered(t, j)
           IN  /\ DOMAIN u = Fields
               /\ u.seq = t.seq /\ u.battery_pct = t.battery_pct /\ u.mode = t.mode
               /\ u.temperature_c = t.temperature_c + 15 * j
               /\ u.latitude = t.latitude + 3 * j /\ u.longitude = t.longitude + 3 * j
               /\ u.altitude_km = t.altitude_km + 5 * j
               /\ u.bus_v = t.bus_v + 2 * j /\ u.bus_i = t.bus_i + j
  BY Zenon DEF Jittered, Fields

\* A sample's values: the modes are those of MODE_MAP, and every reading stays in a
\* narrow band.
LEMMA SampleValues ==
    ASSUME NEW q \in Nat
    PROVE  LET t == SampleTelemetry(q)
           IN  /\ DOMAIN t = Fields
               /\ t.seq = q
               /\ t.mode \in {"NOMINAL", "SUNPOINT", "TX_WINDOW"}
               /\ t.temperature_c \in 2140..2220 /\ t.battery_pct \in 86..100
               /\ t.latitude \in Int /\ t.longitude \in Int /\ t.altitude_km \in Int
               /\ t.bus_v \in 500..509 /\ t.bus_i \in 42..46
<1>1. BatteryPct(q) \in 86..100
  BY Remainders DEF BatteryPct, AtLeast
<1>2. Modes[(q % 3) + 1] \in {"NOMINAL", "SUNPOINT", "TX_WINDOW"}
  BY Remainders DEF Modes
<1> QED
  BY <1>1, <1>2, Remainders DEF SampleTelemetry, Fields

LEMMA JitteredValues ==
    ASSUME NEW q \in Nat, NEW j \in Jitters
    PROVE  LET t == Jittered(SampleTelemetry(q), j)
           IN  /\ DOMAIN t = Fields
               /\ t.seq = q
               /\ t.mode \in {"NOMINAL", "SUNPOINT", "TX_WINDOW"}
               /\ t.temperature_c \in 2125..2235 /\ t.battery_pct \in 86..100
               /\ t.latitude \in Int /\ t.longitude \in Int /\ t.altitude_km \in Int
               /\ t.bus_v \in 498..511 /\ t.bus_i \in 41..47
<1> DEFINE s == SampleTelemetry(q)
           t == Jittered(s, j)
<1>1. /\ DOMAIN s = Fields
      /\ s.seq = q
      /\ s.mode \in {"NOMINAL", "SUNPOINT", "TX_WINDOW"}
      /\ s.temperature_c \in 2140..2220 /\ s.battery_pct \in 86..100
      /\ s.latitude \in Int /\ s.longitude \in Int /\ s.altitude_km \in Int
      /\ s.bus_v \in 500..509 /\ s.bus_i \in 42..46
  BY SampleValues
<1> HIDE DEF s
<1>2. /\ DOMAIN t = Fields
      /\ t.seq = s.seq /\ t.battery_pct = s.battery_pct /\ t.mode = s.mode
      /\ t.temperature_c = s.temperature_c + 15 * j
      /\ t.latitude = s.latitude + 3 * j /\ t.longitude = s.longitude + 3 * j
      /\ t.altitude_km = s.altitude_km + 5 * j
      /\ t.bus_v = s.bus_v + 2 * j /\ t.bus_i = s.bus_i + j
  BY <1>1, JitteredFields
<1>3. j \in -1..1
  BY DEF Jitters
<1> HIDE DEF t
<1> QED
  BY <1>1, <1>2, <1>3 DEF s, t

\* Without jitter the sample stays as it is.
LEMMA NoJitter ==
    ASSUME NEW q \in Nat
    PROVE  Row(Jittered(SampleTelemetry(q), 0)) = Row(SampleTelemetry(q))
<1> DEFINE s == SampleTelemetry(q)
           t == Jittered(s, 0)
<1>1. /\ DOMAIN s = Fields
      /\ s.temperature_c \in Int /\ s.bus_v \in Int /\ s.bus_i \in Int
      /\ s.latitude \in Int /\ s.longitude \in Int /\ s.altitude_km \in Int
  BY SampleValues
<1> HIDE DEF s
<1>2. /\ t.seq = s.seq /\ t.battery_pct = s.battery_pct /\ t.mode = s.mode
      /\ t.temperature_c = s.temperature_c + 15 * 0
      /\ t.latitude = s.latitude + 3 * 0 /\ t.longitude = s.longitude + 3 * 0
      /\ t.altitude_km = s.altitude_km + 5 * 0
      /\ t.bus_v = s.bus_v + 2 * 0 /\ t.bus_i = s.bus_i + 0
  BY <1>1, JitteredFields
<1> HIDE DEF t
<1>3. /\ t.temperature_c = s.temperature_c /\ t.latitude = s.latitude
      /\ t.longitude = s.longitude /\ t.altitude_km = s.altitude_km
      /\ t.bus_v = s.bus_v /\ t.bus_i = s.bus_i
  BY <1>1, <1>2
<1>4. FeatureVector(t) = FeatureVector(s)
  BY <1>2, <1>3, Zenon DEF FeatureVector
<1> QED
  BY <1>4 DEF Row, s, t

\* What the receiver has of a sample is the sample.
LEMMA ReceivedIsSent ==
    ASSUME NEW q \in Nat
    PROVE  Received(BuildFrame(q, Payload(SampleTelemetry(q)))) = SampleTelemetry(q)
  BY DEF Received, BuildFrame, Payload, SampleTelemetry

-----------------------------------------------------------------------------
\* Where the vector has its values.
LEMMA VectorPlaces ==
    ASSUME NEW t,
           t.seq \in Int, t.temperature_c \in Int, t.battery_pct \in Int, t.latitude \in Int,
           t.longitude \in Int, t.altitude_km \in Int, t.bus_v \in Int, t.bus_i \in Int
    PROVE  LET v == FeatureVector(t)
           IN  /\ v \in [1..11 -> Int]
               /\ v[1] = t.seq /\ v[2] = t.temperature_c /\ v[3] = t.battery_pct
               /\ v[4] = t.latitude /\ v[5] = t.longitude /\ v[6] = t.altitude_km
               /\ v[7] = t.bus_v /\ v[8] = t.bus_i
               /\ v[9] = (IF t.mode = "NOMINAL" THEN 1 ELSE 0)
               /\ v[10] = (IF t.mode = "SUNPOINT" THEN 1 ELSE 0)
               /\ v[11] = (IF t.mode = "TX_WINDOW" THEN 1 ELSE 0)
<1> DEFINE readings == <<t.seq, t.temperature_c, t.battery_pct, t.latitude, t.longitude,
                         t.altitude_km, t.bus_v, t.bus_i>>
           marks == [k \in 1..Len(Modes) |-> IF t.mode = Modes[k] THEN 1 ELSE 0]
<1>1. /\ readings \in Seq(Int) /\ Len(readings) = 8
      /\ readings[1] = t.seq /\ readings[2] = t.temperature_c
      /\ readings[3] = t.battery_pct /\ readings[4] = t.latitude
      /\ readings[5] = t.longitude /\ readings[6] = t.altitude_km
      /\ readings[7] = t.bus_v /\ readings[8] = t.bus_i
  OBVIOUS
<1>2. /\ Len(Modes) = 3
      /\ Modes[1] = "NOMINAL" /\ Modes[2] = "SUNPOINT" /\ Modes[3] = "TX_WINDOW"
  BY DEF Modes
<1>3. /\ marks \in [1..3 -> Int]
      /\ marks[1] = (IF t.mode = "NOMINAL" THEN 1 ELSE 0)
      /\ marks[2] = (IF t.mode = "SUNPOINT" THEN 1 ELSE 0)
      /\ marks[3] = (IF t.mode = "TX_WINDOW" THEN 1 ELSE 0)
  BY <1>2
<1> HIDE DEF readings, marks
<1>4. marks \in Seq(Int) /\ Len(marks) = 3
  <2>1. \A k \in 1..3 : marks[k] \in Int
    BY <1>3
  <2>2. marks = [k \in 1..3 |-> marks[k]]
    BY <1>3
  <2>3. 3 \in Nat
    OBVIOUS
  <2> QED
    BY <2>1, <2>2, <2>3
<1> DEFINE v == readings \o marks
<1>5. /\ v \in Seq(Int) /\ Len(v) = 8 + 3
      /\ \A k \in 1..(8 + 3) : v[k] = IF k <= 8 THEN readings[k] ELSE marks[k - 8]
  <2>1. /\ v \in Seq(Int) /\ Len(v) = Len(readings) + Len(marks)
        /\ \A k \in 1..(Len(readings) + Len(marks)) :
              v[k] = IF k <= Len(readings) THEN readings[k] ELSE marks[k - Len(readings)]
    BY <1>1, <1>4, ConcatProperties
  <2> HIDE DEF v
  <2> QED
    BY <1>1, <1>4, <2>1
<1> HIDE DEF v
<1>6. v \in [1..11 -> Int]
  <2>1. Len(v) = 11
    BY <1>5
  <2>2. v \in [1..Len(v) -> Int]
    BY <1>5, LenProperties
  <2> QED
    BY <2>1, <2>2
<1>7. v[9] = marks[1] /\ v[10] = marks[2] /\ v[11] = marks[3]
  BY <1>5
<1>8. /\ v[1] = readings[1] /\ v[2] = readings[2] /\ v[3] = readings[3]
      /\ v[4] = readings[4] /\ v[5] = readings[5] /\ v[6] = readings[6]
      /\ v[7] = readings[7] /\ v[8] = readings[8]
  BY <1>5
<1>9. FeatureVector(t) = v
  BY DEF FeatureVector, v, readings, marks
<1> QED
  BY <1>1, <1>3, <1>6, <1>7, <1>8, <1>9

\* The names of the places differ, so each stands for one.
LEMMA ColumnPlaces ==
    ASSUME NEW row
    PROVE  /\ Column(row, "seq") = row[1] /\ Column(row, "temperature_c") = row[2]
           /\ Column(row, "battery_pct") = row[3] /\ Column(row, "latitude") = row[4]
           /\ Column(row, "longitude") = row[5] /\ Column(row, "altitude_km") = row[6]
           /\ Column(row, "bus_v") = row[7] /\ Column(row, "bus_i") = row[8]
           /\ Column(row, "mode_nominal") = row[9] /\ Column(row, "mode_sunpoint") = row[10]
           /\ Column(row, "mode_tx_window") = row[11]
<1>1. ASSUME NEW k \in DOMAIN FeatureKeys
      PROVE  Column(row, FeatureKeys[k]) = row[k]
  <2>1. \A i \in DOMAIN FeatureKeys : FeatureKeys[i] = FeatureKeys[k] => i = k
    BY DEF FeatureKeys
  <2>2. (CHOOSE i \in DOMAIN FeatureKeys : FeatureKeys[i] = FeatureKeys[k]) = k
    BY <2>1
  <2> QED
    BY <2>2 DEF Column
<1>2. /\ DOMAIN FeatureKeys = 1..11
      /\ FeatureKeys[1] = "seq" /\ FeatureKeys[2] = "temperature_c"
      /\ FeatureKeys[3] = "battery_pct" /\ FeatureKeys[4] = "latitude"
      /\ FeatureKeys[5] = "longitude" /\ FeatureKeys[6] = "altitude_km"
      /\ FeatureKeys[7] = "bus_v" /\ FeatureKeys[8] = "bus_i"
      /\ FeatureKeys[9] = "mode_nominal" /\ FeatureKeys[10] = "mode_sunpoint"
      /\ FeatureKeys[11] = "mode_tx_window"
  BY DEF FeatureKeys
<1>3. \A k \in 1..11 : Column(row, FeatureKeys[k]) = row[k]
  BY <1>1, <1>2
<1>4. /\ 1 \in 1..11 /\ 2 \in 1..11 /\ 3 \in 1..11 /\ 4 \in 1..11 /\ 5 \in 1..11 /\ 6 \in 1..11
      /\ 7 \in 1..11 /\ 8 \in 1..11 /\ 9 \in 1..11 /\ 10 \in 1..11 /\ 11 \in 1..11
  OBVIOUS
<1> HIDE DEF Column
<1> QED
  BY <1>2, <1>3, <1>4

\* A row names the values of the sample it is from.
LEMMA RowIsOfSample ==
    ASSUME NEW q \in Nat, NEW j \in Jitters
    PROVE  LET t == Jittered(SampleTelemetry(q), j)
               row == FeatureVector(t)
           IN  /\ row \in [DOMAIN FeatureKeys -> Int]
               /\ Column(row, "seq") = q
               /\ \A name \in DOMAIN t \ {"mode"} : Column(row, name) = t[name]
               /\ Column(row, "mode_nominal") = (IF t.mode = "NOMINAL" THEN 1 ELSE 0)
               /\ Column(row, "mode_sunpoint") = (IF t.mode = "SUNPOINT" THEN 1 ELSE 0)
               /\ Column(row, "mode_tx_window") = (IF t.mode = "TX_WINDOW" THEN 1 ELSE 0)
<1> DEFINE t == Jittered(SampleTelemetry(q), j)
           row == FeatureVector(t)
<1>1. /\ DOMAIN t = Fields /\ t.seq = q /\ t.seq \in Int
      /\ t.temperature_c \in Int /\ t.battery_pct \in Int
      /\ t.latitude \in Int /\ t.longitude \in Int /\ t.altitude_km \in Int
      /\ t.bus_v \in Int /\ t.bus_i \in Int
  <2> DEFINE u == Jittered(SampleTelemetry(q), j)
  <2>1. /\ DOMAIN u = Fields /\ u.seq = q
        /\ u.temperature_c \in 2125..2235 /\ u.battery_pct \in 86..100
        /\ u.latitude \in Int /\ u.longitude \in Int /\ u.altitude_km \in Int
        /\ u.bus_v \in 498..511 /\ u.bus_i \in 41..47
    BY JitteredValues
  <2> HIDE DEF u
  <2>2. u.temperature_c \in Int /\ u.battery_pct \in Int /\ u.bus_v \in Int /\ u.bus_i \in Int
    BY <2>1
  <2> QED
    BY <2>1, <2>2 DEF u
<1> HIDE DEF t
<1>2. /\ row \in [1..11 -> Int]
      /\ row[1] = t.seq /\ row[2] = t.temperature_c /\ row[3] = t.battery_pct
      /\ row[4] = t.latitude /\ row[5] = t.longitude /\ row[6] = t.altitude_km
      /\ row[7] = t.bus_v /\ row[8] = t.bus_i
      /\ row[9] = (IF t.mode = "NOMINAL" THEN 1 ELSE 0)
      /\ row[10] = (IF t.mode = "SUNPOINT" THEN 1 ELSE 0)
      /\ row[11] = (IF t.mode = "TX_WINDOW" THEN 1 ELSE 0)
  BY <1>1, VectorPlaces
<1> HIDE DEF row
<1>3. DOMAIN FeatureKeys = 1..11
  BY DEF FeatureKeys
<1>4. ASSUME NEW name \in Fields \ {"mode"}
      PROVE  Column(row, name) = t[name]
  BY <1>2, ColumnPlaces, Zenon DEF Fields
<1>5. row \in [DOMAIN FeatureKeys -> Int] /\ Column(row, "seq") = q
  BY <1>1, <1>2, <1>3, ColumnPlaces
<1>6. /\ Column(row, "mode_nominal") = (IF t.mode = "NOMINAL" THEN 1 ELSE 0)
      /\ Column(row, "mode_sunpoint") = (IF t.mode = "SUNPOINT" THEN 1 ELSE 0)
      /\ Column(row, "mode_tx_window") = (IF t.mode = "TX_WINDOW" THEN 1 ELSE 0)
  BY <1>2, ColumnPlaces
<1> QED
  BY <1>1, <1>4, <1>5, <1>6 DEF t, row

-----------------------------------------------------------------------------
\* The detector and the envelope check, on any reading.
LEMMA RangeReasonsCount ==
    ASSUME NEW p
    PROVE  /\ Cardinality(RangeReasons(p)) \in Nat
           /\ RangeReasons(p) = {} <=> Cardinality(RangeReasons(p)) = 0
<1>1. IsFiniteSet({"temperature", "bus_v", "bus_i"})
  <2>1. IsFiniteSet({}) /\ IsFiniteSet({} \cup {"temperature"})
    BY FS_EmptySet, FS_AddElement
  <2>2. IsFiniteSet(({} \cup {"temperature"}) \cup {"bus_v"})
    BY <2>1, FS_AddElement
  <2>3. IsFiniteSet((({} \cup {"temperature"}) \cup {"bus_v"}) \cup {"bus_i"})
    BY <2>2, FS_AddElement
  <2>4. {"temperature", "bus_v", "bus_i"} = (({} \cup {"temperature"}) \cup {"bus_v"}) \cup {"bus_i"}
    OBVIOUS
  <2> QED
    BY <2>3, <2>4
<1>2. IsFiniteSet(RangeReasons(p))
  <2>1. RangeReasons(p) \in SUBSET {"temperature", "bus_v", "bus_i"}
    BY DEF RangeReasons
  <2> QED
    BY <1>1, <2>1, FS_Subset
<1> QED
  BY <1>2, FS_CardinalityType, FS_EmptySet

LEMMA AnomalousByRange ==
    ASSUME NEW seq, NEW t
    PROVE  IsAnomalous(BuildFrame(seq, Payload(t))) <=> RangeReasons(Payload(t)) # {}
<1> DEFINE p == Payload(t)
           frame == BuildFrame(seq, p)
<1>1. frame.payload = p
  BY DEF BuildFrame
<1> HIDE DEF p
<1>2. PICK doubt \in {0, 1} : Score(frame) = 2 * Cardinality(RangeReasons(p)) + doubt
  <2>1. Score(frame) = 2 * Cardinality(RangeReasons(frame.payload))
                       + (IF frame.payload.state # "NOMINAL" THEN 1 ELSE 0)
    BY DEF Score
  <2> QED
    BY <1>1, <2>1
<1>3. /\ Cardinality(RangeReasons(p)) \in Nat
      /\ RangeReasons(p) = {} <=> Cardinality(RangeReasons(p)) = 0
  BY RangeReasonsCount
<1>4. IsAnomalous(frame) <=> Score(frame) >= 2
  BY DEF IsAnomalous
<1> DEFINE count == Cardinality(RangeReasons(p))
<1> HIDE DEF count, frame
<1>5. Score(frame) = 2 * count + doubt /\ count \in Nat /\ (RangeReasons(p) = {} <=> count = 0)
  BY <1>2, <1>3 DEF count
<1>6. Score(frame) >= 2 <=> count # 0
  BY <1>5
<1> QED
  BY <1>4, <1>5, <1>6 DEF frame, p

-----------------------------------------------------------------------------
\* What a line can be.
Rows == {Row(s) : s \in Samples}
Lines == {Header, Torn} \cup Rows

\* The lines before the first row.
Headed == IF headless THEN 0 ELSE 1

\* The lines are the file's history, place by place.
IsHistory ==
    /\ Len(lines) = Headed + Len(base) + Len(logged)
    /\ ~headless => lines[1] = Header
    /\ \A k \in 1..Len(base) : lines[Headed + k] = base[k]
    /\ \A k \in 1..Len(logged) : lines[Headed + Len(base) + k] = Row(SampleTelemetry(logged[k]))

\* The types, closed: what is in a file comes from samples; the receiver is in log() only
\* with a message in hand.
DataInv ==
    /\ TypeOK
    /\ last \in Nat /\ (logger # Idle => sequence < last) /\ (logger.at = "idle" => ~logger.new)
    /\ lines \in Seq(Lines) /\ base \in Seq(Rows) /\ logged \in Seq(Nat)

\* There is no file but by a writer, and what log() found stays so unless it was overtaken.
FileInv ==
    /\ ~exists => /\ base = <<>> /\ logged = <<>> /\ ~headless
                  /\ ~generator.on /\ logger.at # "opened"
    /\ logger.at = "looked" /\ ~logger.new => exists
    /\ generator.on => base = Generated(generator.jitter)
    /\ ~spoiled /\ logger.new => /\ ~generator.on
                                 /\ lines = <<>> /\ base = <<>> /\ logged = <<>> /\ ~headless
                                 /\ logger.at = "looked" => ~exists

\* While the generator writes, the file is the part of its set written so far.
GeneratorInv ==
    ~spoiled /\ generator.on =>
        /\ logged = <<>> /\ ~headless
        /\ Len(lines) = generator.wrote
        /\ \A k \in 1..generator.wrote : lines[k] = Synthetic[k]

HistoryInv == ~spoiled /\ Settled => IsHistory

LogInv == DataInv /\ FileInv /\ GeneratorInv /\ HistoryInv

-----------------------------------------------------------------------------
LEMMA RowsAreLines ==
    ASSUME NEW q \in Nat, NEW j \in Jitters
    PROVE  /\ Row(Jittered(SampleTelemetry(q), j)) \in Rows
           /\ Row(SampleTelemetry(q)) \in Rows
           /\ Rows \subseteq Lines
<1>1. Jittered(SampleTelemetry(q), j) \in Samples /\ Jittered(SampleTelemetry(q), 0) \in Samples
  BY DEF Samples, Jitters
<1>2. Row(Jittered(SampleTelemetry(q), j)) \in Rows /\ Row(Jittered(SampleTelemetry(q), 0)) \in Rows
  BY <1>1, Zenon DEF Rows
<1> QED
  BY <1>2, NoJitter DEF Lines

\* Every row has a number under each name; no row is torn.
LEMMA LinesAreTyped ==
    ASSUME NEW line \in Lines
    PROVE  /\ line.kind \in {"header", "row", "torn"}
           /\ line.kind = "row" => line.row \in [DOMAIN FeatureKeys -> Int]
           /\ line.kind = "row" <=> line \in Rows
           /\ line = Torn <=> line.kind = "torn"
<1>1. CASE line \in {Header, Torn}
  <2>1. line \notin Rows
    BY <1>1 DEF Rows, Row, Header, Torn
  <2> QED
    BY <1>1, <2>1 DEF Header, Torn
<1>2. CASE line \in Rows
  <2>1. PICK q \in Nat, j \in Jitters : line = Row(Jittered(SampleTelemetry(q), j))
    BY <1>2 DEF Rows, Samples
  <2> DEFINE row == FeatureVector(Jittered(SampleTelemetry(q), j))
  <2>2. row \in [DOMAIN FeatureKeys -> Int]
    BY RowIsOfSample
  <2>3. line = [kind |-> "row", row |-> row]
    BY <2>1 DEF Row
  <2> HIDE DEF row
  <2> QED
    BY <1>2, <2>2, <2>3 DEF Torn
<1> QED
  BY <1>1, <1>2 DEF Lines

\* The synthetic set, place by place.
LEMMA GeneratedPlaces ==
    ASSUME NEW j \in Jitters
    PROVE  LET rows == Generated(j)
               synthetic == <<Header>> \o Generated(j)
           IN  /\ rows \in Seq(Rows) /\ Len(rows) = GeneratedRows
               /\ synthetic \in Seq(Lines) /\ Len(synthetic) = GeneratedRows + 1
               /\ synthetic[1] = Header
               /\ \A k \in 1..GeneratedRows : synthetic[k + 1] = rows[k]
<1> DEFINE rows == Generated(j)
           synthetic == <<Header>> \o rows
<1>1. GeneratedRows \in Nat
  BY FeatureLogAssumption
<1>2. rows \in Seq(Rows) /\ Len(rows) = GeneratedRows
  <2>1. \A k \in 1..GeneratedRows : Row(Jittered(SampleTelemetry(k), j)) \in Rows
    BY <1>1, RowsAreLines
  <2>2. rows \in [1..GeneratedRows -> Rows]
    BY <2>1 DEF Generated
  <2> QED
    BY <1>1, <2>2
<1> HIDE DEF rows
<1>3. Rows \subseteq Lines /\ Header \in Lines
  BY DEF Lines
<1>4. rows \in Seq(Lines) /\ <<Header>> \in Seq(Lines) /\ Len(<<Header>>) = 1
      /\ <<Header>>[1] = Header
  BY <1>2, <1>3
<1>5. /\ synthetic \in Seq(Lines) /\ Len(synthetic) = 1 + Len(rows)
      /\ \A k \in 1..(1 + Len(rows)) :
            synthetic[k] = IF k <= 1 THEN <<Header>>[k] ELSE rows[k - 1]
  <2> DEFINE first == <<Header>>
  <2>1. first \in Seq(Lines) /\ Len(first) = 1
    BY <1>4
  <2> HIDE DEF first
  <2>2. LET all == first \o rows
        IN  /\ all \in Seq(Lines) /\ Len(all) = Len(first) + Len(rows)
            /\ \A k \in 1..(Len(first) + Len(rows)) :
                  all[k] = IF k <= Len(first) THEN first[k] ELSE rows[k - Len(first)]
    BY <1>4, <2>1, ConcatProperties
  <2> QED
    BY <2>1, <2>2 DEF first
<1> HIDE DEF synthetic
<1> QED
  BY <1>1, <1>2, <1>4, <1>5 DEF rows, synthetic

\* Writing at the end of the file leaves lines in it.
LEMMA AppendedLines ==
    ASSUME lines \in Seq(Lines), NEW text \in Seq(Lines), text # <<>>
    PROVE  Appended(text) \in Seq(Lines)
<1>1. Tail(text) \in Seq(Lines)
  BY HeadTailProperties
<1> QED
  BY <1>1, ConcatProperties DEF Appended

\* The text log() writes: the header only to a file it found missing.
LEMMA LogTextLines ==
    ASSUME sequence \in Nat
    PROVE  /\ Sample = SampleTelemetry(sequence)
           /\ Row(Sample) \in Rows
           /\ LogText \in Seq(Lines) /\ LogText # <<>>
<1>1. Sample = SampleTelemetry(sequence)
  BY ReceivedIsSent DEF Sample
<1>2. Row(Sample) \in Rows
  BY <1>1, RowsAreLines DEF Jitters
<1>3. Row(Sample) \in Lines /\ Header \in Lines
  BY <1>2 DEF Lines
<1> QED
  BY <1>1, <1>2, <1>3 DEF LogText

LEMMA TypedLines ==
    ASSUME NEW all \in Seq(Lines)
    PROVE  \A k \in DOMAIN all :
              /\ all[k].kind \in {"header", "row", "torn"}
              /\ all[k].kind = "row" => all[k].row \in [DOMAIN FeatureKeys -> Int]
  BY LinesAreTyped

-----------------------------------------------------------------------------
\* The rows a stopped generator leaves are the first of its set.
LEMMA PrefixOfRows ==
    ASSUME NEW rows \in Seq(Rows), NEW n \in Int, n <= Len(rows)
    PROVE  LET some == SubSeq(rows, 1, n)
           IN  /\ some \in Seq(Rows)
               /\ n \in Nat => Len(some) = n
               /\ \A k \in 1..n : some[k] = rows[k]
<1> DEFINE some == SubSeq(rows, 1, n)
<1>1. Len(rows) \in Nat /\ \A k \in 1..n : rows[k] \in Rows
  BY LenProperties, ElementOfSeq
<1>2. /\ some \in Seq(Rows)
      /\ Len(some) = IF 1 <= n THEN n - 1 + 1 ELSE 0
      /\ \A k \in 1..(n - 1 + 1) : some[k] = rows[1 + k - 1]
  BY <1>1, SubSeqProperties
<1> HIDE DEF some
<1> QED
  BY <1>2 DEF some

\* What remains of the types to be shown of each step.
LEMMA DataFromParts ==
    ASSUME sequence' \in Nat, last' \in Nat, sequence' <= last',
           exists' \in BOOLEAN, lines' # <<>> => exists',
           logger' \in [at : {"idle", "looked", "opened"}, new : BOOLEAN],
           logger' # Idle => sequence' < last', logger'.at = "idle" => ~logger'.new,
           generator' \in [on : BOOLEAN, wrote : 0..(GeneratedRows + 1), jitter : Jitters],
           headless' \in BOOLEAN, spoiled' \in BOOLEAN,
           lines' \in Seq(Lines), base' \in Seq(Rows), logged' \in Seq(Nat)
    PROVE  DataInv'
  BY TypedLines DEF DataInv, TypeOK, Idle

LEMMA DataKept ==
    ASSUME DataInv, FileInv, [Next]_vars
    PROVE  DataInv'
<1>1. /\ sequence \in Nat /\ last \in Nat /\ sequence <= last
      /\ exists \in BOOLEAN /\ (lines # <<>> => exists)
      /\ logger \in [at : {"idle", "looked", "opened"}, new : BOOLEAN]
      /\ (logger # Idle => sequence < last) /\ (logger.at = "idle" => ~logger.new)
      /\ generator \in [on : BOOLEAN, wrote : 0..(GeneratedRows + 1), jitter : Jitters]
      /\ headless \in BOOLEAN /\ spoiled \in BOOLEAN
      /\ lines \in Seq(Lines) /\ base \in Seq(Rows) /\ logged \in Seq(Nat)
  BY DEF DataInv, TypeOK
<1>2. Idle \in [at : {"idle", "looked", "opened"}, new : BOOLEAN] /\ ~Idle.new
  BY DEF Idle
<1>3. GeneratedRows \in Nat /\ 0 \in 0..(GeneratedRows + 1) /\ 0 \in Jitters
  BY FeatureLogAssumption DEF Jitters
<1>4. CASE LogLooks
  <2>1. logger' = [at |-> "looked", new |-> ~exists] /\ sequence < last
        /\ UNCHANGED <<sequence, last, exists, lines, generator, logged, base, headless, spoiled>>
    BY <1>4 DEF LogLooks, sending, file, history
  <2> QED
    BY <1>1, <2>1, DataFromParts
<1>5. CASE LogOpens
  <2>1. /\ logger.at = "looked" /\ logger' = [logger EXCEPT !.at = "opened"]
        /\ exists' = TRUE
        /\ UNCHANGED <<sequence, last, lines, generator, logged, base, headless, spoiled>>
    BY <1>5 DEF LogOpens, sending, history
  <2>2. /\ logger' \in [at : {"idle", "looked", "opened"}, new : BOOLEAN]
        /\ logger'.at = "opened" /\ logger # Idle
    BY <1>1, <2>1 DEF Idle
  <2> QED
    BY <1>1, <2>1, <2>2, DataFromParts
<1>6. CASE LogWrites
  <2>1. /\ logger # Idle /\ lines' = Appended(LogText) /\ logged' = Append(logged, sequence)
        /\ logger' = Idle /\ sequence' = sequence + 1 /\ headless' \in BOOLEAN
        /\ spoiled' \in BOOLEAN /\ logger.at = "opened"
        /\ UNCHANGED <<last, exists, generator, base>>
    BY <1>1, <1>6 DEF LogWrites, Idle
  <2>2. lines' \in Seq(Lines)
    BY <1>1, <2>1, LogTextLines, AppendedLines
  <2>3. logged' \in Seq(Nat)
    BY <1>1, <2>1, AppendProperties
  <2>4. exists
    BY <1>1, <2>1 DEF FileInv
  <2>5. sequence' \in Nat /\ sequence' <= last
    BY <1>1, <2>1
  <2> QED
    BY <1>1, <1>2, <2>1, <2>2, <2>3, <2>4, <2>5, DataFromParts
<1>7. CASE LogStops
  <2>1. /\ logger # Idle /\ logger' = Idle
        /\ headless' \in BOOLEAN /\ spoiled' \in BOOLEAN
        /\ lines' = lines \/ (logger.at = "opened" /\ lines' = Appended(<<Header>>))
        /\ UNCHANGED <<sequence, last, exists, generator, logged, base>>
    BY <1>1, <1>7 DEF LogStops, sending
  <2>2. <<Header>> \in Seq(Lines) /\ <<Header>> # <<>>
    BY DEF Lines
  <2>3. lines' \in Seq(Lines)
    BY <1>1, <2>1, <2>2, AppendedLines
  <2>4. lines' # <<>> => exists
    BY <1>1, <2>1 DEF FileInv
  <2> QED
    BY <1>1, <1>2, <2>1, <2>3, <2>4, DataFromParts
<1>8. CASE MessageLost
  <2>1. /\ logger = Idle /\ sequence' = sequence + 1 /\ sequence < last
        /\ UNCHANGED <<last, exists, lines, logger, generator, logged, base, headless, spoiled>>
    BY <1>8 DEF MessageLost, file, history
  <2>2. sequence' \in Nat /\ sequence' <= last
    BY <1>1, <2>1
  <2> QED
    BY <1>1, <2>1, <2>2, DataFromParts
<1>9. CASE GenerateOpens
  <2>1. PICK j \in Jitters :
           generator' = [on |-> TRUE, wrote |-> 0, jitter |-> j] /\ base' = Generated(j)
    BY <1>9 DEF GenerateOpens
  <2>2. /\ exists' = TRUE /\ lines' = <<>> /\ logged' = <<>>
        /\ headless' = FALSE /\ spoiled' = logger.new
        /\ UNCHANGED <<sequence, last, logger>>
    BY <1>9 DEF GenerateOpens, sending
  <2>3. base' \in Seq(Rows)
    BY <2>1, GeneratedPlaces
  <2>4. lines' \in Seq(Lines) /\ logged' \in Seq(Nat)
    BY <2>2
  <2>5. generator' \in [on : BOOLEAN, wrote : 0..(GeneratedRows + 1), jitter : Jitters]
        /\ headless' \in BOOLEAN /\ spoiled' \in BOOLEAN
    BY <1>1, <1>3, <2>1, <2>2
  <2> QED
    BY <1>1, <2>2, <2>3, <2>4, <2>5, DataFromParts
<1>10. CASE GenerateWrites
  <2> DEFINE place == generator.wrote + 1
  <2>1. /\ generator.on /\ generator.wrote < Len(Synthetic)
        /\ lines' = IF place <= Len(lines) THEN [lines EXCEPT ![place] = Synthetic[place]]
                    ELSE Append(lines, Synthetic[place])
        /\ generator' = [generator EXCEPT !.wrote = place]
        /\ UNCHANGED <<sequence, last, exists, logger, logged, base, headless, spoiled>>
    BY <1>10 DEF GenerateWrites, sending, history
  <2>2. Synthetic \in Seq(Lines) /\ Len(Synthetic) = GeneratedRows + 1
    BY <1>1, GeneratedPlaces DEF Synthetic
  <2>3. place \in 1..(GeneratedRows + 1) /\ Synthetic[place] \in Lines
    <3>1. place \in 1..Len(Synthetic)
      BY <1>1, <1>3, <2>1, <2>2
    <3> QED
      BY <2>2, <3>1, ElementOfSeq
  <2>4. lines' \in Seq(Lines)
    <3>1. CASE place <= Len(lines)
      BY <1>1, <2>1, <2>3, <3>1, ExceptSeq
    <3>2. CASE ~(place <= Len(lines))
      BY <1>1, <2>1, <2>3, <3>2, AppendProperties
    <3> QED
      BY <3>1, <3>2
  <2>5. generator' \in [on : BOOLEAN, wrote : 0..(GeneratedRows + 1), jitter : Jitters]
    <3> HIDE DEF place
    <3>1. place \in 0..(GeneratedRows + 1)
      BY <1>3, <2>3
    <3> QED
      BY <1>1, <2>1, <3>1
  <2>6. exists
    BY <1>1, <2>1 DEF FileInv
  <2> QED
    BY <1>1, <2>1, <2>4, <2>5, <2>6, DataFromParts
<1>11. CASE GenerateCloses
  <2>1. /\ generator' = NotGenerating
        /\ UNCHANGED <<sequence, last, exists, lines, logger, logged, base, headless, spoiled>>
    BY <1>11 DEF GenerateCloses, sending, file, history
  <2>2. generator' \in [on : BOOLEAN, wrote : 0..(GeneratedRows + 1), jitter : Jitters]
    BY <1>3, <2>1 DEF NotGenerating
  <2> QED
    BY <1>1, <2>1, <2>2, DataFromParts
<1>12. CASE GenerateStops
  <2>1. /\ generator.on /\ generator' = NotGenerating
        /\ base' = SubSeq(base, 1, generator.wrote - 1)
        /\ lines' = lines \/ lines' = Append(lines, Torn)
        /\ headless' \in BOOLEAN /\ spoiled' \in BOOLEAN
        /\ UNCHANGED <<sequence, last, exists, logger, logged>>
    BY <1>1, <1>12 DEF GenerateStops, sending
  <2>2. generator' \in [on : BOOLEAN, wrote : 0..(GeneratedRows + 1), jitter : Jitters]
    BY <1>3, <2>1 DEF NotGenerating
  <2>3. lines' \in Seq(Lines)
    <3>1. Torn \in Lines
      BY DEF Lines
    <3>2. Append(lines, Torn) \in Seq(Lines)
      BY <1>1, <3>1, AppendProperties
    <3> QED
      BY <1>1, <2>1, <3>2
  <2>4. base' \in Seq(Rows)
    <3>1. /\ generator.wrote - 1 \in Int /\ generator.wrote - 1 <= Len(base)
          /\ Len(base) = GeneratedRows
      BY <1>1, <1>3, <2>1, GeneratedPlaces DEF FileInv
    <3> QED
      BY <1>1, <2>1, <3>1, PrefixOfRows
  <2>5. exists
    BY <1>1, <2>1 DEF FileInv
  <2> QED
    BY <1>1, <2>1, <2>2, <2>3, <2>4, <2>5, DataFromParts
<1>13. CASE UNCHANGED vars
  <2>1. UNCHANGED <<sequence, last, exists, lines, logger, generator, logged, base, headless, spoiled>>
    BY <1>13 DEF vars, sending, file, history
  <2> QED
    BY <1>1, <2>1, DataFromParts
<1> QED
  BY <1>4, <1>5, <1>6, <1>7, <1>8, <1>9, <1>10, <1>11, <1>12, <1>13 DEF Next

-----------------------------------------------------------------------------
\* The types of the variables, for the steps below.
LEMMA Typed ==
    ASSUME DataInv
    PROVE  /\ sequence \in Nat /\ exists \in BOOLEAN /\ headless \in BOOLEAN /\ spoiled \in BOOLEAN
           /\ lines # <<>> => exists
           /\ logger \in [at : {"idle", "looked", "opened"}, new : BOOLEAN]
           /\ logger.at = "idle" => ~logger.new
           /\ generator.on \in BOOLEAN /\ generator.wrote \in 0..(GeneratedRows + 1)
           /\ generator.jitter \in Jitters
           /\ generator \in [on : BOOLEAN, wrote : 0..(GeneratedRows + 1), jitter : Jitters]
           /\ lines \in Seq(Lines) /\ base \in Seq(Rows) /\ logged \in Seq(Nat)
           /\ Len(lines) \in Nat /\ Len(base) \in Nat /\ Len(logged) \in Nat
<1>1. lines \in Seq(Lines) /\ base \in Seq(Rows) /\ logged \in Seq(Nat)
  BY DEF DataInv
<1>2. Len(lines) \in Nat /\ Len(base) \in Nat /\ Len(logged) \in Nat
  BY <1>1, LenProperties
<1> QED
  BY <1>1, <1>2 DEF DataInv, TypeOK

LEMMA FileKept ==
    ASSUME DataInv, FileInv, [Next]_vars
    PROVE  FileInv'
<1>1. /\ exists \in BOOLEAN /\ headless \in BOOLEAN /\ spoiled \in BOOLEAN /\ (lines # <<>> => exists)
      /\ logger \in [at : {"idle", "looked", "opened"}, new : BOOLEAN]
      /\ generator.on \in BOOLEAN
      /\ generator \in [on : BOOLEAN, wrote : 0..(GeneratedRows + 1), jitter : Jitters]
      /\ (logger.at = "idle" => ~logger.new)
  BY Typed
<1>2. CASE LogLooks
  BY <1>1, <1>2 DEF LogLooks, file, history, FileInv, Idle
<1>3. CASE LogOpens
  BY <1>1, <1>3 DEF LogOpens, history, FileInv
<1>4. CASE LogWrites
  BY <1>1, <1>4 DEF LogWrites, FileInv, Idle
<1>5. CASE LogStops
  BY <1>1, <1>5 DEF LogStops, FileInv, Idle
<1>6. CASE MessageLost
  BY <1>1, <1>6 DEF MessageLost, file, history, FileInv
<1>7. CASE GenerateOpens
  BY <1>1, <1>7 DEF GenerateOpens, FileInv
<1>8. CASE GenerateWrites
  <2>1. /\ generator.on /\ generator'.on /\ generator'.jitter = generator.jitter
        /\ UNCHANGED <<exists, logger, logged, base, headless, spoiled>>
    BY <1>1, <1>8 DEF GenerateWrites, history
  <2> QED
    BY <1>1, <2>1 DEF FileInv
<1>9. CASE GenerateCloses
  BY <1>1, <1>9 DEF GenerateCloses, NotGenerating, file, history, FileInv
<1>10. CASE GenerateStops
  BY <1>1, <1>10 DEF GenerateStops, NotGenerating, FileInv
<1>11. CASE UNCHANGED vars
  BY <1>11 DEF vars, file, history, FileInv
<1> QED
  BY <1>2, <1>3, <1>4, <1>5, <1>6, <1>7, <1>8, <1>9, <1>10, <1>11 DEF Next

LEMMA GeneratorKept ==
    ASSUME DataInv, FileInv, GeneratorInv, [Next]_vars
    PROVE  GeneratorInv'
<1>1. /\ exists \in BOOLEAN /\ headless \in BOOLEAN /\ spoiled \in BOOLEAN
      /\ logger \in [at : {"idle", "looked", "opened"}, new : BOOLEAN]
      /\ generator \in [on : BOOLEAN, wrote : 0..(GeneratedRows + 1), jitter : Jitters]
      /\ lines \in Seq(Lines) /\ Len(lines) \in Nat
  BY Typed
<1>2. Synthetic \in Seq(Lines) /\ Len(Synthetic) = GeneratedRows + 1 /\ GeneratedRows \in Nat
  BY <1>1, GeneratedPlaces, FeatureLogAssumption DEF Synthetic
<1>3. ASSUME UNCHANGED <<lines, generator, logged, headless>>, spoiled => spoiled'
      PROVE  GeneratorInv'
  BY <1>3 DEF GeneratorInv, Synthetic
<1>4. CASE LogLooks \/ LogOpens \/ MessageLost \/ UNCHANGED vars
  BY <1>3, <1>4 DEF LogLooks, LogOpens, MessageLost, vars, file, history
<1>5. CASE LogWrites
  BY <1>1, <1>5 DEF LogWrites, GeneratorInv
<1>6. CASE LogStops
  <2>1. CASE logger.at = "opened" /\ logger.new
    <3>1. (spoiled => spoiled') /\ UNCHANGED generator
      BY <1>1, <1>6 DEF LogStops
    <3> QED
      BY <2>1, <3>1 DEF FileInv, GeneratorInv
  <2>2. CASE ~(logger.at = "opened" /\ logger.new)
    BY <1>1, <1>3, <1>6, <2>2 DEF LogStops
  <2> QED
    BY <2>1, <2>2
<1>7. CASE GenerateOpens
  BY <1>7 DEF GenerateOpens, GeneratorInv
<1>8. CASE GenerateWrites
  <2> SUFFICES ASSUME ~spoiled'
               PROVE  /\ logged' = <<>> /\ ~headless'
                      /\ Len(lines') = generator'.wrote
                      /\ \A k \in 1..generator'.wrote : lines'[k] = Synthetic'[k]
    BY DEF GeneratorInv
  <2> DEFINE place == generator.wrote + 1
  <2>1. /\ ~spoiled /\ generator.on /\ UNCHANGED <<logged, headless>>
        /\ generator.wrote < Len(Synthetic)
        /\ lines' = IF place <= Len(lines) THEN [lines EXCEPT ![place] = Synthetic[place]]
                    ELSE Append(lines, Synthetic[place])
        /\ generator' = [generator EXCEPT !.wrote = place]
    BY <1>8 DEF GenerateWrites, history
  <2>2. /\ logged = <<>> /\ Len(lines) = generator.wrote
        /\ \A k \in 1..generator.wrote : lines[k] = Synthetic[k]
    BY <2>1 DEF GeneratorInv
  <2>3. generator.wrote \in Nat
    BY <1>1
  <2>4. lines' = Append(lines, Synthetic[place])
    BY <2>1, <2>2, <2>3
  <2>5. Synthetic[place] \in Lines
    <3>1. place \in 1..Len(Synthetic)
      BY <1>2, <2>1, <2>3
    <3> QED
      BY <1>2, <3>1, ElementOfSeq
  <2>6. /\ Len(lines') = place
        /\ \A k \in 1..place : lines'[k] = IF k = place THEN Synthetic[place] ELSE lines[k]
    BY <1>1, <2>2, <2>3, <2>4, <2>5, AppendProperties
  <2>7. generator'.wrote = place /\ Synthetic' = Synthetic
    BY <1>1, <2>1 DEF Synthetic
  <2> HIDE DEF place
  <2>8. ASSUME NEW k \in 1..place
        PROVE  lines'[k] = Synthetic[k]
    <3>1. k # place => k \in 1..generator.wrote
      BY <2>3 DEF place
    <3> QED
      BY <2>2, <2>6, <3>1
  <2>9. ~headless'
    BY <2>1 DEF GeneratorInv
  <2> QED
    BY <2>1, <2>2, <2>6, <2>7, <2>8, <2>9
<1>9. CASE GenerateCloses \/ GenerateStops
  BY <1>9 DEF GenerateCloses, GenerateStops, NotGenerating, GeneratorInv
<1> QED
  BY <1>4, <1>5, <1>6, <1>7, <1>8, <1>9 DEF Next

-----------------------------------------------------------------------------
\* No line of a file that is its history is torn, so a row goes where it belongs.
LEMMA LogWritesHistory ==
    ASSUME LogInv, LogWrites, ~spoiled'
    PROVE  IsHistory'
<1>1. /\ sequence \in Nat
      /\ lines \in Seq(Lines) /\ base \in Seq(Rows) /\ logged \in Seq(Nat)
      /\ Len(lines) \in Nat /\ Len(base) \in Nat /\ Len(logged) \in Nat
  BY Typed DEF LogInv
<1>2. /\ ~spoiled /\ ~generator.on /\ logger.at = "opened" /\ exists
      /\ lines' = Appended(LogText) /\ logged' = Append(logged, sequence)
      /\ base' = base /\ headless' = headless
  BY <1>1, Typed DEF LogWrites, LogInv, FileInv
<1>3. Sample = SampleTelemetry(sequence) /\ Row(Sample) \in Rows /\ Row(Sample) \in Lines
  BY <1>1, LogTextLines DEF Lines
<1>4. /\ Len(logged') = Len(logged) + 1
      /\ \A k \in 1..(Len(logged) + 1) :
            logged'[k] = IF k = Len(logged) + 1 THEN sequence ELSE logged[k]
  BY <1>1, <1>2, AppendProperties
<1>5. CASE logger.new
  <2>1. lines = <<>> /\ base = <<>> /\ logged = <<>> /\ ~headless
    BY <1>2, <1>5 DEF LogInv, FileInv
  <2>2. LogText = <<Header, Row(Sample)>>
    BY <1>5 DEF LogText
  <2>3. lines' = <<Header, Row(Sample)>> /\ logged' = <<sequence>>
    BY <1>2, <2>1, <2>2 DEF Appended
  <2> QED
    BY <1>2, <1>3, <2>1, <2>3 DEF IsHistory, Headed
<1>6. CASE ~logger.new
  <2> DEFINE h == Headed
  <2>0. h \in {0, 1} /\ h' = h /\ (headless <=> h = 0)
    BY <1>2 DEF Headed
  <2>1. /\ Len(lines) = h + Len(base) + Len(logged)
        /\ ~headless => lines[1] = Header
        /\ \A k \in 1..Len(base) : lines[h + k] = base[k]
        /\ \A k \in 1..Len(logged) :
              lines[h + Len(base) + k] = Row(SampleTelemetry(logged[k]))
    BY <1>2, <1>6 DEF LogInv, HistoryInv, Settled, IsHistory
  <2> HIDE DEF h
  <2>2. lines # <<>> => Last(lines) # Torn
    <3>1. Last(lines) = lines[Len(lines)]
      BY DEF Last
    <3>2. CASE Len(logged) > 0
      <4>1. Last(lines) = Row(SampleTelemetry(logged[Len(logged)]))
        BY <1>1, <2>0, <2>1, <3>1, <3>2
      <4> QED
        BY <4>1 DEF Row, Torn
    <3>3. CASE Len(logged) = 0 /\ Len(base) > 0
      <4>1. Last(lines) = base[Len(base)] /\ Len(base) \in 1..Len(base)
        BY <1>1, <2>0, <2>1, <3>1, <3>3
      <4>2. Last(lines) \in Rows
        BY <1>1, <4>1, ElementOfSeq
      <4> QED
        BY <4>2 DEF Rows, Row, Torn
    <3>4. CASE Len(logged) = 0 /\ Len(base) = 0
      BY <2>0, <2>1, <3>1, <3>4 DEF Header, Torn
    <3> QED
      BY <1>1, <3>2, <3>3, <3>4
  <2>3. lines' = lines \o <<Row(Sample)>>
    BY <1>2, <1>6, <2>2 DEF Appended, LogText
  <2> DEFINE row == Row(Sample)
  <2> HIDE DEF row
  <2>4. row \in Lines /\ lines' = lines \o <<row>> /\ row = Row(SampleTelemetry(sequence))
    BY <1>3, <2>3 DEF row
  <2>5. /\ Len(lines') = Len(lines) + 1
        /\ \A k \in 1..(Len(lines) + 1) :
              lines'[k] = IF k <= Len(lines) THEN lines[k] ELSE row
    <3>1. <<row>> \in Seq(Lines) /\ Len(<<row>>) = 1 /\ <<row>>[1] = row
      BY <2>4
    <3> DEFINE text == <<row>>
    <3> HIDE DEF text
    <3>2. text \in Seq(Lines) /\ Len(text) = 1 /\ text[1] = row /\ lines' = lines \o text
      BY <2>4, <3>1 DEF text
    <3>3. /\ Len(lines') = Len(lines) + Len(text)
          /\ \A k \in 1..(Len(lines) + Len(text)) :
                lines'[k] = IF k <= Len(lines) THEN lines[k] ELSE text[k - Len(lines)]
      BY <1>1, <3>2, ConcatProperties
    <3> QED
      BY <1>1, <3>2, <3>3
  <2>6. Len(lines') = h + Len(base') + Len(logged')
    BY <1>1, <1>2, <1>4, <2>0, <2>1, <2>5
  <2>7. ~headless' => lines'[1] = Header
    BY <1>1, <1>2, <2>0, <2>1, <2>5
  <2>8. ASSUME NEW k \in 1..Len(base)
        PROVE  lines'[h + k] = base[k]
    <3>1. h + k \in 1..(Len(lines) + 1) /\ h + k <= Len(lines)
      BY <1>1, <2>0, <2>1
    <3> QED
      BY <2>1, <2>5, <3>1
  <2>9. ASSUME NEW k \in 1..Len(logged')
        PROVE  lines'[h + Len(base) + k] = Row(SampleTelemetry(logged'[k]))
    <3>1. CASE k = Len(logged) + 1
      <4>1. /\ h + Len(base) + k \in 1..(Len(lines) + 1)
            /\ ~(h + Len(base) + k <= Len(lines))
        BY <1>1, <2>0, <2>1, <3>1
      <4> QED
        BY <1>1, <1>4, <2>4, <2>5, <3>1, <4>1
    <3>2. CASE k # Len(logged) + 1
      <4>1. /\ h + Len(base) + k \in 1..(Len(lines) + 1)
            /\ h + Len(base) + k <= Len(lines)
            /\ k \in 1..Len(logged)
        BY <1>1, <1>4, <2>0, <2>1, <3>2
      <4>2. logged'[k] = logged[k]
        BY <1>1, <1>4, <3>2, <4>1
      <4> QED
        BY <2>1, <2>5, <4>1, <4>2
    <3> QED
      BY <3>1, <3>2
  <2> QED
    BY <1>2, <2>0, <2>6, <2>7, <2>8, <2>9 DEF IsHistory, h
<1> QED
  BY <1>5, <1>6

\* When the generator ends between two lines, the file is its header and its rows so far.
LEMMA GeneratedHistory ==
    ASSUME LogInv, generator.on, ~spoiled, NEW n \in 0..GeneratedRows,
           generator.wrote = n + 1, UNCHANGED <<lines, logged>>, ~headless',
           base' \in Seq(Rows), Len(base') = n, \A k \in 1..n : base'[k] = base[k]
    PROVE  IsHistory'
<1>1. /\ generator.jitter \in Jitters /\ GeneratedRows \in Nat
      /\ base = Generated(generator.jitter)
  BY Typed, FeatureLogAssumption DEF LogInv, FileInv
<1>2. /\ logged = <<>> /\ Len(lines) = n + 1
      /\ \A k \in 1..(n + 1) : lines[k] = Synthetic[k]
  BY DEF LogInv, GeneratorInv
<1>3. /\ Synthetic[1] = Header
      /\ \A k \in 1..GeneratedRows : Synthetic[k + 1] = base[k]
  BY <1>1, GeneratedPlaces DEF Synthetic
<1>4. /\ lines'[1] = Header /\ Len(lines') = 1 + Len(base') + Len(logged')
      /\ Len(logged') = 0 /\ Headed' = 1
  BY <1>2, <1>3 DEF Headed
<1>5. ASSUME NEW k \in 1..Len(base')
      PROVE  lines'[1 + k] = base'[k]
  <2>1. k \in 1..n /\ k \in 1..GeneratedRows /\ k + 1 \in 1..(n + 1) /\ 1 + k = k + 1
    BY <1>1
  <2> QED
    BY <1>2, <1>3, <2>1
<1> QED
  BY <1>4, <1>5 DEF IsHistory

LEMMA HistoryKept ==
    ASSUME LogInv, [Next]_vars
    PROVE  HistoryInv'
<1> SUFFICES ASSUME ~spoiled', Settled'
             PROVE  IsHistory'
  BY DEF HistoryInv
<1>1. /\ exists \in BOOLEAN /\ headless \in BOOLEAN /\ spoiled \in BOOLEAN
      /\ logger \in [at : {"idle", "looked", "opened"}, new : BOOLEAN]
      /\ generator \in [on : BOOLEAN, wrote : 0..(GeneratedRows + 1), jitter : Jitters]
      /\ generator.wrote \in 0..(GeneratedRows + 1) /\ generator.jitter \in Jitters
      /\ (logger.at = "idle" => ~logger.new)
      /\ base \in Seq(Rows)
  BY Typed DEF LogInv
<1>2. ASSUME UNCHANGED <<lines, base, logged, headless>>, ~spoiled, Settled
      PROVE  IsHistory'
  BY <1>2 DEF LogInv, HistoryInv, IsHistory, Headed
<1>3. CASE LogLooks
  BY <1>1, <1>2, <1>3 DEF LogLooks, Settled, file, history, Idle
<1>4. CASE LogOpens
  <2>1. /\ logger.at = "looked" /\ logger'.at = "opened" /\ logger'.new = logger.new
        /\ UNCHANGED <<lines, generator, logged, base, headless, spoiled>>
    BY <1>1, <1>4 DEF LogOpens, history
  <2>2. ~logger.new /\ exists
    BY <2>1 DEF Settled, LogInv, FileInv
  <2> QED
    BY <1>2, <2>1, <2>2 DEF Settled
<1>5. CASE LogWrites
  BY <1>5, LogWritesHistory
<1>6. CASE LogStops
  <2>1. CASE logger.at = "opened" /\ logger.new
    <3>1. ~spoiled /\ UNCHANGED <<logged, base>>
      BY <1>1, <1>6, <2>1 DEF LogStops
    <3>2. lines = <<>> /\ base = <<>> /\ logged = <<>> /\ ~headless
      BY <2>1, <3>1 DEF LogInv, FileInv
    <3>3. \/ headless' /\ lines' = lines
          \/ ~headless' /\ lines' = Appended(<<Header>>)
      BY <1>1, <1>6, <2>1, <3>2 DEF LogStops
    <3>4. \/ headless' /\ lines' = <<>>
          \/ ~headless' /\ lines' = <<Header>>
      BY <3>2, <3>3 DEF Appended
    <3> QED
      BY <3>1, <3>2, <3>4 DEF IsHistory, Headed
  <2>2. CASE ~(logger.at = "opened" /\ logger.new)
    <3>1. ~spoiled /\ UNCHANGED <<lines, exists, generator, logged, base, headless>>
      BY <1>1, <1>6, <2>2 DEF LogStops
    <3> QED
      BY <1>2, <2>2, <3>1 DEF Settled
  <2> QED
    BY <2>1, <2>2
<1>7. CASE MessageLost
  BY <1>2, <1>7 DEF MessageLost, Settled, file, history
<1>8. CASE GenerateOpens \/ GenerateWrites
  <2>1. generator'.on
    BY <1>1, <1>8 DEF GenerateOpens, GenerateWrites
  <2> QED
    BY <2>1 DEF Settled
<1>9. GeneratedRows \in Nat /\ Len(Synthetic) = GeneratedRows + 1
  BY <1>1, GeneratedPlaces, FeatureLogAssumption DEF Synthetic
<1>10. CASE GenerateCloses
  <2>1. /\ generator.on /\ generator.wrote = GeneratedRows + 1 /\ ~spoiled
        /\ UNCHANGED <<lines, logged, base>> /\ ~headless'
    BY <1>9, <1>10 DEF GenerateCloses, file, history, LogInv, GeneratorInv
  <2>2. Len(base) = GeneratedRows
    BY <1>1, <2>1, GeneratedPlaces DEF LogInv, FileInv
  <2>3. GeneratedRows \in 0..GeneratedRows
    BY <1>9
  <2> QED
    BY <1>1, <2>1, <2>2, <2>3, GeneratedHistory
<1>11. CASE GenerateStops
  <2>1. /\ generator.on /\ generator.wrote < GeneratedRows + 1 /\ ~spoiled
        /\ headless' = (generator.wrote = 0)
        /\ base' = SubSeq(base, 1, generator.wrote - 1)
        /\ UNCHANGED <<lines, logged>>
    BY <1>1, <1>9, <1>11 DEF GenerateStops
  <2>6. CASE generator.wrote = 0
    <3>1. lines = <<>> /\ logged = <<>>
      BY <1>1, <2>1, <2>6, Typed DEF LogInv, GeneratorInv
    <3>2. base' = <<>>
      BY <1>1, <2>1, <2>6
    <3>3. headless' /\ Headed' = 0
      BY <2>1, <2>6 DEF Headed
    <3>4. lines' = <<>> /\ logged' = <<>>
      BY <2>1, <3>1
    <3> QED
      BY <3>2, <3>3, <3>4 DEF IsHistory
  <2>7. CASE generator.wrote # 0
    <3> DEFINE n == generator.wrote - 1
    <3>2. n \in 0..GeneratedRows /\ generator.wrote = n + 1 /\ n \in Nat
      BY <1>1, <1>9, <2>1, <2>7
    <3>3. Len(base) = GeneratedRows
      BY <1>1, <2>1, GeneratedPlaces DEF LogInv, FileInv
    <3> HIDE DEF n
    <3>4. base' = SubSeq(base, 1, n)
      BY <2>1 DEF n
    <3>5. base' \in Seq(Rows) /\ Len(base') = n /\ \A k \in 1..n : base'[k] = base[k]
      BY <1>1, <3>2, <3>3, <3>4, PrefixOfRows
    <3> QED
      BY <2>1, <2>7, <3>2, <3>5, GeneratedHistory
  <2> QED
    BY <2>6, <2>7
<1>12. CASE UNCHANGED vars
  BY <1>2, <1>12 DEF vars, file, history, Settled
<1> QED
  BY <1>3, <1>4, <1>5, <1>6, <1>7, <1>8, <1>10, <1>11, <1>12 DEF Next

-----------------------------------------------------------------------------
\* Everything this module shows of the file is inductive together.
THEOREM Inductive == Spec => []LogInv
<1>1. Init => LogInv
  <2> SUFFICES ASSUME Init
               PROVE  LogInv
    OBVIOUS
  <2>1. /\ sequence \in Nat /\ last \in Nat /\ sequence <= last
        /\ exists = FALSE /\ lines = <<>> /\ logger = Idle /\ generator = NotGenerating
        /\ logged = <<>> /\ base = <<>> /\ headless = FALSE /\ spoiled = FALSE
    BY FeatureLogAssumption DEF Init
  <2>2. generator \in [on : BOOLEAN, wrote : 0..(GeneratedRows + 1), jitter : Jitters]
        /\ ~generator.on
    BY <2>1, FeatureLogAssumption DEF NotGenerating, Jitters
  <2>3. /\ logger \in [at : {"idle", "looked", "opened"}, new : BOOLEAN]
        /\ logger.at = "idle" /\ ~logger.new
    BY <2>1 DEF Idle
  <2>4. DataInv
    <3>1. lines \in Seq(Lines) /\ base \in Seq(Rows) /\ logged \in Seq(Nat) /\ DOMAIN lines = {}
      BY <2>1
    <3>2. TypeOK
      BY <2>1, <2>2, <2>3, <3>1 DEF TypeOK
    <3> QED
      BY <2>1, <2>3, <3>1, <3>2 DEF DataInv
  <2>5. FileInv
    BY <2>1, <2>2, <2>3 DEF FileInv
  <2>6. GeneratorInv /\ HistoryInv
    BY <2>1, <2>2 DEF GeneratorInv, HistoryInv, Settled
  <2> QED
    BY <2>4, <2>5, <2>6 DEF LogInv
<1>2. LogInv /\ [Next]_vars => LogInv'
  BY DataKept, FileKept, GeneratorKept, HistoryKept DEF LogInv
<1> QED
  BY <1>1, <1>2, PTL DEF Spec

\* Every line of the file is a header, a row of a number for each key, or torn.
THEOREM TypeCorrect == Spec => []TypeOK
  BY Inductive, PTL DEF LogInv, DataInv

\* A file that is its history place by place is its header, base and logged rows in one.
LEMMA HistoryInOne ==
    ASSUME DataInv, IsHistory
    PROVE  lines = (IF headless THEN <<>> ELSE <<Header>>) \o base
                      \o [k \in 1..Len(logged) |-> Row(SampleTelemetry(logged[k]))]
<1> DEFINE first == IF headless THEN <<>> ELSE <<Header>>
           rows == [k \in 1..Len(logged) |-> Row(SampleTelemetry(logged[k]))]
<1>1. /\ lines \in Seq(Lines) /\ base \in Seq(Rows) /\ logged \in Seq(Nat)
      /\ Len(lines) \in Nat /\ Len(base) \in Nat /\ Len(logged) \in Nat
  BY Typed
<1>2. Rows \subseteq Lines /\ Header \in Lines
  BY DEF Lines
<1>3. /\ first \in Seq(Lines) /\ Len(first) = Headed /\ Headed \in {0, 1}
      /\ Headed = 1 => ~headless /\ first[1] = Header
  BY <1>2 DEF Headed
<1>4. rows \in Seq(Lines) /\ Len(rows) = Len(logged)
  <2>1. \A k \in 1..Len(logged) : Row(SampleTelemetry(logged[k])) \in Rows
    <3>1. 0 \in Jitters
      BY DEF Jitters
    <3> QED
      BY <1>1, <3>1, RowsAreLines, ElementOfSeq
  <2>2. rows \in [1..Len(logged) -> Lines]
    BY <1>2, <2>1
  <2> QED
    BY <1>1, <2>2
<1>5. \A k \in 1..Len(logged) : rows[k] = Row(SampleTelemetry(logged[k]))
  OBVIOUS
<1> DEFINE head == first \o base
           all == head \o rows
<1> HIDE DEF first, rows
<1>6. /\ head \in Seq(Lines) /\ Len(head) = Len(first) + Len(base)
      /\ \A k \in 1..(Len(first) + Len(base)) :
            head[k] = IF k <= Len(first) THEN first[k] ELSE base[k - Len(first)]
  <2>1. base \in Seq(Lines)
    BY <1>1, <1>2
  <2> QED
    BY <1>3, <2>1, ConcatProperties
<1> HIDE DEF head
<1>7. /\ all \in Seq(Lines) /\ Len(all) = Len(head) + Len(rows)
      /\ \A k \in 1..(Len(head) + Len(rows)) :
            all[k] = IF k <= Len(head) THEN head[k] ELSE rows[k - Len(head)]
  <2> SUFFICES LET joined == head \o rows
               IN  /\ joined \in Seq(Lines) /\ Len(joined) = Len(head) + Len(rows)
                   /\ \A k \in 1..(Len(head) + Len(rows)) :
                         joined[k] = IF k <= Len(head) THEN head[k] ELSE rows[k - Len(head)]
    OBVIOUS
  <2>1. head \in Seq(Lines) /\ rows \in Seq(Lines)
    BY <1>4, <1>6
  <2> QED
    BY <2>1, ConcatProperties
<1> HIDE DEF all
<1>8. Len(all) = Len(lines)
  BY <1>1, <1>3, <1>4, <1>6, <1>7 DEF IsHistory
<1>9. ASSUME NEW k \in 1..Len(lines)
      PROVE  lines[k] = all[k]
  <2>1. CASE k <= Headed
    BY <1>1, <1>3, <1>4, <1>6, <1>7, <1>8, <2>1 DEF IsHistory
  <2>2. CASE k > Headed /\ k <= Headed + Len(base)
    <3>1. k - Headed \in 1..Len(base) /\ Headed + (k - Headed) = k
      BY <1>1, <1>3, <2>2
    <3>2. lines[k] = base[k - Headed]
      BY <3>1 DEF IsHistory
    <3>3. all[k] = base[k - Headed]
      BY <1>1, <1>3, <1>4, <1>6, <1>7, <1>8, <2>2
    <3> QED
      BY <3>2, <3>3
  <2>3. CASE k > Headed + Len(base)
    <3> DEFINE i == k - (Headed + Len(base))
    <3>1. i \in 1..Len(logged) /\ Headed + Len(base) + i = k
      BY <1>1, <1>3, <2>3 DEF IsHistory
    <3>2. lines[k] = rows[i]
      BY <1>5, <3>1 DEF IsHistory
    <3>3. all[k] = rows[i]
      BY <1>1, <1>3, <1>4, <1>6, <1>7, <1>8, <2>3
    <3> QED
      BY <3>2, <3>3
  <2> QED
    BY <1>1, <1>3, <2>1, <2>2, <2>3
<1>10. lines = all
  BY <1>1, <1>7, <1>8, <1>9, SeqEqual
<1> QED
  BY <1>10 DEF all, head, first, rows

\* Unless a writer was stopped within a line, or met the other, the file is the header,
\* the generated rows and the logged ones, in order, whenever nobody is writing; a stop
\* before the first line costs the header and nothing else (feature_logger.py:65-71,
\* generate_normal_dataset.py:62-66).
THEOREM HistoryOfFile == Spec => []FileIsItsHistory
<1>1. LogInv => FileIsItsHistory
  BY HistoryInOne DEF LogInv, HistoryInv, FileIsItsHistory
<1> QED
  BY <1>1, Inductive, PTL

\* A row's values stand under their names, at any time and after any accident.
THEOREM RowsNamed == Spec => []RowsNameFields
<1>1. ASSUME DataInv
      PROVE  RowsNameFields
  <2> DEFINE Named(row, t) ==
                /\ \A name \in DOMAIN t \ {"mode"} : Column(row, name) = t[name]
                /\ Column(row, "mode_nominal") = (IF t.mode = "NOMINAL" THEN 1 ELSE 0)
                /\ Column(row, "mode_sunpoint") = (IF t.mode = "SUNPOINT" THEN 1 ELSE 0)
                /\ Column(row, "mode_tx_window") = (IF t.mode = "TX_WINDOW" THEN 1 ELSE 0)
  <2> SUFFICES ASSUME NEW k \in DOMAIN lines, lines[k].kind = "row"
               PROVE  \E j \in Jitters :
                         Named(lines[k].row,
                               Jittered(SampleTelemetry(Column(lines[k].row, "seq")), j))
    BY DEF RowsNameFields
  <2>1. lines[k] \in Rows
    <3>1. lines[k] \in Lines
      BY <1>1 DEF DataInv
    <3> QED
      BY <3>1, LinesAreTyped
  <2>2. PICK q \in Nat, j \in Jitters : lines[k] = Row(Jittered(SampleTelemetry(q), j))
    BY <2>1 DEF Rows, Samples
  <2>3. lines[k].row = FeatureVector(Jittered(SampleTelemetry(q), j))
    BY <2>2 DEF Row
  <2>4. /\ Column(lines[k].row, "seq") = q
        /\ Named(lines[k].row, Jittered(SampleTelemetry(q), j))
    BY <2>3, RowIsOfSample
  <2> HIDE DEF Named
  <2> QED
    BY <2>4
<1>2. LogInv => RowsNameFields
  BY <1>1 DEF LogInv
<1> QED
  BY <1>2, Inductive, PTL

-----------------------------------------------------------------------------
\* The windows over any data longer than one: as many as window_dataset.py cuts, and each
\* row but the last is in one of them, at its place.
LEMMA WindowsOfData ==
    ASSUME NEW S, Data \in Seq(S), Len(Data) > Window
    PROVE  /\ Len(Windows) = Len(Data) - Window
           /\ \A k \in 1..(Len(Data) - 1) : \E i \in DOMAIN Windows :
                 k - i + 1 \in 1..Window /\ Windows[i][k - i + 1] = Data[k]
<1>1. Len(Data) \in Nat /\ Window \in Nat \ {0}
  BY LenProperties, FeatureLogAssumption
<1> DEFINE count == Len(Data) - Window
<1>2. count \in Nat \ {0}
  BY <1>1
<1>3. Windows = [i \in 1..count |-> SubSeq(Data, i, i + Window - 1)]
  BY DEF Windows
<1>4. Len(Windows) = count /\ DOMAIN Windows = 1..count
  <2> HIDE DEF count
  <2> QED
    BY <1>2, <1>3
<1>5. ASSUME NEW k \in 1..(Len(Data) - 1)
      PROVE  \E i \in 1..count : k - i + 1 \in 1..Window /\ Windows[i][k - i + 1] = Data[k]
  <2>1. PICK i \in 1..count : k - i + 1 \in 1..Window
    <3>1. CASE k <= count
      <4>1. k \in 1..count /\ k - k + 1 \in 1..Window
        BY <1>1, <1>2, <3>1
      <4> QED
        BY <4>1
    <3>2. CASE k > count
      <4>1. count \in 1..count /\ k - count + 1 \in 1..Window
        BY <1>1, <1>2, <3>2
      <4> QED
        BY <4>1
    <3> QED
      BY <1>1, <1>2, <3>1, <3>2
  <2> DEFINE window == SubSeq(Data, i, i + Window - 1)
  <2>2. i \in Int /\ i + Window - 1 \in Int /\ \A j \in i..(i + Window - 1) : Data[j] \in S
    <3>1. \A j \in i..(i + Window - 1) : j \in 1..Len(Data)
      BY <1>1, <1>2
    <3> QED
      BY <1>1, <3>1, ElementOfSeq
  <2>3. \A j \in 1..((i + Window - 1) - i + 1) : window[j] = Data[i + j - 1]
    BY <2>2, SubSeqProperties
  <2> HIDE DEF window
  <2>4. k - i + 1 \in 1..((i + Window - 1) - i + 1) /\ i + (k - i + 1) - 1 = k
    BY <1>1, <2>1
  <2>5. window[k - i + 1] = Data[k]
    BY <2>3, <2>4
  <2>6. Windows[i] = window
    BY <1>3 DEF window
  <2> QED
    BY <2>1, <2>5, <2>6
<1> QED
  BY <1>4, <1>5

\* What holds of a file that is its history is what build_windows() needs of it
\* (window_dataset.py:57-75).
THEOREM WindowsCover == Spec => []WindowsCoverAllButLast
<1>1. ASSUME LogInv, ~spoiled, ~headless, Settled
      PROVE  /\ Readable
             /\ Len(Data) > Window =>
                   /\ Len(Windows) = Len(Data) - Window
                   /\ \A k \in 1..(Len(Data) - 1) : \E i \in DOMAIN Windows :
                         k - i + 1 \in 1..Window /\ Windows[i][k - i + 1] = Data[k]
  <2>1. /\ lines \in Seq(Lines) /\ base \in Seq(Rows) /\ logged \in Seq(Nat)
        /\ Len(lines) \in Nat /\ Len(base) \in Nat /\ Len(logged) \in Nat
    BY Typed, <1>1 DEF LogInv
  <2>2. IsHistory /\ Headed = 1
    BY <1>1 DEF LogInv, HistoryInv, Headed
  <2>3. lines # <<>> /\ Head(lines) = Header
    <3>1. lines[1] = Header
      BY <1>1, <2>2 DEF IsHistory
    <3>2. Len(lines) > 0
      BY <2>1, <2>2 DEF IsHistory
    <3> QED
      BY <2>1, <3>1, <3>2
  <2>4. ASSUME NEW k \in 2..Len(lines)
        PROVE  lines[k].kind = "row"
    <3>1. CASE k <= 1 + Len(base)
      <4>1. k - 1 \in 1..Len(base) /\ 1 + (k - 1) = k
        BY <2>1, <3>1
      <4>2. lines[k] \in Rows
        BY <2>1, <2>2, <4>1, ElementOfSeq DEF IsHistory
      <4> QED
        BY <4>2 DEF Rows, Row
    <3>2. CASE k > 1 + Len(base)
      <4> DEFINE i == k - (1 + Len(base))
      <4>1. i \in 1..Len(logged) /\ 1 + Len(base) + i = k
        BY <2>1, <2>2, <3>2 DEF IsHistory
      <4> HIDE DEF i
      <4>2. lines[k] = Row(SampleTelemetry(logged[i]))
        BY <2>2, <4>1 DEF IsHistory
      <4> QED
        BY <4>2 DEF Row
    <3> QED
      BY <2>1, <3>1, <3>2
  <2>5. Readable
    BY <2>3, <2>4 DEF Readable
  <2>6. \E S : Data \in Seq(S)
    <3> DEFINE n == Len(lines) - 1
               S == {Selected(lines[k + 1].row) : k \in 1..n}
    <3>1. n \in Nat
      BY <2>1, <2>2 DEF IsHistory
    <3>2. Data \in [1..n -> S]
      BY DEF Data
    <3>3. Data \in Seq(S)
      <4> HIDE DEF n, S
      <4> QED
        BY <3>1, <3>2
    <3> QED
      BY <3>3
  <2> QED
    BY <2>5, <2>6, WindowsOfData
<1>2. LogInv => WindowsCoverAllButLast
  BY <1>1 DEF WindowsCoverAllButLast
<1> QED
  BY <1>2, Inductive, PTL

\* No sample of the satellite or the generator is out of any range, wherever the cycles
\* stand (runtime_detector.py, telemetry_model.py:191-208).
THEOREM SamplesNominal == Spec => []SamplesAreNominal
<1>1. ASSUME sequence \in Nat
      PROVE  SamplesAreNominal
  <2> SUFFICES ASSUME NEW j \in Jitters
               PROVE  LET t == Jittered(Sample, j)
                      IN  ~IsAnomalous(BuildFrame(sequence, Payload(t))) /\ Envelope(t) = {}
    BY DEF SamplesAreNominal
  <2> DEFINE t == Jittered(SampleTelemetry(sequence), j)
  <2>1. Sample = SampleTelemetry(sequence)
    BY <1>1, LogTextLines
  <2>2. /\ t.temperature_c \in 2125..2235 /\ t.battery_pct \in 86..100
        /\ t.bus_v \in 498..511 /\ t.bus_i \in 41..47
    BY <1>1, JitteredValues
  <2> HIDE DEF t
  <2>3. RangeReasons(Payload(t)) = {}
    BY <2>2 DEF RangeReasons, Payload
  <2>4. Envelope(t) = {}
    BY <2>2 DEF Envelope
  <2>5. ~IsAnomalous(BuildFrame(sequence, Payload(t)))
    BY <2>3, AnomalousByRange
  <2> QED
    BY <2>1, <2>4, <2>5 DEF t
<1>2. LogInv => SamplesAreNominal
  BY <1>1, Typed DEF LogInv
<1> QED
  BY <1>2, Inductive, PTL

\* A reading beyond the envelope, the battery aside, is beyond the detector's range too.
LEMMA BeyondBoth ==
    ASSUME NEW t, t.temperature_c \in Int, t.bus_v \in Int, t.bus_i \in Int,
           Envelope(t) \ {"battery"} # {}
    PROVE  RangeReasons(Payload(t)) # {}
<1>1. PICK r \in {"temperature", "bus_v", "bus_i"} : r \in Envelope(t)
  BY DEF Envelope
<1>2. r \in RangeReasons(Payload(t))
  BY <1>1 DEF Envelope, RangeReasons, Payload
<1> QED
  BY <1>2

\* So whatever the envelope check has to explain, the detector has flagged.
THEOREM EnvelopeFlagged == Spec => []EnvelopeIsFlagged
<1>1. ASSUME sequence \in Nat
      PROVE  EnvelopeIsFlagged
  <2> DEFINE s == SampleTelemetry(sequence)
  <2>1. Sample = s /\ DOMAIN s = Fields /\ s.temperature_c \in Int /\ s.bus_v \in Int
        /\ s.bus_i \in Int
    <3>1. /\ DOMAIN s = Fields
          /\ s.temperature_c \in 2140..2220 /\ s.bus_v \in 500..509 /\ s.bus_i \in 42..46
      BY <1>1, SampleValues
    <3> HIDE DEF s
    <3>2. s.temperature_c \in Int /\ s.bus_v \in Int /\ s.bus_i \in Int
      BY <3>1
    <3> QED
      BY <1>1, <3>1, <3>2, LogTextLines DEF s
  <2> HIDE DEF s
  <2> SUFFICES ASSUME NEW t \in OffReadings, Envelope(t) \ {"battery"} # {}
               PROVE  IsAnomalous(BuildFrame(t.seq, Payload(t)))
    BY DEF EnvelopeIsFlagged
  <2>2. t.temperature_c \in Int /\ t.bus_v \in Int /\ t.bus_i \in Int
    BY <2>1 DEF OffReadings, Fields
  <2> QED
    BY <2>2, BeyondBoth, AnomalousByRange
<1>2. LogInv => EnvelopeIsFlagged
  BY <1>1, Typed DEF LogInv
<1> QED
  BY <1>2, Inductive, PTL
=============================================================================
