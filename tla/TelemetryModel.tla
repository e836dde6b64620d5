--------------------------- MODULE TelemetryModel ---------------------------
(***************************************************************************)
(* The way of a telemetry sample as data: common/telemetry_model.py makes  *)
(* it and turns it into features, the transmitter puts it into a frame,    *)
(* the receiver takes it out again, and models/runtime_detector.py scores  *)
(* the frame.  Numbers are integers: hundredths of a degree, a volt, an    *)
(* ampere and a kilometre, ten-thousandths of a degree of position.        *)
(***************************************************************************)
EXTENDS Integers, Sequences, SequencesExt

Modes == <<"NOMINAL", "SUNPOINT", "TX_WINDOW">>        \* MODE_MAP

AtLeast(a, b) == IF a < b THEN b ELSE a

BatteryPct(seq) == AtLeast(100 - (seq % 15), 20)

\* sample_telemetry(): small cycles around fixed values.
SampleTelemetry(seq) ==
    [seq |-> seq, temperature_c |-> 2140 + (seq % 5) * 20, battery_pct |-> BatteryPct(seq),
     mode |-> Modes[(seq % 3) + 1],
     latitude |-> 430389 + (seq % 3) * 10, longitude |-> -879065 - (seq % 3) * 10,
     altitude_km |-> 55000 + (seq % 4) * 10,
     bus_v |-> 500 + (seq % 4) * 3, bus_i |-> 42 + (seq % 5)]

\* The jitter generate_normal_dataset.py adds, here at one of its ends or not at all.
Jitters == {-1, 0, 1}
Jittered(t, j) ==
    [t EXCEPT !.temperature_c = @ + 15 * j, !.bus_v = @ + 2 * j, !.bus_i = @ + j,
              !.latitude = @ + 3 * j, !.longitude = @ + 3 * j, !.altitude_km = @ + 5 * j]

-----------------------------------------------------------------------------
\* The transmitter's payload, and build_frame() around it.
Payload(t) == [temp_c |-> t.temperature_c, bus_v |-> t.bus_v, bus_i |-> t.bus_i,
               state |-> t.mode, battery_pct |-> t.battery_pct, latitude |-> t.latitude,
               longitude |-> t.longitude, altitude_km |-> t.altitude_km]
BuildFrame(seq, payload) == [sequence |-> seq, payload |-> payload]

\* The Telemetry object the receiver makes of the frame.
Received(frame) ==
    LET p == frame.payload
    IN  [seq |-> frame.sequence, temperature_c |-> p.temp_c, battery_pct |-> p.battery_pct,
         mode |-> p.state, latitude |-> p.latitude, longitude |-> p.longitude,
         altitude_km |-> p.altitude_km, bus_v |-> p.bus_v, bus_i |-> p.bus_i]

\* Faulty variant: the mode as one number.
FeatureVector_ModeNumber(t) ==
    <<t.seq, t.temperature_c, t.battery_pct, t.latitude, t.longitude, t.altitude_km,
      t.bus_v, t.bus_i, CHOOSE k \in 1..Len(Modes) : t.mode = Modes[k]>>

\* to_feature_vector(): no mode's place is set for a mode that is not in MODE_MAP.
FeatureVector(t) ==
    <<t.seq, t.temperature_c, t.battery_pct, t.latitude, t.longitude, t.altitude_km,
      t.bus_v, t.bus_i>>
    \o [k \in 1..Len(Modes) |-> IF t.mode = Modes[k] THEN 1 ELSE 0]

\* Faulty variant: two names in another order than the vector.
FeatureKeys_Swapped == <<"seq", "temperature_c", "battery_pct", "latitude", "longitude",
                         "altitude_km", "bus_i", "bus_v",
                         "mode_nominal", "mode_sunpoint", "mode_tx_window">>

\* The names to_feature_dict() gives the places of the vector.
FeatureKeys == <<"seq", "temperature_c", "battery_pct", "latitude", "longitude",
                 "altitude_km", "bus_v", "bus_i",
                 "mode_nominal", "mode_sunpoint", "mode_tx_window">>

-----------------------------------------------------------------------------
\* Faulty variant: the lower bound of the voltage is forgotten.
RangeReasons_OneSided(p) ==
    {r \in {"temperature", "bus_v", "bus_i"} :
       \/ r = "temperature" /\ (p.temp_c < -4000 \/ p.temp_c > 8500)
       \/ r = "bus_v" /\ p.bus_v > 550
       \/ r = "bus_i" /\ (p.bus_i < 0 \/ p.bus_i > 200)}

\* detect(): a point for each value outside its range, half a point for a state
\* that is not NOMINAL; here in halves.
RangeReasons(p) ==
    {r \in {"temperature", "bus_v", "bus_i"} :
       \/ r = "temperature" /\ (p.temp_c < -4000 \/ p.temp_c > 8500)
       \/ r = "bus_v" /\ (p.bus_v < 450 \/ p.bus_v > 550)
       \/ r = "bus_i" /\ (p.bus_i < 0 \/ p.bus_i > 200)}

Score(frame) == 2 * Cardinality(RangeReasons(frame.payload))
                + (IF frame.payload.state # "NOMINAL" THEN 1 ELSE 0)

\* Faulty variant: an alarm for any point of doubt.
IsAnomalous_AnyDoubt(frame) == Score(frame) > 0

IsAnomalous(frame) == Score(frame) >= 2

\* validate_envelope(): a second set of bounds, on the Telemetry object.
Envelope(t) ==
    {r \in {"battery", "temperature", "bus_v", "bus_i"} :
       \/ r = "battery" /\ ~(0 <= t.battery_pct /\ t.battery_pct <= 100)
       \/ r = "bus_v" /\ ~(300 <= t.bus_v /\ t.bus_v <= 600)
       \/ r = "bus_i" /\ ~(0 <= t.bus_i /\ t.bus_i <= 200)
       \/ r = "temperature" /\ ~(-10000 <= t.temperature_c /\ t.temperature_c <= 12000)}
=============================================================================
