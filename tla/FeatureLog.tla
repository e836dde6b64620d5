----------------------------- MODULE FeatureLog -----------------------------
(***************************************************************************)
(* The file the anomaly detector is trained from.  Two programs write it:  *)
(* the receiver's FeatureLogger appends a row for every accepted packet,   *)
(* generate_normal_dataset.py replaces it by a synthetic set; and          *)
(* window_dataset.py reads it.  No lock is taken, and either writer may be *)
(* stopped between any two of its file operations.                         *)
(*                                                                         *)
(* A line is a header, a row of numbers, or the part of a row that was     *)
(* written before its writer was stopped.  The generator's flushes are     *)
(* taken to end with a row unless it is stopped.                           *)
(***************************************************************************)
EXTENDS TelemetryModel

CONSTANTS Starts,        \* sequence numbers the satellite may have arrived at
          MaxSteps,      \* bound: telemetry messages that follow
          GeneratedRows, \* ROWS_TO_GENERATE
          Window         \* WINDOW_SIZE of the training

ASSUME FeatureLogAssumption == /\ Starts \subseteq Nat \ {0}
                               /\ MaxSteps \in Nat /\ GeneratedRows \in Nat \ {0}
                               /\ Window \in Nat \ {0}

VARIABLES sequence,      \* the message the satellite sends next
          last,          \* bound: the last one
          exists,        \* whether there is a file
          lines,         \* its lines
          logger,        \* the receiver in FeatureLogger.log()
          generator,     \* the generator: the lines written so far and the jitter
          logged,        \* history: numbers logged since the file was begun
          base,          \* history: the generated rows the file was begun with
          headless,      \* history: the file was created or emptied by a writer that was
                       \* stopped before its header reached it
        spoiled        \* history: a writer was stopped within a line, or met the other

sending == <<sequence, last>>
file == <<exists, lines>>
history == <<logged, base, headless, spoiled>>
vars == <<sending, file, logger, generator, history>>

Header == [kind |-> "header", row |-> <<>>]
Row(t) == [kind |-> "row", row |-> FeatureVector(t)]
Torn == [kind |-> "torn", row |-> <<>>]

Idle == [at |-> "idle", new |-> FALSE]
NotGenerating == [on |-> FALSE, wrote |-> 0, jitter |-> 0]

Init == /\ sequence \in Starts
        /\ last = sequence + MaxSteps
        /\ exists = FALSE /\ lines = <<>>
        /\ logger = Idle
        /\ generator = NotGenerating
        /\ logged = <<>> /\ base = <<>>
        /\ headless = FALSE /\ spoiled = FALSE

\* What the receiver has of the satellite's sample.
Sample == Received(BuildFrame(sequence, Payload(SampleTelemetry(sequence))))

-----------------------------------------------------------------------------
\* log(): it looks whether there is a file, ...
LogLooks == /\ logger = Idle
            /\ sequence < last
            /\ logger' = [at |-> "looked", new |-> ~exists]
            /\ UNCHANGED <<sending, file, generator, history>>

\* ... opens it for appending, which creates it, ...
LogOpens == /\ logger.at = "looked"
            /\ logger' = [logger EXCEPT !.at = "opened"]
            /\ exists' = TRUE
            /\ UNCHANGED <<sending, lines, generator, history>>

\* Faulty variant: the header is left to the generator.
LogText_NoHeader == <<Row(Sample)>>

LogText == IF logger.new THEN <<Header, Row(Sample)>> ELSE <<Row(Sample)>>

\* What is appended after a torn line becomes part of it.
Appended(text) == IF lines # <<>> /\ Last(lines) = Torn
                  THEN lines \o Tail(text) ELSE lines \o text

\* ... and writes the header, if it found no file, and the row when it closes it.
LogWrites == /\ logger.at = "opened"
             /\ lines' = Appended(LogText)
             /\ logged' = Append(logged, sequence)
             /\ logger' = Idle
             /\ sequence' = sequence + 1
             /\ spoiled' = (spoiled \/ generator.on)
             /\ UNCHANGED <<last, exists, generator, base, headless>>

\* The receiver is stopped within log().  A new file is left without a header, unless
\* the header was written already.
LogStops == /\ logger # Idle
            /\ logger' = Idle
            /\ LET bare == logger.at = "opened" /\ logger.new
               IN  \/ /\ headless' = (headless \/ bare)
                      /\ UNCHANGED lines
                   \/ /\ bare
                      /\ lines' = Appended(<<Header>>)
                      /\ UNCHANGED headless
            /\ UNCHANGED <<sending, exists, generator, logged, base, spoiled>>

\* A message that does not get through leaves a gap in the numbers.
MessageLost == /\ logger = Idle
               /\ sequence < last
               /\ sequence' = sequence + 1
               /\ UNCHANGED <<last, file, logger, generator, history>>

-----------------------------------------------------------------------------
\* The rows of the synthetic set, numbered from 1.
Generated(j) == [k \in 1..GeneratedRows |-> Row(Jittered(SampleTelemetry(k), j))]

\* Opening the file for writing empties it.
GenerateOpens ==
    /\ ~generator.on
    /\ \E j \in Jitters :
          /\ generator' = [on |-> TRUE, wrote |-> 0, jitter |-> j]
          /\ base' = Generated(j)
    /\ exists' = TRUE /\ lines' = <<>>
    /\ logged' = <<>>
    /\ headless' = FALSE /\ spoiled' = logger.new
    /\ UNCHANGED <<sending, logger>>

Synthetic == <<Header>> \o Generated(generator.jitter)

\* A flush writes at the generator's own place in the file, over what is there.
GenerateWrites ==
    /\ generator.on
    /\ generator.wrote < Len(Synthetic)
    /\ LET place == generator.wrote + 1
       IN  /\ lines' = IF place <= Len(lines) THEN [lines EXCEPT ![place] = Synthetic[place]]
                       ELSE Append(lines, Synthetic[place])
           /\ generator' = [generator EXCEPT !.wrote = place]
    /\ UNCHANGED <<sending, exists, logger, history>>

GenerateCloses ==
    /\ generator.on
    /\ generator.wrote = Len(Synthetic)
    /\ generator' = NotGenerating
    /\ UNCHANGED <<sending, file, logger, history>>

\* Stopped before the end, between two lines or in the middle of one.
GenerateStops ==
    /\ generator.on
    /\ generator.wrote < Len(Synthetic)
    /\ generator' = NotGenerating
    /\ base' = SubSeq(base, 1, generator.wrote - 1)
    /\ \/ lines' = lines /\ headless' = (generator.wrote = 0) /\ UNCHANGED spoiled
       \/ lines' = Append(lines, Torn) /\ spoiled' = TRUE /\ UNCHANGED headless
    /\ UNCHANGED <<sending, exists, logger, logged>>

Next == \/ LogLooks \/ LogOpens \/ LogWrites \/ LogStops \/ MessageLost
        \/ GenerateOpens \/ GenerateWrites \/ GenerateCloses \/ GenerateStops

Spec == Init /\ [][Next]_vars

-----------------------------------------------------------------------------
\* build_windows(): rows of the columns named in FEATURE_COLUMNS, which pandas finds by
\* the header, and the windows over them.  It fails on any other file.
FeatureColumns == <<"seq", "temperature_c", "battery_pct", "latitude", "longitude",
                    "altitude_km", "bus_v", "bus_i",
                    "mode_nominal", "mode_sunpoint", "mode_tx_window">>

Readable == /\ lines # <<>> /\ Head(lines) = Header
            /\ \A k \in 2..Len(lines) : lines[k].kind = "row"

Column(row, name) == row[CHOOSE k \in DOMAIN FeatureKeys : FeatureKeys[k] = name]
Selected(row) == [k \in DOMAIN FeatureColumns |-> Column(row, FeatureColumns[k])]
Data == [k \in 1..(Len(lines) - 1) |-> Selected(lines[k + 1].row)]

\* Faulty variant: the last row is left out twice.
Windows_OneLess == [i \in 1..(Len(Data) - Window - 1) |-> SubSeq(Data, i, i + Window - 1)]

Windows == [i \in 1..(Len(Data) - Window) |-> SubSeq(Data, i, i + Window - 1)]

-----------------------------------------------------------------------------
TypeOK ==
    /\ sequence \in Nat /\ sequence <= last
    /\ exists \in BOOLEAN /\ (lines # <<>> => exists)
    /\ \A k \in DOMAIN lines : /\ lines[k].kind \in {"header", "row", "torn"}
                               /\ lines[k].kind = "row" => lines[k].row \in [DOMAIN FeatureKeys -> Int]
    /\ logger \in [at : {"idle", "looked", "opened"}, new : BOOLEAN]
    /\ generator \in [on : BOOLEAN, wrote : 0..(GeneratedRows + 1), jitter : Jitters]
    /\ headless \in BOOLEAN /\ spoiled \in BOOLEAN

\* Nobody is in the middle of writing.
Settled == exists /\ ~generator.on /\ ~(logger.at = "opened" /\ logger.new)

\* The header comes first and once, and then every row, generated and logged, in order
\* and nothing else (feature_logger.py:65-71), wherever the writers are stopped between
\* two lines.  A stop before the first costs the header for good, since log() takes the
\* file for its header (feature_logger.py:65), and nothing else.  Left out are a stop
\* within a line and log() meeting the generator at work, or overtaken by it after
\* looking for the file.
FileIsItsHistory ==
    ~spoiled /\ Settled =>
        lines = (IF headless THEN <<>> ELSE <<Header>>) \o base
                \o [k \in 1..Len(logged) |-> Row(SampleTelemetry(logged[k]))]

\* Then training gets its data: the file can be read, and the windows, as many as
\* window_dataset.py:62 says, hold every row but the last at its place.
WindowsCoverAllButLast ==
    ~spoiled /\ ~headless /\ Settled =>
        /\ Readable
        /\ Len(Data) > Window =>
              /\ Len(Windows) = Len(Data) - Window
              /\ \A k \in 1..(Len(Data) - 1) : \E i \in DOMAIN Windows :
                    k - i + 1 \in 1..Window /\ Windows[i][k - i + 1] = Data[k]

\* Under every name the file has the value of that name in the sample the row is from,
\* through payload, frame, vector and columns; one mode is marked, the sample's.
RowsNameFields ==
    \A k \in DOMAIN lines : lines[k].kind = "row" =>
        \E j \in Jitters :
            LET row == lines[k].row
                t == Jittered(SampleTelemetry(Column(row, "seq")), j)
            IN  /\ \A name \in DOMAIN t \ {"mode"} : Column(row, name) = t[name]
                /\ Column(row, "mode_nominal") = (IF t.mode = "NOMINAL" THEN 1 ELSE 0)
                /\ Column(row, "mode_sunpoint") = (IF t.mode = "SUNPOINT" THEN 1 ELSE 0)
                /\ Column(row, "mode_tx_window") = (IF t.mode = "TX_WINDOW" THEN 1 ELSE 0)

\* Nothing the satellite sends or the generator makes up raises an alarm, in any mode and
\* at any point of the sample's cycles, with the jitter at its ends; and the envelope
\* check agrees.
SamplesAreNominal ==
    \A j \in Jitters :
        LET t == Jittered(Sample, j)
        IN  ~IsAnomalous(BuildFrame(sequence, Payload(t))) /\ Envelope(t) = {}

\* Readings that differ from the sample in one value at or beyond a bound of either check.
OffReadings ==
    {[Sample EXCEPT !.temperature_c = x] : x \in {-10001, -10000, -4001, -4000, 8500, 8501, 12000, 12001}}
    \cup {[Sample EXCEPT !.bus_v = x] : x \in {299, 300, 449, 450, 550, 551, 600, 601}}
    \cup {[Sample EXCEPT !.bus_i = x] : x \in {-1, 0, 200, 201}}
    \cup {[Sample EXCEPT !.mode = "SAFE"]}

\* The two sets of bounds fit together: what the envelope check explains to the operator
\* (telemetry_model.py:191-208), the detector has flagged, the battery aside, which
\* it does not look at.
EnvelopeIsFlagged ==
    \A t \in OffReadings :
        Envelope(t) \ {"battery"} # {} => IsAnomalous(BuildFrame(t.seq, Payload(t)))
=============================================================================
