---------------------------- MODULE ChunkBuffers ----------------------------
(***************************************************************************)
(* The data of groundstation/reassembly.py: the buffers that collect the   *)
(* chunks of one message each, and what the methods of ChunkAssembly and   *)
(* ReassemblyFactory make of them.                                         *)
(*                                                                         *)
(* A key is the record [sid, mid]; mid is NoMid for a session-init, which  *)
(* fixes the chunk type as well ("si" exactly when there is no mid).       *)
(* A buffer is [total, parts, idle]: total_chunks, parts as a function     *)
(* from the indexes received to their fragments, and the time since        *)
(* updated_at.  A chunk is [key, i, n, d, intact]; intact says whether the *)
(* CRC matches the fragment.                                               *)
(***************************************************************************)
EXTENDS Integers, FiniteSets, Functions

CONSTANTS NoMid,               \* the message_id of a session-init
          SessionInitTtl,      \* SESSION_INIT_TTL_SECONDS
          TelemetryTtl,        \* TELEMETRY_TTL_SECONDS
          MaxMissingPerNack    \* MAX_MISSING_PER_NACK

ASSUME TtlAssumption == SessionInitTtl \in Nat /\ TelemetryTtl \in Nat
ASSUME NackLimitAssumption == MaxMissingPerNack \in Nat \ {0}

\* _make_key()
MakeKey(sid, mid) == [sid |-> sid, mid |-> mid]

Ttl(key) == IF key.mid = NoMid THEN SessionInitTtl ELSE TelemetryTtl

\* An idle time at which every buffer is overdue; longer ones need no telling apart.
Overdue == (IF SessionInitTtl > TelemetryTtl THEN SessionInitTtl ELSE TelemetryTtl) + 1

NewBuffer(n) == [total |-> n, parts |-> [i \in {} |-> i], idle |-> 0]

\* Faulty variant: taking the last chunk's arrival for the whole message's.
IsComplete_LastArrived(buf) == buf.total - 1 \in DOMAIN buf.parts

\* is_complete() counts the parts.
IsComplete(buf) == Cardinality(DOMAIN buf.parts) = buf.total

\* assemble(): the fragments in the order of their indexes, once none is missing.
Assembled(buf) == [k \in 1..buf.total |-> buf.parts[k - 1]]

Missing(buf) == 0..(buf.total - 1) \ DOMAIN buf.parts

\* missing[:MAX_MISSING_PER_NACK]: the first of the ascending list.
Trimmed(missing) ==
    {i \in missing : Cardinality({j \in missing : j < i}) < MaxMissingPerNack}

\* Faulty variants: expiring finished messages too; never expiring a session-init.
Stale_Finished(bufs) == {key \in DOMAIN bufs : bufs[key].idle > Ttl(key)}
Stale_TelemetryOnly(bufs) ==
    {key \in DOMAIN bufs : /\ key.mid # NoMid
                           /\ bufs[key].idle > Ttl(key)
                           /\ ~IsComplete(bufs[key])}

\* flush_stale(): which buffers it drops, and what is left.
Stale(bufs) ==
    {key \in DOMAIN bufs : bufs[key].idle > Ttl(key) /\ ~IsComplete(bufs[key])}

Flushed(bufs) == Restrict(bufs, DOMAIN bufs \ Stale(bufs))

Without(bufs, key) == Restrict(bufs, DOMAIN bufs \ {key})

\* Faulty variant: indexes counted from one.
WithPart_FromOne(buf, c) ==
    [total |-> buf.total,
     parts |-> [i \in DOMAIN buf.parts \cup {c.i + 1} |->
                  IF i \in DOMAIN buf.parts THEN buf.parts[i] ELSE c.d],
     idle  |-> 0]

\* add_part(): a fragment under an index that is already there changes nothing but
\* the time of the last update, and not even that when it differs.
WithPart(buf, c) ==
    [total |-> buf.total,
     parts |-> [i \in DOMAIN buf.parts \cup {c.i} |->
                  IF i \in DOMAIN buf.parts THEN buf.parts[i] ELSE c.d],
     idle  |-> 0]

\* The buffer add_chunk() works on: expired ones are gone by then.
Target(bufs, c) ==
    IF c.key \in DOMAIN Flushed(bufs) THEN bufs[c.key] ELSE NewBuffer(c.n)

\* Faulty variants: trusting the total of the first chunk; keeping the first of two
\* different fragments.
WrongTotal_Unchecked(buf, c) == FALSE
Conflicts_Unchecked(buf, c) == FALSE

\* The chunk claims another total than the buffer has.
WrongTotal(buf, c) == buf.total # c.n

\* The chunk brings another fragment for an index that is filled.
Conflicts(buf, c) == c.i \in DOMAIN buf.parts /\ buf.parts[c.i] # c.d

Repeats(buf, c) == c.i \in DOMAIN buf.parts /\ buf.parts[c.i] = c.d

\* How add_chunk() ends, in the order of its returns.
Verdict(bufs, c) ==
    LET buf == Target(bufs, c)
    IN  IF ~c.intact THEN "crc_fail"
        ELSE IF WrongTotal(buf, c) THEN "mismatch"
        ELSE IF Conflicts(buf, c) THEN "conflict"
        ELSE IF Repeats(buf, c) THEN "duplicate"
        ELSE IF IsComplete(WithPart(buf, c)) THEN "complete"
        ELSE "stored"

\* What add_chunk() leaves: stale buffers are flushed on every call, and a buffer
\* that disagrees with the chunk is dropped whole.
Added(bufs, c) ==
    CASE Verdict(bufs, c) = "crc_fail"               -> Flushed(bufs)
      [] Verdict(bufs, c) \in {"mismatch", "conflict"} -> Without(Flushed(bufs), c.key)
      [] OTHER -> [key \in DOMAIN Flushed(bufs) \cup {c.key} |->
                     IF key = c.key THEN WithPart(Target(bufs, c), c) ELSE bufs[key]]

\* Time passes for every buffer.
Aged(bufs) ==
    [key \in DOMAIN bufs |->
       [total |-> bufs[key].total,
        parts |-> bufs[key].parts,
        idle  |-> IF bufs[key].idle < Overdue THEN bufs[key].idle + 1 ELSE Overdue]]
=============================================================================
