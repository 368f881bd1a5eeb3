---------------------------- MODULE AuditForwarder ----------------------------
(***************************************************************************)
(* The audit trail: the Logger of each replica stamps events and inserts    *)
(* them into the table audit_events, and the sidecar (RunForwarder) polls   *)
(* the table after a cursor and writes what it finds to stdout.             *)
(*                                                                          *)
(* occurred_at is a TEXT column: the database compares the timestamps as    *)
(* strings.  A timestamp is modelled by its place in the order of strings   *)
(* (Format), an event by its timestamp and its id.                          *)
(***************************************************************************)
EXTENDS Integers, Sequences, FiniteSets

CONSTANTS
    Replicas,   \* the server processes, each with one Logger
    Ids,        \* the ids uuid.NewString may return, in the order of strings
    Base,       \* the number of digits there are
    Instants,   \* the readings of the clock, in units of 1 / (Base * Base) second
    BatchSize,  \* AuditForwarderBatchSize
    MaxFaults   \* bound: failed queries and restarts of the sidecar

ASSUME AuditAssumption ==
    /\ Ids \subseteq Nat
    /\ Base \in Nat \ {0, 1}
    /\ Instants \subseteq Nat
    /\ BatchSize \in Int
    /\ MaxFaults \in Nat

VARIABLES
    now,      \* the last reading of the clock, -1 before the first
    logger,   \* replica -> the event between time.Now and its INSERT, if any
    table,    \* the rows of audit_events
    pc,       \* the sidecar: "down", "poll", "emit" or "sleep"
    cursor,   \* at, id of RunForwarder
    batch,    \* the rows of the last poll that are not yet written
    out,      \* the events written to stdout, in order
    fresh,    \* the events inserted since the sidecar started
    late,     \* those of them that were inserted behind its position
    faults

vars == <<now, logger, table, pc, cursor, batch, out, fresh, late, faults>>
trailVars == <<now, logger, table, fresh, late>>

\* RFC3339Nano drops the trailing zeros of the fraction, and the point with
\* the last of them; 'Z' comes after every digit and after the point.  Two
\* digits stand for the nine of the format.
Format(t) ==
    LET Z == Base
        second == t \div (Base * Base)
        tenth == (t \div Base) % Base
        hundredth == t % Base
        fraction == IF tenth = 0 /\ hundredth = 0 THEN <<Z, Z>>
                    ELSE IF hundredth = 0 THEN <<tenth, Z>>
                    ELSE <<tenth, hundredth>>
    IN  (second * (Base + 1) + fraction[1]) * (Base + 1) + fraction[2]

Event == [at : Int, id : Nat]

\* occurred_at > ? OR (occurred_at = ? AND event_id > ?), and the ORDER BY.
Before(d, e) == d.at < e.at \/ (d.at = e.at /\ d.id < e.id)

\* The empty strings of a cursor over an empty table.
Origin == [at |-> -1, id |-> 0]

After(c) == {e \in table : Before(c, e)}

\* RunForwarder's and ListAfter's limit.
Limit == IF BatchSize <= 0 \/ BatchSize > 500 THEN 100 ELSE BatchSize

Fault ==
    /\ faults < MaxFaults
    /\ faults' = faults + 1

Init ==
    /\ now = -1
    /\ logger = [r \in Replicas |-> {}]
    /\ table = {}
    /\ pc = "down"
    /\ cursor = Origin
    /\ batch = {}
    /\ out = <<>>
    /\ fresh = {}
    /\ late = {}
    /\ faults = 0

-----------------------------------------------------------------------------
(* Logger.Write, under the mutex of the replica's Logger.  The clock counts *)
(* nanoseconds and an INSERT takes longer: no two readings are the same.    *)

Stamp(r) ==
    /\ logger[r] = {}
    /\ \E t \in Instants, i \in Ids :
         /\ t > now
         /\ \A e \in table \cup UNION {logger[q] : q \in Replicas} : e.id # i
         /\ now' = t
         /\ logger' = [logger EXCEPT ![r] = {[at |-> Format(t), id |-> i]}]
    /\ UNCHANGED <<table, pc, cursor, batch, out, fresh, late, faults>>

\* Behind the sidecar is what neither its next query nor its batch covers.
Behind(e) == ~Before(cursor, e) \/ \E b \in batch : ~Before(b, e)

\* The INSERT commits.  A failed one only reaches the log.
Commit(r) ==
    /\ logger[r] # {}
    /\ \/ /\ table' = table \cup logger[r]
          /\ IF pc = "down" THEN UNCHANGED <<fresh, late>>
             ELSE /\ fresh' = fresh \cup logger[r]
                  /\ late' = late \cup {e \in logger[r] : Behind(e)}
          /\ UNCHANGED faults
       \/ Fault /\ UNCHANGED <<table, fresh, late>>
    /\ logger' = [logger EXCEPT ![r] = {}]
    /\ UNCHANGED <<now, pc, cursor, batch, out>>

-----------------------------------------------------------------------------
(* RunForwarder                                                             *)

\* Mutant of Start: the cursor starts before the first row.
StartAtOrigin ==
    /\ pc = "down"
    /\ pc' = "poll" /\ cursor' = Origin
    /\ UNCHANGED <<trailVars, batch, out, faults>>

\* Cursor: the latest row, or the empty strings.  On an error the process
\* ends and is started again.
Start ==
    /\ pc = "down"
    /\ \/ /\ pc' = "poll"
          /\ \/ table = {} /\ cursor' = Origin
             \/ /\ cursor' \in table
                /\ \A e \in table : ~Before(cursor', e)
          /\ UNCHANGED faults
       \/ Fault /\ UNCHANGED <<pc, cursor>>
    /\ UNCHANGED <<trailVars, batch, out>>

\* Mutant of Poll: ORDER BY ... DESC.
PollNewestFirst ==
    /\ pc = "poll"
    /\ pc' = "emit"
    /\ \E b \in SUBSET After(cursor) :
         /\ Cardinality(b) <= Limit
         /\ b # After(cursor) => Cardinality(b) = Limit
         /\ \A e \in b, d \in After(cursor) \ b : Before(d, e)
         /\ batch' = b
    /\ UNCHANGED <<trailVars, cursor, out, faults>>

\* Mutant of Poll: the query has no LIMIT.
PollUnlimited ==
    /\ pc = "poll"
    /\ pc' = "emit"
    /\ batch' = After(cursor)
    /\ UNCHANGED <<trailVars, cursor, out, faults>>

\* Mutant of Poll: an error ends the loop, and with it the process.
PollReturnsError ==
    /\ pc = "poll"
    /\ \/ /\ pc' = "emit" /\ UNCHANGED faults
          /\ \E b \in SUBSET After(cursor) :
               /\ Cardinality(b) <= Limit
               /\ b # After(cursor) => Cardinality(b) = Limit
               /\ \A e \in b, d \in After(cursor) \ b : Before(e, d)
               /\ batch' = b
       \/ Fault /\ pc' = "down" /\ UNCHANGED batch
    /\ UNCHANGED <<trailVars, cursor, out>>

\* ListAfter: the first Limit rows after the cursor.  An error is logged.
Poll ==
    /\ pc = "poll"
    /\ \/ /\ pc' = "emit" /\ UNCHANGED faults
          /\ \E b \in SUBSET After(cursor) :
               /\ Cardinality(b) <= Limit
               /\ b # After(cursor) => Cardinality(b) = Limit
               /\ \A e \in b, d \in After(cursor) \ b : Before(e, d)
               /\ batch' = b
       \/ Fault /\ pc' = "sleep" /\ UNCHANGED batch
    /\ UNCHANGED <<trailVars, cursor, out>>

\* One turn of the loop over the rows, which are in ascending order.
Emit ==
    /\ pc = "emit"
    /\ \E e \in batch :
         /\ \A b \in batch : ~Before(b, e)
         /\ out' = Append(out, e)
         /\ cursor' = e
         /\ batch' = batch \ {e}
    /\ UNCHANGED <<trailVars, pc, faults>>

Emitted ==
    /\ pc = "emit"
    /\ batch = {}
    /\ pc' = "sleep"
    /\ UNCHANGED <<trailVars, cursor, batch, out, faults>>

Wake ==
    /\ pc = "sleep"
    /\ pc' = "poll"
    /\ UNCHANGED <<trailVars, cursor, batch, out, faults>>

\* The sidecar dies: what it has not written is no longer its concern, as
\* it starts again at the latest row.
Die ==
    /\ pc # "down"
    /\ Fault
    /\ pc' = "down"
    /\ batch' = {} /\ fresh' = {} /\ late' = {}
    /\ UNCHANGED <<now, logger, table, cursor, out>>

Forwarder == Start \/ Poll \/ Emit \/ Emitted \/ Wake

Next ==
    \/ \E r \in Replicas : Stamp(r) \/ Commit(r)
    \/ Forwarder
    \/ Die

\* The sidecar keeps running and its queries end.
Spec == Init /\ [][Next]_vars /\ WF_vars(Forwarder)

-----------------------------------------------------------------------------
(* Properties                                                               *)

Forwarded == {out[n] : n \in DOMAIN out}

\* The rows, the events on their way to the table and the sidecar's position
\* keep their types, and a batch never exceeds the limit of the query.
TypeOK ==
    /\ now \in {-1} \cup Instants
    /\ logger \in [Replicas -> SUBSET Event]
    /\ table \subseteq Event
    /\ pc \in {"down", "poll", "emit", "sleep"}
    /\ cursor \in Event
    /\ batch \subseteq table /\ Cardinality(batch) <= Limit
    /\ out \in Seq(Event)
    /\ fresh \subseteq table /\ late \subseteq fresh
    /\ faults \in 0..MaxFaults

\* No event is written twice, and none before an earlier one, over any number
\* of restarts: "a restart does not replay history".
NoReplay == \A m, n \in DOMAIN out : m < n => Before(out[m], out[n])

\* An event that was inserted ahead of the sidecar's position is written or
\* still ahead of the cursor: batches, their limit, failed polls and events
\* that arrive between a query and its last row lose nothing.
OwedForwarded == \A e \in fresh \ late : e \in Forwarded \/ Before(cursor, e)

\* The README's "writes each new event_json value": no event inserted since
\* the sidecar started is passed over, whatever its timestamp.
EachNewForwarded == \A e \in fresh : e \in Forwarded \/ Before(cursor, e)

\* An event inserted ahead of the sidecar's position is eventually written,
\* unless the sidecar dies first.
Delivered ==
    \A i \in Ids :
      (\E e \in fresh \ late : e.id = i) ~>
        ((\E e \in Forwarded : e.id = i) \/ ~\E e \in fresh : e.id = i)

-----------------------------------------------------------------------------
(* The inductive invariant behind the proofs                                *)

\* A batch is the next stretch of the table: what is owed and not in it
\* comes after it.
BatchIsNext ==
    /\ batch # {} => pc = "emit"
    /\ pc = "down" => fresh = {}
    /\ \A b \in batch : Before(cursor, b)
    /\ \A e \in fresh \ late :
         \/ e \in Forwarded
         \/ e \in batch
         \/ Before(cursor, e) /\ \A b \in batch : Before(b, e)

\* What has been written is behind the cursor, or the sidecar is down.
WrittenIsBehind ==
    /\ Forwarded \subseteq table
    /\ pc # "down" => \A e \in Forwarded : ~Before(cursor, e)

\* What holds between any two steps, and is enough to prove NoReplay and
\* OwedForwarded for any number of replicas and any timestamps.
IInv ==
    /\ TypeOK /\ BatchIsNext /\ WrittenIsBehind /\ NoReplay
    /\ IsFiniteSet(table) /\ \A r \in Replicas : IsFiniteSet(logger[r])

\* With one Logger and a clock whose strings are in the order of its
\* readings, rows are inserted in the order of the table.
Punctual ==
    /\ cursor \in table \cup {Origin}
    /\ \A e \in table \cup UNION {logger[r] : r \in Replicas} :
         \E t \in Instants : t <= now /\ e.at = Format(t)
    /\ \A r \in Replicas : \A e \in logger[r], d \in table : Before(d, e)
    /\ late = {}
=============================================================================
