-------------------------- MODULE FeaturePipeline --------------------------
(***************************************************************************)
(* From the Bronze streams to the Gold rows: FeaturePipeline of            *)
(* src/features/engineering.py and FeatureStore.write_offline of           *)
(* src/features/store.py.  One symbol, one consumer of the group, started  *)
(* again after it stops.                                                   *)
(*                                                                         *)
(* A row is named by its entry, <<kind, position>>: its features follow    *)
(* from the window it was computed in (FeatureCalculators), its ts is      *)
(* kept.  Entries were validated by the models that wrote them.  The trade *)
(* calculator answers each with a dictionary; KlineFeatureCalculator has   *)
(* no vector for a candle with close <= 0, which those models let through: *)
(* NoVector stands for the ts of such a candle.                            *)
(***************************************************************************)
EXTENDS Integers, Sequences, FiniteSets, SequencesExt, FeatureCalculators

CONSTANTS
    Count,       \* COUNT of XREADGROUP
    FlushAt,     \* rows in the buffer that make _process_messages flush
    Sizes,       \* windows of a calculator
    IdleRounds,  \* idle_rounds
    Faults,
    MaxTrades,   \* bound: entries of the trade stream
    MaxCandles,  \* bound: entries of the kline stream
    MaxTs,       \* bound: timestamps
    MaxDays,     \* bound: days
    MaxStarts,   \* bound: processes
    MaxFaults    \* bound: faults

\* "crash": the process is killed.  "reply": XREADGROUP raises.
\* "ack": XACK raises.  "insert": PostgreSQL rejects a row.  "pg": it cannot
\* be reached, or the connection breaks.  "table": its tables do not have the
\* columns of a vector.  "disk": a parquet file cannot be read or written.
\* "online": HSET or EXPIRE raises.
AllFaults == {"crash", "reply", "ack", "insert", "pg", "table", "disk", "online"}

ASSUME FaultsAssumption == Faults \subseteq AllFaults
ASSUME BoundsAssumption ==
    /\ MaxFaults \in Nat
    /\ {Count, FlushAt, IdleRounds, MaxTrades, MaxCandles, MaxTs, MaxDays,
            MaxStarts} \cup Sizes \subseteq Nat \ {0}

Kinds == {"trades", "klines"}
MaxLength == [k \in Kinds |-> IF k = "trades" THEN MaxTrades ELSE MaxCandles]
Rows == UNION {{k} \X (1..MaxLength[k]) : k \in Kinds}
NoVector == 0
Days == 1..MaxDays

VARIABLES
    stream,    \* stream[k]: the ts of the entries of stream:<k>:<symbol>
    delivered, \* delivered[k]: last entry the group has delivered
    pending,   \* entries delivered and not acknowledged
    pc,        \* where the process is
    batch,     \* entries of the response not yet processed
    buffer,    \* buffer[symbol]
    windows,   \* windows[k]: the deques of the calculator of kind k
    conn,      \* pg_conn: "none", "open", or "broken" without its knowing
    idle,      \* consecutive_empty
    day,       \* date_str
    file,      \* file[d]: the parquet file of day d
    tables,    \* whether PostgreSQL's tables have the columns of a vector
    offline,   \* rows in PostgreSQL
    online,    \* features:latest:<symbol>: "absent", "expiring" or "lasting"
    starts,
    finite,    \* the entry point: run_finite (TRUE) or run (FALSE)
    faults,
    rejected,  \* history: rows that PostgreSQL did not take
    cut,       \* history: processes that ended with rows in their buffer
    skipped,   \* history: flushes that were due and failed or were not reached
    destroyed, \* history: days whose file to_parquet left without its rows
    broken,    \* history: responses of which not every entry was acknowledged
    torn       \* history: whether the last HSET was not followed by EXPIRE

process == <<pc, batch, buffer, windows, conn, idle>>
group   == <<delivered, pending>>
stores  == <<file, offline, online>>
losses  == <<rejected, cut, skipped, destroyed, broken, torn>>
history == <<faults, losses>>
world   == <<stream, day, tables, starts, finite>>
vars    == <<world, group, process, stores, history>>

Running  == {"read", "row", "expire", "store", "ack", "flush", "write", "last", "lastWrite"}
Absent   == [state |-> "absent", rows |-> <<>>]
Ts(r)    == stream[r[1]][r[2]]

HasVector(r) == Ts(r) # NoVector

\* The acknowledged entries of which there is a row to keep.
AckedRows == {r \in Rows : r[2] <= delivered[r[1]] /\ r \notin pending /\ HasVector(r)}

TypeOK ==
    /\ stream \in [Kinds -> Seq({NoVector} \cup 1..MaxTs)]
    /\ delivered \in [Kinds -> Nat]
    /\ pending \subseteq Rows
    /\ pc \in Running \cup {"ended", "down"}
    /\ batch \in Seq(Rows)
    /\ buffer \in Seq(Rows)
    /\ windows \in [Kinds -> [Sizes -> Seq(Rows)]]
    /\ conn \in {"none", "open", "broken"}
    /\ idle \in 0..IdleRounds
    /\ day \in Days
    /\ file \in [Days -> [state : {"absent", "good", "torn"}, rows : Seq(Rows)]]
    /\ tables \in BOOLEAN
    /\ offline \subseteq Rows
    /\ online \in {"absent", "expiring", "lasting"}
    /\ starts \in 1..MaxStarts
    /\ finite \in BOOLEAN
    /\ faults \in 0..MaxFaults
    /\ rejected \subseteq Rows
    /\ cut \in 0..MaxStarts
    /\ skipped \in Nat
    /\ destroyed \subseteq Days
    /\ broken \in Nat
    /\ torn \in BOOLEAN

\* FeatureStore() connects, or goes on without a connection.
Connection == {"open"} \cup (IF "pg" \in Faults THEN {"none"} ELSE {})

Init ==
    /\ stream = [k \in Kinds |-> <<>>]
    /\ delivered = [k \in Kinds |-> 0]
    /\ pending = {}
    /\ pc = "read"
    /\ batch = <<>>
    /\ buffer = <<>>
    /\ windows = [k \in Kinds |-> Empty(Sizes)]
    /\ conn \in Connection
    /\ idle = 0
    /\ day = 1
    /\ file = [d \in Days |-> Absent]
    /\ tables \in {TRUE} \cup (IF "table" \in Faults THEN {FALSE} ELSE {})
    /\ offline = {}
    /\ online = "absent"
    /\ starts = 1
    /\ finite \in BOOLEAN
    /\ faults = 0
    /\ rejected = {}
    /\ cut = 0
    /\ skipped = 0
    /\ destroyed = {}
    /\ broken = 0
    /\ torn = FALSE

Fault(kind) == kind \in Faults /\ faults < MaxFaults /\ faults' = faults + 1
NoFault     == UNCHANGED faults

-----------------------------------------------------------------------------
(* Reading the consumer group: ">" asks for entries never delivered.       *)

\* The entries one XREADGROUP hands out, trades first.
Fresh(k) ==
    LET last == IF Len(stream[k]) < delivered[k] + Count
                THEN Len(stream[k]) ELSE delivered[k] + Count
    IN  [i \in 1..(last - delivered[k]) |-> <<k, delivered[k] + i>>]

Response == Fresh("trades") \o Fresh("klines")

Deliver ==
    /\ delivered' = [k \in Kinds |-> delivered[k] + Len(Fresh(k))]
    /\ pending' = pending \cup ToSet(Response)

Read ==
    /\ pc = "read"
    /\ Response # <<>>
    /\ Deliver
    /\ batch' = Response
    /\ idle' = 0
    /\ pc' = "row"
    /\ UNCHANGED <<world, buffer, windows, conn, stores, history>>

\* Mutant of IdleAfter: empty rounds are not counted.
IdleAfterUncounted == idle

\* An empty round counts in run_finite only.
IdleAfter == IF finite THEN idle + 1 ELSE idle

ReadNothing ==
    /\ pc = "read"
    /\ Response = <<>>
    /\ idle' = IdleAfter
    /\ pc' = IF finite /\ idle' >= IdleRounds THEN "last" ELSE "read"
    /\ UNCHANGED <<world, group, batch, buffer, windows, conn, stores, history>>

\* The call raises, with the server's delivery lost or with none: run goes on
\* after a second, run_finite leaves its loop.
ReadFails ==
    /\ Fault("reply")
    /\ pc = "read"
    /\ pc' = IF finite THEN "last" ELSE "read"
    /\ \/ Response # <<>> /\ Deliver /\ broken' = broken + 1
       \/ UNCHANGED <<group, broken>>
    /\ UNCHANGED <<world, batch, buffer, windows, conn, idle, stores, rejected, cut,
                   skipped, destroyed, torn>>

-----------------------------------------------------------------------------
(* _process_messages: the calculator, then write_online.                   *)

\* HSET keeps the expiry of a hash that is there.
HashSet == IF online = "absent" THEN "lasting" ELSE online

\* The window takes the entry and HSET writes its vector, or raises and
\* write_online returns.
Row ==
    /\ pc = "row"
    /\ HasVector(Head(batch))
    /\ LET kind == Head(batch)[1]
       IN  windows' = [windows EXCEPT ![kind] = Slid(@, Head(batch))]
    /\ \/ online' = HashSet /\ torn' = TRUE /\ pc' = "expire" /\ NoFault
       \/ Fault("online") /\ pc' = "store" /\ UNCHANGED <<online, torn>>
    /\ UNCHANGED <<world, group, batch, buffer, conn, idle, file, offline, rejected, cut,
                   skipped, destroyed, broken>>

\* The calculator returns None before it touches its windows: the entry is
\* only acknowledged.
RowWithoutVector ==
    /\ pc = "row"
    /\ ~HasVector(Head(batch))
    /\ pc' = "ack"
    /\ UNCHANGED <<world, group, batch, buffer, windows, conn, idle, stores, history>>

\* Mutant of HashExpiry: the expiry was set before the HSET.
HashExpiryNever == online

HashExpiry == IF online = "absent" THEN "absent" ELSE "expiring"

Expire ==
    /\ pc = "expire"
    /\ \/ online' = HashExpiry /\ torn' = FALSE /\ NoFault
       \/ Fault("online") /\ UNCHANGED <<online, torn>>
    /\ pc' = "store"
    /\ UNCHANGED <<world, group, batch, buffer, windows, conn, idle, file, offline,
                   rejected, cut, skipped, destroyed, broken>>

-----------------------------------------------------------------------------
(* write_offline, and what follows it.                                     *)

\* INSERT ... ON CONFLICT (symbol, ts) DO NOTHING into the table of the kind.
HasKey(r) == \E s \in offline : s[1] = r[1] /\ Ts(s) = Ts(r)

\* Mutant of Inserted: both kinds share one table.
InsertedOneTable(r) == IF \E s \in offline : Ts(s) = Ts(r) THEN offline ELSE offline \cup {r}

Inserted(r) == IF HasKey(r) THEN offline ELSE offline \cup {r}

Refused == rejected' = rejected \cup {Head(batch)} /\ UNCHANGED offline

\* write_offline returned: the row is in the buffer whatever came of it.
Buffered ==
    /\ buffer' = Append(buffer, Head(batch))
    /\ pc' = "ack"
    /\ UNCHANGED <<world, group, batch, windows, idle, file, online, cut, skipped,
                   destroyed, broken, torn>>

\* A store without a connection has just tried again and got one.
Store ==
    /\ pc = "store"
    /\ conn # "broken"
    /\ conn' = "open"
    /\ tables
    /\ offline' = Inserted(Head(batch))
    /\ NoFault
    /\ UNCHANGED rejected
    /\ Buffered

\* PostgreSQL refuses the row and is rolled back: it is logged.
StoreRefused ==
    /\ pc = "store"
    /\ conn # "broken"
    /\ conn' = "open"
    /\ IF tables THEN Fault("insert") ELSE NoFault
    /\ Refused
    /\ Buffered

\* Still no connection: write_offline returns at once.
StoreSkipped ==
    /\ pc = "store"
    /\ conn = "none"
    /\ Fault("pg")
    /\ Refused
    /\ UNCHANGED conn
    /\ Buffered

Cut     == cut' = cut + 1 /\ UNCHANGED skipped
Skipped == skipped' = skipped + 1 /\ UNCHANGED cut
Broken  == broken' = IF batch = <<>> THEN broken ELSE broken + 1

\* An exception leaves the rest of the response unprocessed.  run catches it
\* and reads on; run_finite lets it end the process.
Raise ==
    /\ batch' = <<>>
    /\ pc' = IF finite THEN "ended" ELSE "read"
    /\ buffer' = IF finite THEN <<>> ELSE buffer
    /\ IF finite THEN Cut ELSE Skipped
    /\ Broken
    /\ UNCHANGED <<world, windows, idle, file, online, rejected, destroyed, torn>>

\* The connection breaks, in the INSERT or with the row committed, and the
\* rollback in the handler raises as well.  pg_conn is still true, so no
\* later row gets past it.
StoreRaises ==
    /\ pc = "store"
    /\ IF conn = "broken" THEN NoFault /\ UNCHANGED offline
       ELSE /\ Fault("pg")
            /\ \/ UNCHANGED offline
               \/ tables /\ offline' = Inserted(Head(batch))
    /\ conn' = "broken"
    /\ UNCHANGED group
    /\ Raise

\* Mutant of FlushDue: the flush comes late.
FlushDueLate == Len(buffer) >= 2 * FlushAt

FlushDue == Len(buffer) >= FlushAt

\* The messages of one stream end where the kind changes.
StreamEnds == Len(batch) = 1 \/ batch[2][1] # batch[1][1]

AfterRow ==
    IF StreamEnds /\ FlushDue THEN "flush" ELSE IF Len(batch) = 1 THEN "read" ELSE "row"

\* Mutant of Unacknowledged: one XACK, of the last message of a response.
UnacknowledgedButLast == IF Len(batch) = 1 THEN pending \ {Head(batch)} ELSE pending

Unacknowledged == pending \ {Head(batch)}

Ack ==
    /\ pc = "ack"
    /\ pending' = Unacknowledged
    /\ batch' = Tail(batch)
    /\ pc' = AfterRow
    /\ UNCHANGED <<world, delivered, buffer, windows, conn, idle, stores, history>>

\* XACK raises, before the server took it or after.
AckFails ==
    /\ pc = "ack"
    /\ Fault("ack")
    /\ pending' \in {pending, Unacknowledged}
    /\ UNCHANGED <<delivered, conn, offline>>
    /\ Raise

-----------------------------------------------------------------------------
(* _flush_parquet                                                          *)

\* drop_duplicates(subset=["symbol", "ts"], keep="last"), which is applied
\* only when the file of the day exists.
IsLast(rows, i) == \A j \in (i + 1)..Len(rows) : Ts(rows[j]) # Ts(rows[i])

\* What remains keeps its order: the n-th row is at the n-th place of a last.
DropDuplicates(rows) ==
    LET last == {i \in 1..Len(rows) : IsLast(rows, i)}
        rank == [i \in last |-> Cardinality({j \in last : j <= i})]
    IN  [n \in 1..Cardinality(last) |-> rows[CHOOSE i \in last : rank[i] = n]]

FileRows ==
    IF file[day].state = "good" THEN DropDuplicates(file[day].rows \o buffer) ELSE buffer

Flushing == pc = "flush" \/ (pc = "last" /\ buffer # <<>>)
Writing  == pc \in {"write", "lastWrite"}

\* run_finite returns after its last flush, and the process ends.
AfterFlush ==
    IF pc \in {"last", "lastWrite"} THEN "ended" ELSE IF batch = <<>> THEN "read" ELSE "row"

\* to_parquet truncates the file and writes it anew.
BeginWrite ==
    /\ Flushing
    /\ file[day].state # "torn"
    /\ file' = [file EXCEPT ![day] = [state |-> "torn", rows |-> FileRows]]
    /\ pc' = IF pc = "last" THEN "lastWrite" ELSE "write"
    /\ UNCHANGED <<world, group, batch, buffer, windows, conn, idle, offline, online, history>>

\* Mutant of BufferAfterWrite: the buffer is not cleared.
BufferAfterWriteKept == buffer

BufferAfterWrite == <<>>

EndWrite ==
    /\ Writing
    /\ file' = [file EXCEPT ![day] = [state |-> "good", rows |-> @.rows]]
    /\ buffer' = BufferAfterWrite
    /\ pc' = AfterFlush
    /\ UNCHANGED <<world, group, batch, windows, conn, idle, offline, online, history>>

\* An exception of a flush is logged and the buffer is kept, for as long as
\* the process lives.
Unflushed ==
    /\ pc' = AfterFlush
    /\ buffer' = IF AfterFlush = "ended" THEN <<>> ELSE buffer
    /\ IF AfterFlush = "ended" THEN Cut ELSE Skipped
    /\ UNCHANGED <<world, group, batch, windows, conn, idle, offline, online, rejected,
                   broken, torn>>

\* mkdir raises, outside the try: run loses the rest of the response,
\* run_finite ends without the flush.
FlushRaises ==
    /\ Flushing
    /\ Fault("disk")
    /\ UNCHANGED <<group, conn, offline>>
    /\ Raise

FlushFails ==
    /\ Flushing
    /\ IF file[day].state = "torn" THEN NoFault ELSE Fault("disk")
    /\ Unflushed
    /\ UNCHANGED <<file, destroyed>>

\* The library removes the file it could not write, or leaves it as it is.
WriteFails ==
    /\ Writing
    /\ Fault("disk")
    /\ \E left \in {Absent, file[day]} : file' = [file EXCEPT ![day] = left]
    /\ destroyed' = destroyed \cup {day}
    /\ Unflushed

NothingToFlush ==
    /\ pc = "last"
    /\ buffer = <<>>
    /\ pc' = "ended"
    /\ UNCHANGED <<world, group, batch, buffer, windows, conn, idle, stores, history>>

-----------------------------------------------------------------------------
(* Processes, producers and the clock.                                     *)

Crash ==
    /\ pc \in Running
    /\ Fault("crash")
    /\ pc' = "down"
    /\ batch' = <<>>
    /\ buffer' = <<>>
    /\ Cut
    /\ destroyed' = IF Writing THEN destroyed \cup {day} ELSE destroyed
    /\ Broken
    /\ UNCHANGED <<world, group, windows, conn, idle, stores, rejected, torn>>

\* A later process joins the same group under the same consumer name, with
\* empty windows.
Start ==
    /\ pc \in {"ended", "down"}
    /\ starts < MaxStarts
    /\ starts' = starts + 1
    /\ pc' = "read"
    /\ idle' = 0
    /\ finite' \in BOOLEAN
    /\ windows' = [k \in Kinds |-> Empty(Sizes)]
    /\ conn' \in Connection
    /\ UNCHANGED <<stream, day, tables, group, batch, buffer, stores, history>>

\* Timestamps are only compared for equality: the first that is new has the
\* next number.
UsedTs == UNION {ToSet(stream[k]) : k \in Kinds} \ {NoVector}

Produce ==
    /\ \E k \in Kinds, t \in {NoVector} \cup 1..MaxTs :
          /\ Len(stream[k]) < MaxLength[k]
          /\ t = NoVector => k = "klines"
          /\ t <= Cardinality(UsedTs) + 1
          /\ stream' = [stream EXCEPT ![k] = Append(@, t)]
    /\ UNCHANGED <<group, process, day, tables, stores, starts, finite, history>>

\* The date is read as a flush begins and nowhere else: the days that passed
\* since the last flush pass here.
Midnight ==
    /\ Flushing
    /\ day < MaxDays
    /\ day' = day + 1
    /\ UNCHANGED <<stream, group, process, tables, stores, starts, finite, history>>

\* 300 s without an EXPIRE.  Nothing but an online write can tell when.
HashExpires ==
    /\ pc \in {"row", "expire"}
    /\ online = "expiring"
    /\ online' = "absent"
    /\ UNCHANGED <<world, group, process, file, offline, history>>

Consumer ==
    \/ Read \/ ReadNothing \/ ReadFails
    \/ Row \/ RowWithoutVector \/ Expire \/ Store \/ StoreRefused \/ StoreSkipped \/ StoreRaises
    \/ Ack \/ AckFails
    \/ BeginWrite \/ EndWrite \/ FlushRaises \/ FlushFails \/ WriteFails \/ NothingToFlush

Next == Consumer \/ Crash \/ Start \/ Produce \/ Midnight \/ HashExpires

Spec == Init /\ [][Next]_vars

\* The process runs for as long as nobody kills it.
FairSpec == Spec /\ WF_vars(Consumer)

-----------------------------------------------------------------------------
(* Properties.                                                             *)

InFiles == UNION {ToSet(file[d].rows) : d \in Days}

\* A row is kept in memory or in a file, or a row of the same ts took its
\* place in a file.
Kept(r) == r \in ToSet(buffer) \/ \E s \in InFiles : Ts(s) = Ts(r)

\* An acknowledged entry that has a vector has its row in PostgreSQL, or a row
\* of the same key is there, or PostgreSQL did not take it: XACK comes after
\* write_offline, whatever is lost or killed.
AckedStored == \A r \in AckedRows : HasKey(r) \/ r \in rejected

\* No row is both in memory and in a file, or twice in either: a flush that
\* succeeds empties the buffer, one that fails leaves nothing readable, and
\* the group hands out an entry once.
NoRowTwice ==
    LET good == {d \in Days : file[d].state = "good"}
    IN  /\ Len(buffer) = Cardinality(ToSet(buffer))
        /\ \A d \in good :
              /\ Len(file[d].rows) = Cardinality(ToSet(file[d].rows))
              /\ ToSet(file[d].rows) \cap ToSet(buffer) = {}
              /\ \A e \in good \ {d} : ToSet(file[d].rows) \cap ToSet(file[e].rows) = {}

\* Acknowledged rows are lost with a process that is killed, raises or fails
\* in its last flush, fewer than FlushAt + Count of them for each, and Count
\* more for each flush that failed or was skipped by an exception - as
\* long as no to_parquet broke off and left a file without its rows.  In
\* particular a run_finite that ended by itself has lost nothing.
LossBounded ==
    destroyed = {} =>
        Cardinality({r \in AckedRows : ~Kept(r)}) <= cut * (FlushAt - 1 + Count) + skipped * Count

\* Entries that are delivered and in nobody's hands, which no consumer asks
\* for again, are the rest of responses that a lost reply, an exception or a
\* kill broke off: XACK is called for each of the others.
StrandedBounded == Cardinality(pending \ ToSet(batch)) <= broken * 2 * Count

\* From the first entry of a window on, the window has every acknowledged entry
\* that has a vector, and nothing else, in order: an exception after the
\* calculator's update, or a batch that is broken off, leaves holes only where
\* entries are stranded, beside those of the candles without a vector.
WindowsWhole ==
    \A k \in Kinds, w \in Sizes :
        LET window == windows[k][w]
        IN  /\ Len(window) <= w
            /\ \A r \in ToSet(window) : HasVector(r)
            /\ \A i \in 2..Len(window) : window[i - 1][2] < window[i][2]
            /\ window # <<>> =>
                  {r \in AckedRows : r[1] = k /\ r[2] >= Head(window)[2]} \subseteq ToSet(window)

\* The latest features expire unless the last write of them broke off between
\* HSET and EXPIRE: then they stay until another is completed.
OnlineExpires == online = "lasting" => torn

\* run_finite ends once no more entries come.
FiniteEnds == (finite /\ pc \in Running) ~> pc \notin Running
=============================================================================
