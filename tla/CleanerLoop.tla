---------------------------- MODULE CleanerLoop ----------------------------
(***************************************************************************)
(* The loop from the Bronze streams to Silver: _run_cleaner_loop of        *)
(* src/ingestion/pipeline.py and its twin _consume_loop of                 *)
(* src/preprocess.py, with the DataCleaner they call and the REST backfill *)
(* that they run inline for a gap event.  One symbol, several workers.     *)
(*                                                                         *)
(* pc[w] is the await at which worker w is suspended.  A Bronze entry was  *)
(* validated by the model that wrote it, so the cleaner's own coercions    *)
(* never reject one.  Claims do not expire here (Dedup has the life of a   *)
(* claim, and the Bloom filters, of which only a false positive matters to *)
(* a key that Redis has just taken), and RestSync has the details of the   *)
(* backfill.                                                               *)
(***************************************************************************)
EXTENDS Integers, Sequences, FiniteSets

CONSTANTS
    Workers,   \* processes that run the loop
    Trades,    \* trades 1..Trades are sent
    Candles,   \* candles 1..Candles close
    Count,     \* COUNT of XREAD
    MaxLen,    \* MAXLEN of the XADD of a backfill
    Faults,
    Latest,    \* the "$" offset
    None,
    MaxGaps,   \* bound: outages of the WebSocket
    MaxDeaths, \* bound: exceptions and crashes of workers
    MaxStarts, \* bound: workers started again
    MaxRejects \* bound: false positives of the Bloom filters

\* "late": the last candle of an outage also arrives through the new
\* connection.  "again": a second ingest process writes entries once more.
\* "stop": workers are told to stop.
AllFaults == {"late", "again", "stop"}

ASSUME FaultsAssumption == Faults \subseteq AllFaults
ASSUME BoundsAssumption ==
    /\ Trades \in Nat /\ Candles \in Nat /\ MaxGaps \in Nat
    /\ MaxDeaths \in Nat /\ MaxStarts \in Nat /\ MaxRejects \in Nat
    /\ Count \in Nat \ {0} /\ MaxLen \in Nat \ {0}
ASSUME LatestAssumption == Latest \notin Nat

\* An entry of a data stream is named by its dedup key.
Streams == <<"trades", "klines", "gaps">>
Names   == {"trades", "klines", "gaps"}
Keys    == ({"trades"} \X (1..Trades)) \cup ({"klines"} \X (1..Candles))
Gap     == [first : 1..Candles, last : 1..Candles]

ASSUME NoneAssumption == None \notin Nat \cup Keys

VARIABLES
    pc,       \* pc[w]: where the loop of worker w is suspended
    offsets,  \* offsets[w]: stream_offsets
    batch,    \* batch[w]: entries of the response not yet processed
    todo,     \* todo[w]: candles of a backfill not looked at yet
    hand,     \* hand[w]: the candle it is about to publish
    stopping, \* workers whose _shutdown_event is set
    stream,   \* the Redis streams, with what was trimmed from their heads
    trimmed,  \* how many entries of the kline stream are gone
    claimed,  \* the dedup keys in Redis
    silver,   \* silver[k]: lines of k in the Silver files
    sent,     \* last trade and last candle the exchange has sent
    filled,   \* history: candles published by a backfill
    seen,     \* history: seen[w][s]: positions it has processed
    gaps, deaths, starts, rejects

counts  == <<gaps, deaths, starts, rejects>>
worker  == <<pc, offsets, batch, todo, hand, stopping>>
bronze  == <<stream, trimmed>>
history == <<filled, seen>>
vars    == <<worker, bronze, claimed, silver, sent, history, counts>>

Awaits == {"read", "blocked", "row", "clean", "fill", "publish"}

TypeOK ==
    /\ pc \in [Workers -> Awaits \cup {"stopped", "dead"}]
    /\ offsets \in [Workers -> [Names -> Nat \cup {Latest}]]
    /\ batch \in [Workers -> Seq(Names \X Nat)]
    /\ todo \in [Workers -> SUBSET (1..Candles)]
    /\ hand \in [Workers -> Keys \cup {None}]
    /\ stopping \subseteq Workers
    /\ DOMAIN stream = Names
    /\ stream["trades"] \in Seq({"trades"} \X (1..Trades))
    /\ stream["klines"] \in Seq({"klines"} \X (1..Candles))
    /\ stream["gaps"] \in Seq(Gap)
    /\ trimmed \in 0..Len(stream["klines"])
    /\ claimed \subseteq Keys
    /\ silver \in [Keys -> Nat]
    /\ sent \in [trades : 0..Trades, klines : 0..Candles]
    /\ filled \subseteq 1..Candles
    /\ seen \in [Workers -> [Names -> SUBSET Nat]]
    /\ gaps \in 0..MaxGaps
    /\ deaths \in 0..MaxDeaths
    /\ starts \in 0..MaxStarts
    /\ rejects \in 0..MaxRejects

Init ==
    /\ pc = [w \in Workers |-> "read"]
    /\ offsets = [w \in Workers |-> [s \in Names |-> Latest]]
    /\ batch = [w \in Workers |-> <<>>]
    /\ todo = [w \in Workers |-> {}]
    /\ hand = [w \in Workers |-> None]
    /\ stopping = {}
    /\ stream = [s \in Names |-> <<>>]
    /\ trimmed = 0
    /\ claimed = {}
    /\ silver = [k \in Keys |-> 0]
    /\ sent = [trades |-> 0, klines |-> 0]
    /\ filled = {}
    /\ seen = [w \in Workers |-> [s \in Names |-> {}]]
    /\ gaps = 0
    /\ deaths = 0
    /\ starts = 0
    /\ rejects = 0

-----------------------------------------------------------------------------
(* XADD.  Redis serves the clients that block in XREAD as it adds the      *)
(* entry: their response is that entry.                                    *)

Blocked == {w \in Workers : pc[w] = "blocked"}

Add(s, entry) ==
    /\ stream' = [stream EXCEPT ![s] = Append(@, entry)]
    /\ batch' = [w \in Workers |->
                    IF w \in Blocked THEN <<<<s, Len(stream[s]) + 1>>>> ELSE batch[w]]

Served == [w \in Workers |-> IF w \in Blocked THEN "row" ELSE pc[w]]

-----------------------------------------------------------------------------
(* The WebSocket client, with or without a second one beside it.           *)

Send(s) ==
    /\ sent[s] < (IF s = "trades" THEN Trades ELSE Candles)
    /\ sent' = [sent EXCEPT ![s] = @ + 1]
    /\ Add(s, <<s, sent'[s]>>)
    /\ pc' = Served
    /\ UNCHANGED <<trimmed, offsets, todo, hand, stopping, claimed, silver, history,
                   counts>>

SendAgain(s) ==
    /\ "again" \in Faults
    /\ \E i \in 1..Len(stream[s]) :
          /\ \A j \in 1..Len(stream[s]) : j # i => stream[s][j] # stream[s][i]
          /\ Add(s, stream[s][i])
    /\ pc' = Served
    /\ UNCHANGED <<trimmed, offsets, todo, hand, stopping, claimed, silver, sent, history,
                   counts>>

\* The connection was down while n candles closed; the record of that is
\* written on reconnect.
Outage(n) ==
    /\ gaps < MaxGaps
    /\ sent["klines"] + n <= Candles
    /\ gaps' = gaps + 1
    /\ Add("gaps", [first |-> sent["klines"] + 1, last |-> sent["klines"] + n])
    /\ \E late \in {0} \cup (IF "late" \in Faults THEN {1} ELSE {}) :
          sent' = [sent EXCEPT !["klines"] = @ + n - late]
    /\ pc' = Served
    /\ UNCHANGED <<trimmed, offsets, todo, hand, stopping, claimed, silver, history,
                   deaths, starts, rejects>>

-----------------------------------------------------------------------------
(* One worker. *)

\* XREAD looks after the offset, and finds nothing where the stream was
\* trimmed; "$" is whatever is last when it is called.
After(w, s) ==
    IF offsets[w][s] = Latest THEN Len(stream[s])
    ELSE IF s = "klines" /\ offsets[w][s] < trimmed THEN trimmed ELSE offsets[w][s]

News(w, s) ==
    LET n == Len(stream[s]) - After(w, s)
    IN  [i \in 1..(IF n < Count THEN n ELSE Count) |-> <<s, After(w, s) + i>>]

Response(w) == News(w, "trades") \o News(w, "klines") \o News(w, "gaps")

\* Mutation: the loop does not look at the event.
KeepsRunningForever(w) == TRUE

KeepsRunning(w) == w \notin stopping

Read(w) ==
    /\ pc[w] = "read"
    /\ KeepsRunning(w)
    /\ batch' = [batch EXCEPT ![w] = Response(w)]
    /\ pc' = [pc EXCEPT ![w] = IF Response(w) = <<>> THEN "blocked" ELSE "row"]
    /\ UNCHANGED <<offsets, todo, hand, stopping, bronze, claimed, silver, sent, history,
                   counts>>

\* BLOCK runs out; a sleep of poll_seconds follows.
ReadTimeout(w) ==
    /\ pc[w] = "blocked"
    /\ pc' = [pc EXCEPT ![w] = "read"]
    /\ UNCHANGED <<offsets, batch, todo, hand, stopping, bronze, claimed, silver, sent,
                   history, counts>>

\* Mutation: the offset is left before the entry.
OffsetAfterBehind(s, i) == i - 1

\* The id of the entry just processed.
OffsetAfter(s, i) == i

\* The end of one turn of the inner loop.
Advance(w) ==
    LET s == Head(batch[w])[1]
        i == Head(batch[w])[2]
    IN  /\ offsets' = [offsets EXCEPT ![w][s] = OffsetAfter(s, i)]
        /\ seen' = [seen EXCEPT ![w][s] = @ \cup {i}]

AfterRow(w) == IF Len(batch[w]) = 1 THEN "read" ELSE "row"

Entry(w) == stream[Head(batch[w])[1]][Head(batch[w])[2]]

Item(w, s) == pc[w] = "row" /\ Head(batch[w])[1] = s

\* Mutation: the claim is set without NX.
IsDuplicateNever(k) == FALSE

IsDuplicate(k) == k \in claimed

\* Mutation: a backfill claims all its candles before it publishes the first.
ClaimedWithWindow(w, k) == claimed \cup {k} \cup ({"klines"} \X todo[w])

ClaimedWith(w, k) == claimed \cup {k}

\* process_trade and process_kline begin with SET NX.
Drop(w, s) ==
    /\ Item(w, s)
    /\ IsDuplicate(Entry(w))
    /\ Advance(w)
    /\ batch' = [batch EXCEPT ![w] = Tail(@)]
    /\ pc' = [pc EXCEPT ![w] = AfterRow(w)]
    /\ UNCHANGED <<todo, hand, stopping, bronze, claimed, silver, sent, filled, counts>>

Claim(w, s) ==
    /\ Item(w, s)
    /\ ~IsDuplicate(Entry(w))
    /\ claimed' = ClaimedWith(w, Entry(w))
    /\ pc' = [pc EXCEPT ![w] = "clean"]
    /\ UNCHANGED <<offsets, batch, todo, hand, stopping, bronze, silver, sent, history,
                   counts>>

\* append_record to the Silver file.
Clean(w) ==
    /\ pc[w] = "clean"
    /\ silver' = [silver EXCEPT ![Entry(w)] = @ + 1]
    /\ Advance(w)
    /\ batch' = [batch EXCEPT ![w] = Tail(@)]
    /\ pc' = [pc EXCEPT ![w] = AfterRow(w)]
    /\ UNCHANGED <<todo, hand, stopping, bronze, claimed, sent, filled, counts>>

\* The key was new to Redis, and the Bloom filter claims to have it: the
\* record is dropped, and its key stays claimed.
Reject(w) ==
    /\ pc[w] = "clean"
    /\ rejects < MaxRejects
    /\ rejects' = rejects + 1
    /\ Advance(w)
    /\ batch' = [batch EXCEPT ![w] = Tail(@)]
    /\ pc' = [pc EXCEPT ![w] = AfterRow(w)]
    /\ UNCHANGED <<todo, hand, stopping, bronze, claimed, silver, sent, filled,
                   gaps, deaths, starts>>

CandlesOf(gap) == gap.first .. gap.last

\* process_gap_event, awaited in the loop.
Fill(w) ==
    /\ Item(w, "gaps")
    /\ todo' = [todo EXCEPT ![w] = CandlesOf(Entry(w))]
    /\ pc' = [pc EXCEPT ![w] = "fill"]
    /\ UNCHANGED <<offsets, batch, hand, stopping, bronze, claimed, silver, sent,
                   history, counts>>

\* The REST client takes the candles in order, and claims each under the key
\* that the cleaner uses.
FillClaim(w) ==
    /\ pc[w] = "fill"
    /\ \E c \in todo[w] :
          /\ \A d \in todo[w] : c <= d
          /\ todo' = [todo EXCEPT ![w] = @ \ {c}]
          /\ IF IsDuplicate(<<"klines", c>>)
             THEN UNCHANGED <<claimed, hand, pc>>
             ELSE /\ claimed' = ClaimedWith(w, <<"klines", c>>)
                  /\ hand' = [hand EXCEPT ![w] = <<"klines", c>>]
                  /\ pc' = [pc EXCEPT ![w] = "publish"]
    /\ UNCHANGED <<offsets, batch, stopping, bronze, silver, sent, history, counts>>

\* Mutation: one entry too few is kept.
MayTrimTooMuch == trimmed .. Len(stream'["klines"]) - MaxLen + 1

\* MAXLEN with "~": Redis keeps at least that many entries.
MayTrim == trimmed .. Len(stream'["klines"]) - MaxLen

FillPublish(w) ==
    /\ pc[w] = "publish"
    /\ Add("klines", hand[w])
    /\ trimmed' \in MayTrim \cup {trimmed}
    /\ filled' = filled \cup {hand[w][2]}
    /\ hand' = [hand EXCEPT ![w] = None]
    /\ pc' = [Served EXCEPT ![w] = "fill"]
    /\ UNCHANGED <<offsets, todo, stopping, claimed, silver, sent, seen, counts>>

\* The filter of the REST client has false positives as well.
FillReject(w) ==
    /\ pc[w] = "publish"
    /\ rejects < MaxRejects
    /\ rejects' = rejects + 1
    /\ hand' = [hand EXCEPT ![w] = None]
    /\ pc' = [pc EXCEPT ![w] = "fill"]
    /\ UNCHANGED <<offsets, batch, todo, stopping, bronze, claimed, silver, sent, history,
                   gaps, deaths, starts>>

FillDone(w) ==
    /\ pc[w] = "fill"
    /\ todo[w] = {}
    /\ Advance(w)
    /\ batch' = [batch EXCEPT ![w] = Tail(@)]
    /\ pc' = [pc EXCEPT ![w] = AfterRow(w)]
    /\ UNCHANGED <<todo, hand, stopping, bronze, claimed, silver, sent, filled, counts>>

\* stop(), a signal or the end of the duration sets the event.
Stop(w) ==
    /\ "stop" \in Faults
    /\ w \notin stopping
    /\ pc[w] \in Awaits
    /\ stopping' = stopping \cup {w}
    /\ UNCHANGED <<pc, offsets, batch, todo, hand, bronze, claimed, silver, sent,
                   history, counts>>

Leave(w) ==
    /\ pc[w] = "read"
    /\ ~KeepsRunning(w)
    /\ pc' = [pc EXCEPT ![w] = "stopped"]
    /\ UNCHANGED <<offsets, batch, todo, hand, stopping, bronze, claimed, silver, sent,
                   history, counts>>

\* An exception of XREAD, SET, XADD, the lock, the disk or the exchange ends
\* the loop: only TypeError and ValueError around XREAD are handled.  Or the
\* process is killed.
Die(w) ==
    /\ deaths < MaxDeaths
    /\ pc[w] \in Awaits
    /\ deaths' = deaths + 1
    /\ pc' = [pc EXCEPT ![w] = "dead"]
    /\ batch' = [batch EXCEPT ![w] = <<>>]
    /\ todo' = [todo EXCEPT ![w] = {}]
    /\ hand' = [hand EXCEPT ![w] = None]
    /\ UNCHANGED <<offsets, stopping, bronze, claimed, silver, sent, history, gaps, starts, rejects>>

\* A new process: the offsets are gone, the claims are not.
Restart(w) ==
    /\ pc[w] \in {"dead", "stopped"}
    /\ starts < MaxStarts
    /\ starts' = starts + 1
    /\ pc' = [pc EXCEPT ![w] = "read"]
    /\ stopping' = stopping \ {w}
    /\ offsets' = [offsets EXCEPT ![w] = [s \in Names |-> Latest]]
    /\ seen' = [seen EXCEPT ![w] = [s \in Names |-> {}]]
    /\ UNCHANGED <<batch, todo, hand, bronze, claimed, silver, sent, filled, gaps, deaths, rejects>>

Step(w) ==
    \/ Read(w) \/ ReadTimeout(w) \/ Leave(w)
    \/ \E s \in {"trades", "klines"} : Drop(w, s) \/ Claim(w, s)
    \/ Clean(w) \/ Fill(w) \/ FillClaim(w) \/ FillPublish(w) \/ FillDone(w)

Ingest ==
    \/ \E s \in {"trades", "klines"} : Send(s) \/ SendAgain(s)
    \/ \E n \in 1..Candles : Outage(n)

Fault(w) == Reject(w) \/ FillReject(w) \/ Stop(w) \/ Die(w) \/ Restart(w)

Next == Ingest \/ \E w \in Workers : Step(w) \/ Fault(w)

Spec == Init /\ [][Next]_vars

\* Every await returns or raises: XREAD and SET have socket timeouts.
FairSpec == Spec /\ \A w \in Workers : WF_vars(Step(w))

-----------------------------------------------------------------------------
(* Properties. *)

\* No record is cleaned twice, whatever workers share the streams, die and
\* start again, and however often an entry is written (DataCleaner's "Stage
\* 1: deduplication").
SilverOnce == \A k \in Keys : silver[k] <= 1

\* A claim that did not lead to a Silver line or to a republished candle is
\* in the hands of a worker, or one that died held it, or a filter rejected
\* it: an exception costs at most one record and not the rest of its batch, a
\* false positive exactly the record it is about, and a new start nothing.
LossAccounted ==
    Cardinality({k \in claimed :
                    silver[k] = 0 /\ ~(k[1] = "klines" /\ k[2] \in filled)})
        <= deaths + rejects + Cardinality({w \in Workers : pc[w] \in {"clean", "publish"}})

\* From the first entry it reads on, a worker passes over none of a stream,
\* though XADDs fall between its reads and into its batches, but for candles
\* that a backfill has pushed out: with MaxLen entries behind them.
SkippedOnlyTrimmed ==
    \A w \in Workers : \A s \in Names :
        \A i \in seen[w][s] : \A j \in (i..offsets[w][s]) \ seen[w][s] :
            /\ s = "klines"
            /\ filled # {}
            /\ Len(stream[s]) - j >= MaxLen

\* An entry that a worker has passed is in Silver, or another worker is at it.
SeenIsCleaned ==
    \A w \in Workers : \A s \in {"trades", "klines"} : \A i \in seen[w][s] :
        \/ silver[stream[s][i]] > 0
        \/ \E v \in Workers : pc[v] = "clean" /\ Entry(v) = stream[s][i]

Down(w) == pc[w] \in {"dead", "stopped"}

\* Once a worker has an offset in a stream, each later entry is processed,
\* unless the worker stops or dies.
BacklogDrained ==
    \A w \in Workers : \A s \in Names : \A i \in 1..(Trades + Candles) :
        (offsets[w][s] # Latest /\ i <= Len(stream[s]))
            ~> (offsets[w][s] = Latest \/ offsets[w][s] >= i \/ Down(w))

\* A worker that is told to stop does.
StopEnds == \A w \in Workers : w \in stopping ~> (w \notin stopping \/ Down(w))
-----------------------------------------------------------------------------
(* The loop implements KeyClaims. *)

HeldBy(w) ==
    IF pc[w] = "clean" THEN Entry(w) ELSE IF pc[w] = "publish" THEN hand[w] ELSE None

\* How often the record of k got to where it belongs: to Silver, or to the
\* Bronze stream by a backfill.
Arrivals(k) == silver[k] + (IF k[1] = "klines" /\ k[2] \in filled THEN 1 ELSE 0)

FateOf(k) ==
    IF Arrivals(k) > 1 THEN "twice"
    ELSE IF Arrivals(k) = 1 THEN "done"
    ELSE IF k \notin claimed THEN "free"
    ELSE IF \E w \in Workers : HeldBy(w) = k THEN "taken" ELSE "lost"

Claims == INSTANCE KeyClaims WITH
    Takers <- Workers,
    fate   <- [k \in Keys |-> FateOf(k)],
    held   <- [w \in Workers |-> HeldBy(w)]

\* Cleaning and backfill take a candle from each other: it is cleaned or
\* published again but never both, by the one worker that claimed it, and
\* what a worker dies over, or a filter rejects, nobody takes up again
\* (DataCleaner's Stage 1).
ImplementsKeyClaims == Claims!Spec

=============================================================================
