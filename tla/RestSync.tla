------------------------------ MODULE RestSync ------------------------------
(***************************************************************************)
(* sync_klines of src/ingestion/rest_client.py for one symbol: paginated   *)
(* requests with a fallback endpoint and a retry after HTTP 429, and for   *)
(* every row the claim of its dedup key, the XADD to the Bronze stream and *)
(* the append to the raw file.  Callers may sync again, after a return or  *)
(* after an exception (a rerun of pull_historical.py, the next gap event). *)
(*                                                                         *)
(* Candle c is open from 2c to 2c+1, so a window can begin or end inside   *)
(* one.  The dedup keys are a set: claims are not forgotten here, and of   *)
(* the Bloom filter only a false positive matters to a key that Redis has  *)
(* just taken (Dedup has the life of a claim).                             *)
(***************************************************************************)
EXTENDS Integers, FiniteSets

CONSTANTS
    Last,          \* candles 1..Last exist at the exchange
    PageSize,      \* _DEFAULT_KLINE_PAGE_SIZE
    Live,          \* candles the WebSocket may have delivered before
    Faults,        \* subset of {"timeout", "throttle", "abort"}
    None,
    MaxSyncs,      \* bound: calls of sync_klines
    MaxThrottles,  \* bound: replies 429
    MaxAborts,     \* bound: calls that raise or die
    MaxRejects     \* bound: false positives of the Bloom filter

Candles == 1..Last

\* The times of a row: a candle closes after it opens (HistoricalKline).
Open(c)  == 2 * c
Close(c) == 2 * c + 1
Times    == 0..(2 * Last + 2)

ASSUME BoundsAssumption ==
    /\ Last \in Nat /\ MaxSyncs \in Nat
    /\ MaxThrottles \in Nat /\ MaxAborts \in Nat /\ MaxRejects \in Nat
    /\ PageSize \in Nat \ {0}
ASSUME LiveAssumption   == Live \subseteq Candles
ASSUME FaultsAssumption == Faults \subseteq {"timeout", "throttle", "abort"}
ASSUME NoneAssumption   == None \notin Nat

VARIABLES
    pc,          \* where sync_klines is suspended
    window,      \* start_ms and end_ms of the call
    cursor,
    url,         \* "primary" or "fallback"
    rows,        \* rows of the page not looked at yet
    page_len,    \* len(rows) of the whole page
    last_close,  \* last_close_time
    kline,       \* the row in hand
    claimed,     \* dedup keys held by Redis
    delivered,   \* candles that came through the WebSocket
    bronze,      \* bronze[c]: entries of c that were published to the stream
    raw,         \* raw[c]: lines of c in the raw files
    completed,   \* history: windows whose sync returned
    syncs, throttles, aborts, rejects

counters == <<syncs, throttles, aborts, rejects>>
page     == <<rows, page_len, last_close>>
vars == <<pc, window, cursor, url, page, kline, claimed, delivered, bronze, raw,
          completed, counters>>

\* What callers ask for: an outage, or the last days up to now (pull_all).
Windows == {w \in [start : Times, end : Times] : w.start <= w.end}

TypeOK ==
    /\ pc \in {"idle", "page", "request", "cooldown", "row", "publish", "append", "flush"}
    /\ window \in Windows
    /\ cursor \in Nat
    /\ url \in {"primary", "fallback"}
    /\ rows \subseteq Candles
    /\ page_len \in 0..PageSize
    /\ last_close \in Nat \cup {None}
    /\ kline \in Candles \cup {None}
    /\ claimed \subseteq Candles
    /\ delivered \subseteq Candles
    /\ bronze \in [Candles -> Nat]
    /\ raw \in [Candles -> Nat]
    /\ completed \subseteq Windows
    /\ syncs \in 0..MaxSyncs
    /\ throttles \in 0..MaxThrottles
    /\ aborts \in 0..MaxAborts
    /\ rejects \in 0..MaxRejects

\* What the WebSocket delivered, the cleaner claimed under the same key.
Init ==
    /\ pc = "idle"
    /\ window = [start |-> 0, end |-> 0]
    /\ cursor = 0
    /\ url = "primary"
    /\ rows = {}
    /\ page_len = 0
    /\ last_close = None
    /\ kline = None
    /\ delivered \in SUBSET Live
    /\ claimed = delivered
    /\ bronze = [c \in Candles |-> 0]
    /\ raw = [c \in Candles |-> 0]
    /\ completed = {}
    /\ syncs = 0
    /\ throttles = 0
    /\ aborts = 0
    /\ rejects = 0

-----------------------------------------------------------------------------
\* sync_klines, and process_gap_event with the ends of the outage.
Sync(w) ==
    /\ pc = "idle"
    /\ syncs < MaxSyncs
    /\ syncs' = syncs + 1
    /\ window' = w
    /\ cursor' = w.start
    /\ pc' = "page"
    /\ UNCHANGED <<url, page, kline, claimed, delivered, bronze, raw, completed,
                   throttles, aborts, rejects>>

\* The loop condition; a page is asked from the primary endpoint first.
NextPage ==
    /\ pc = "page"
    /\ IF cursor <= window.end
       THEN pc' = "request" /\ url' = "primary"
       ELSE pc' = "flush" /\ UNCHANGED url
    /\ UNCHANGED <<window, cursor, page, kline, claimed, delivered, bronze, raw,
                   completed, counters>>

\* What the exchange answers: the candles that open in the window, from the
\* oldest on, no more than a page.
Page(from, to) ==
    LET open == {c \in Candles : from <= Open(c) /\ Open(c) <= to}
    IN  {c \in open : Cardinality({d \in open : d < c}) < PageSize}

Reply ==
    /\ pc = "request"
    /\ rows' = Page(cursor, window.end)
    /\ page_len' = Cardinality(rows')
    /\ last_close' = None
    /\ pc' = IF rows' = {} THEN "flush" ELSE "row"
    /\ UNCHANGED <<window, cursor, url, kline, claimed, delivered, bronze, raw,
                   completed, counters>>

Throttled ==
    /\ "throttle" \in Faults
    /\ throttles < MaxThrottles
    /\ pc = "request"
    /\ throttles' = throttles + 1
    /\ pc' = "cooldown"
    /\ UNCHANGED <<window, cursor, url, page, kline, claimed, delivered, bronze, raw,
                   completed, syncs, aborts, rejects>>

\* The retry goes to the endpoint that answered 429.
CooldownOver ==
    /\ pc = "cooldown"
    /\ pc' = "request"
    /\ UNCHANGED <<window, cursor, url, page, kline, claimed, delivered, bronze, raw,
                   completed, counters>>

\* Mutation: a timeout of the fallback goes back to the primary endpoint.
PcAfterTimeoutForever == "request"

\* A timeout of the fallback leaves sync_klines.
PcAfterTimeout == IF url = "primary" THEN "request" ELSE "idle"

Timeout ==
    /\ "timeout" \in Faults
    /\ pc = "request"
    /\ url' = IF url = "primary" THEN "fallback" ELSE "primary"
    /\ pc' = PcAfterTimeout
    /\ UNCHANGED <<window, cursor, page, kline, claimed, delivered, bronze, raw,
                   completed, counters>>

-----------------------------------------------------------------------------
\* Rows are looked at in the order of their open times.
NextRow(c) == c \in rows /\ \A d \in rows : c <= d

\* A row that closes after the window is left out; it may still be forming.
SkipOpenRow ==
    /\ pc = "row"
    /\ \E c \in rows :
          /\ NextRow(c)
          /\ Close(c) > window.end
          /\ rows' = rows \ {c}
    /\ UNCHANGED <<pc, window, cursor, url, page_len, last_close, kline, claimed,
                   delivered, bronze, raw, completed, counters>>

\* Mutation: the rows of the page are claimed together.
ClaimedWithPage(c) == claimed \cup rows

\* Mutation: a duplicate is published again.
IsDuplicateNever(c) == FALSE

\* The keys held after the claim of one row.
ClaimedWith(c) == claimed \cup {c}

IsDuplicate(c) == c \in claimed

SkipDuplicate ==
    /\ pc = "row"
    /\ \E c \in rows :
          /\ NextRow(c)
          /\ Close(c) <= window.end
          /\ IsDuplicate(c)
          /\ rows' = rows \ {c}
    /\ UNCHANGED <<pc, window, cursor, url, page_len, last_close, kline, claimed,
                   delivered, bronze, raw, completed, counters>>

Claim ==
    /\ pc = "row"
    /\ \E c \in rows :
          /\ NextRow(c)
          /\ Close(c) <= window.end
          /\ ~IsDuplicate(c)
          /\ kline' = c
          /\ rows' = rows \ {c}
          /\ claimed' = ClaimedWith(c)
    /\ pc' = "publish"
    /\ UNCHANGED <<window, cursor, url, page_len, last_close, delivered, bronze, raw,
                   completed, counters>>

\* The key was new to Redis, and the filter claims to have it: the row is
\* left out as a duplicate, and its key stays claimed.
Reject ==
    /\ pc = "publish"
    /\ rejects < MaxRejects
    /\ rejects' = rejects + 1
    /\ kline' = None
    /\ pc' = "row"
    /\ UNCHANGED <<window, cursor, url, page, claimed, delivered, bronze, raw, completed,
                   syncs, throttles, aborts>>

Publish ==
    /\ pc = "publish"
    /\ bronze' = [bronze EXCEPT ![kline] = @ + 1]
    /\ pc' = "append"
    /\ UNCHANGED <<window, cursor, url, page, kline, claimed, delivered, raw,
                   completed, counters>>

AppendRaw ==
    /\ pc = "append"
    /\ raw' = [raw EXCEPT ![kline] = @ + 1]
    /\ last_close' = Close(kline)
    /\ kline' = None
    /\ pc' = "row"
    /\ UNCHANGED <<window, cursor, url, rows, page_len, claimed, delivered, bronze,
                   completed, counters>>

\* Mutation: a candle is skipped between two pages.
NextStartTooFar == last_close + 2

NextStart == last_close + 1

\* The end of a page: it stops where no row was published, where the cursor
\* would not move, and after a page that is not full.
PageDone ==
    /\ pc = "row"
    /\ rows = {}
    /\ IF last_close = None
       THEN pc' = "flush" /\ UNCHANGED cursor
       ELSE IF NextStart <= cursor
       THEN pc' = "flush" /\ UNCHANGED cursor
       ELSE /\ cursor' = NextStart
            /\ pc' = IF page_len < PageSize THEN "flush" ELSE "page"
    /\ UNCHANGED <<window, url, page, kline, claimed, delivered, bronze, raw,
                   completed, counters>>

\* flush_symbol, and the return.
Return ==
    /\ pc = "flush"
    /\ completed' = completed \cup {window}
    /\ pc' = "idle"
    /\ UNCHANGED <<window, cursor, url, page, kline, claimed, delivered, bronze, raw,
                   counters>>

\* An exception (HTTP, Redis, the lock or the disk) leaves sync_klines, or
\* the process dies: the claims stay.
Abort ==
    /\ "abort" \in Faults
    /\ aborts < MaxAborts
    /\ pc # "idle"
    /\ aborts' = aborts + 1
    /\ pc' = "idle"
    /\ kline' = None
    /\ UNCHANGED <<window, cursor, url, page, claimed, delivered, bronze, raw,
                   completed, syncs, throttles, rejects>>

Step ==
    \/ NextPage \/ Reply \/ Throttled \/ CooldownOver \/ Timeout
    \/ SkipOpenRow \/ SkipDuplicate \/ Claim \/ Publish \/ AppendRaw \/ PageDone \/ Return

Next == (\E w \in Windows : Sync(w)) \/ Step \/ Reject \/ Abort

Spec == Init /\ [][Next]_vars

\* Sleeps end, and every request is answered or times out.
FairSpec == Spec /\ WF_vars(Step)

-----------------------------------------------------------------------------
(* Properties. *)

\* No candle is published or stored twice, and none that the WebSocket has
\* delivered, however windows overlap and calls are repeated or cut short.
OnceOnly ==
    \A c \in Candles :
        /\ bronze[c] <= 1
        /\ raw[c] <= bronze[c]
        /\ c \in delivered => bronze[c] = 0

\* Each call that raises or dies costs at most one candle, that is claimed
\* for good and is not in both the stream and the raw file, and each false
\* positive of the filter the candle it is about.
LossBounded ==
    Cardinality({c \in claimed \ delivered : raw[c] = 0})
        <= aborts + rejects + (IF pc \in {"publish", "append"} THEN 1 ELSE 0)

\* The window fits into one page, or it is the first one ever asked for.
OnePage(w) == Cardinality({c \in Candles : w.start <= Open(c) /\ Open(c) <= w.end}) <= PageSize

FirstEver == syncs = 1 /\ delivered = {}

\* A sync that returned left every candle that opens and closes in its
\* window in the Bronze stream, or the WebSocket had delivered it
\* (sync_klines).  Two repetitions are excepted: one over several pages ends
\* at the first page of duplicates (line 222), and a candle whose call died
\* after the claim is a duplicate for good (line 214).  So is one that the
\* filter rejected, and a page of those ends a first sync as well.
SyncComplete ==
    aborts = 0 /\ rejects = 0 => \A w \in completed :
        OnePage(w) \/ FirstEver =>
            \A c \in Candles :
                w.start <= Open(c) /\ Close(c) <= w.end => bronze[c] > 0 \/ c \in delivered

\* sync_klines comes to an end: pages move forward, the fallback is tried
\* once and 429 does not last.
SyncEnds == pc # "idle" ~> pc = "idle"
-----------------------------------------------------------------------------
(* sync_klines implements KeyClaims. *)

\* How often a candle got to where it belongs, by a sync or the WebSocket.
Arrivals(c) == raw[c] + (IF c \in delivered THEN 1 ELSE 0)

FateOf(c) ==
    IF Arrivals(c) > 1 THEN "twice"
    ELSE IF Arrivals(c) = 1 THEN "done"
    ELSE IF c \notin claimed THEN "free"
    ELSE IF kline = c THEN "taken" ELSE "lost"

Claims == INSTANCE KeyClaims WITH
    Keys   <- Candles,
    Takers <- {"sync"},
    fate   <- [c \in Candles |-> FateOf(c)],
    held   <- [t \in {"sync"} |-> kline]

\* A sync takes one candle at a time and stores it, or loses that one for
\* good where it is cut short; what the WebSocket or an earlier sync has had
\* it leaves alone (_is_duplicate_kline).
ImplementsKeyClaims == Claims!Spec

=============================================================================
