-------------------------- MODULE WebSocketClient --------------------------
(***************************************************************************)
(* The Binance WebSocket client (src/ingestion/websocket_client.py): the   *)
(* supervisor loop of run(), one connection at a time, the handlers that   *)
(* write messages to the Bronze streams, and the record of the outages     *)
(* that the REST client backfills from.                                    *)
(*                                                                         *)
(* pc is the await at which the coroutine of run() is suspended.  Between  *)
(* two awaits the event loop runs nothing else, so one action is the code  *)
(* from one await to the next.  The socket, the exchange and the clock are *)
(* the environment; Faults says which of its failures a model allows.      *)
(***************************************************************************)
EXTENDS Integers, Sequences, FiniteSets

CONSTANTS
    Symbols,      \* the configured trading pairs
    Kinds,        \* kinds of message the exchange sends
    MaxAttempts,  \* _max_reconnect_attempts
    BaseBackoff,  \* _base_backoff
    MaxBackoff,   \* _max_backoff
    Faults,       \* the failures of the environment that may happen
    None,         \* Python's None
    MaxTime,      \* bound: the clock stops there
    MaxMessages   \* bound: messages the exchange sends

Wanted  == {"trade", "kline"}            \* written to a Bronze stream
Ignored == {"open_kline", "unroutable"}  \* dropped by an early return
Invalid == {"invalid"}                   \* a validator of schemas.py raises
Malformed == {"malformed"}               \* no dictionary: envelope.get raises

\* "refuse": a connection attempt fails.  "close_ok"/"close_error": the
\* server ends the connection with or without a proper close.  "silent":
\* the link dies and only the keepalive notices.  "redis": an XADD fails.
\* "lag": time passes before the client notices that the socket closed.
AllFaults == {"refuse", "close_ok", "close_error", "silent", "redis", "lag"}

ASSUME SymbolsAssumption == Symbols # {} /\ IsFiniteSet(Symbols)
ASSUME KindsAssumption   == Kinds \subseteq Wanted \cup Ignored \cup Invalid \cup Malformed
ASSUME BoundsAssumption  ==
    /\ MaxAttempts \in Nat \ {0}
    /\ MaxTime \in Nat
    /\ MaxMessages \in Nat
ASSUME BackoffAssumption == BaseBackoff \in Nat /\ MaxBackoff \in Nat
ASSUME FaultsAssumption  == Faults \subseteq AllFaults

VARIABLES
    pc,                  \* where run() is suspended
    running,             \* _running
    reconnect_count,     \* _reconnect_count
    last_disconnect_ts,  \* _last_disconnect_ts
    backoff_until,       \* when the current asyncio.sleep ends
    reconnect_ts,        \* local of _record_reconnect
    unreported,          \* symbols its loop has not reached yet
    current,             \* the message in the hands of _handle_message
    link,                \* state of the TCP connection
    socket,              \* messages received and not yet read
    now,                 \* the clock, in units no shorter than a close
    sent,                \* number of messages the exchange has sent
    published,           \* messages in stream:trades:* and stream:klines:*
    dead_letter,         \* messages in stream:dead_letter
    gaps,                \* gaps[s]: the records in stream:gaps:{s}
    missed,              \* history: wanted messages that never got through
    timing               \* history: "blurred" once an outage was not timed

client  == <<pc, running, reconnect_count, last_disconnect_ts, backoff_until,
             reconnect_ts, unreported, current>>
wire    == <<link, socket>>
output  == <<published, dead_letter, gaps>>
history == <<missed, timing>>
vars    == <<client, wire, now, sent, output, history>>

Message == [id : 1..MaxMessages, symbol : Symbols, kind : Kinds, at : 0..MaxTime]
Gap     == [disconnect_time : 0..MaxTime, reconnect_time : 0..MaxTime]

ASSUME NoneAssumption == None \notin Nat \cup Message

Ended     == {"stopped", "given_up"}
Connected == {"recording", "listening", "handling"}
Closed    == {"closed_ok", "closed_error"}

TypeOK ==
    /\ pc \in {"idle", "supervise", "connecting", "backoff"} \cup Connected \cup Ended
    /\ running \in BOOLEAN
    /\ reconnect_count \in 0..MaxAttempts
    /\ last_disconnect_ts \in (0..MaxTime) \cup {None}
    /\ backoff_until \in Int
    /\ reconnect_ts \in 0..MaxTime
    /\ unreported \subseteq Symbols
    /\ current \in Message \cup {None}
    /\ link \in {"never", "up", "silent", "down"} \cup Closed
    /\ socket \in Seq(Message)
    /\ now \in 0..MaxTime
    /\ sent \in 0..MaxMessages
    /\ published \subseteq Message
    /\ dead_letter \subseteq Message
    /\ gaps \in [Symbols -> SUBSET Gap]
    /\ missed \subseteq Message
    /\ timing \in {"exact", "blurred"}

Init ==
    /\ pc = "idle"
    /\ running = FALSE
    /\ reconnect_count = 0
    /\ last_disconnect_ts = None
    /\ backoff_until = 0
    /\ reconnect_ts = 0
    /\ unreported = {}
    /\ current = None
    /\ link = "never"
    /\ socket = <<>>
    /\ now = 0
    /\ sent = 0
    /\ published = {}
    /\ dead_letter = {}
    /\ gaps = [s \in Symbols |-> {}]
    /\ missed = {}
    /\ timing = "exact"

-----------------------------------------------------------------------------
(* Helpers of the code. *)

\* Exponential backoff with a cap: attempt 0 waits the base delay.
Backoff(n) ==
    LET delay == BaseBackoff * 2^n
    IN  IF delay < MaxBackoff THEN delay ELSE MaxBackoff

\* Mutation: the start of the outage is never stored.
RecordDisconnectForgotten(at) == UNCHANGED last_disconnect_ts

\* The start of the outage: the latest error overwrites an earlier one.
RecordDisconnect(at) == last_disconnect_ts' = at

\* An exception reaches run(): the context manager has closed the socket,
\* the disconnect is recorded and the coroutine goes to sleep.
Fail ==
    /\ RecordDisconnect(now)
    /\ backoff_until' = now + Backoff(reconnect_count)
    /\ pc' = "backoff"
    /\ link' = IF link = "never" THEN "never" ELSE "down"
    /\ socket' = <<>>
    /\ current' = None
    /\ unreported' = {}
    /\ UNCHANGED <<running, reconnect_count, reconnect_ts>>

\* Messages that were received and die with the connection.
Abandoned ==
    {m \in {current} \cup {socket[i] : i \in DOMAIN socket} :
        m # None /\ m.kind \in Wanted}

-----------------------------------------------------------------------------
(* run(): the supervisor. *)

Start ==
    /\ pc = "idle"
    /\ pc' = "supervise"
    /\ running' = TRUE
    /\ UNCHANGED <<reconnect_count, last_disconnect_ts, backoff_until, reconnect_ts,
                   unreported, current, wire, now, sent, output, history>>

\* Mutation: every round of the loop raises the flag instead of testing it.
SupervisorGoesOnRegardless == reconnect_count < MaxAttempts

\* The loop condition and the limit on attempts let it connect once more.
SupervisorGoesOn == running /\ reconnect_count < MaxAttempts

Supervise ==
    /\ pc = "supervise"
    /\ running' = SupervisorGoesOn
    /\ pc' = IF running' THEN "connecting" ELSE IF running THEN "given_up" ELSE "stopped"
    /\ UNCHANGED <<reconnect_count, last_disconnect_ts, backoff_until, reconnect_ts,
                   unreported, current, wire, now, sent, output, history>>

\* Mutation: the attempt is not counted.
AfterBackoffUncounted == reconnect_count

\* The attempt that just failed is counted after the sleep.
AfterBackoff == reconnect_count + 1

BackoffEnds ==
    /\ pc = "backoff"
    /\ now >= backoff_until \/ now = MaxTime   \* past the bound time is not told apart
    /\ pc' = "supervise"
    /\ reconnect_count' = AfterBackoff
    /\ UNCHANGED <<running, last_disconnect_ts, backoff_until, reconnect_ts,
                   unreported, current, wire, now, sent, output, history>>

\* _connect_and_listen returned: the flag decides, and the counter is reset.
\* No disconnect is recorded on this path.
CleanReturn ==
    /\ pc' = IF running THEN "supervise" ELSE "stopped"
    /\ reconnect_count' = IF running THEN 0 ELSE reconnect_count
    /\ link' = "down"
    /\ socket' = <<>>
    /\ current' = None
    /\ UNCHANGED <<running, last_disconnect_ts, backoff_until, reconnect_ts, unreported>>

\* stop() only lowers the flag; run() raises it again when it starts.
Stop ==
    /\ running
    /\ running' = FALSE
    /\ UNCHANGED <<pc, reconnect_count, last_disconnect_ts, backoff_until, reconnect_ts,
                   unreported, current, wire, now, sent, output, history>>

-----------------------------------------------------------------------------
(* _connect_and_listen and _record_reconnect: one connection. *)

ConnectOk ==
    /\ pc = "connecting"
    /\ link' = "up"
    /\ IF last_disconnect_ts = None
       THEN /\ pc' = "listening"
            /\ UNCHANGED <<reconnect_ts, unreported>>
       ELSE /\ pc' = "recording"
            /\ reconnect_ts' = now
            /\ unreported' = Symbols
    /\ UNCHANGED <<running, reconnect_count, last_disconnect_ts, backoff_until,
                   current, socket, now, sent, output, history>>

ConnectRefused ==
    /\ "refuse" \in Faults
    /\ pc = "connecting"
    /\ Fail
    /\ timing' = IF last_disconnect_ts = None THEN timing ELSE "blurred"
    /\ UNCHANGED <<now, sent, output, missed>>

\* Mutation: every record gets the time of its own XADD.
GapRecordLate == [disconnect_time |-> last_disconnect_ts, reconnect_time |-> now]

GapRecord == [disconnect_time |-> last_disconnect_ts, reconnect_time |-> reconnect_ts]

\* One XADD of the loop over the symbols.
ReportGap(s) ==
    /\ pc = "recording"
    /\ s \in unreported
    /\ gaps' = [gaps EXCEPT ![s] = @ \cup {GapRecord}]
    /\ unreported' = unreported \ {s}
    /\ UNCHANGED <<pc, running, reconnect_count, last_disconnect_ts, backoff_until,
                   reconnect_ts, current, wire, now, sent, published, dead_letter, history>>

\* Mutation: the reset that prevents duplicate records is missing.
AfterReportNotReset == last_disconnect_ts

AfterReport == None

AllReported ==
    /\ pc = "recording"
    /\ unreported = {}
    /\ pc' = "listening"
    /\ last_disconnect_ts' = AfterReport
    /\ UNCHANGED <<running, reconnect_count, backoff_until, reconnect_ts,
                   unreported, current, wire, now, sent, output, history>>

\* Redis refuses the XADD of a gap record: symbols already reported stay so.
ReportFails ==
    /\ "redis" \in Faults
    /\ pc = "recording"
    /\ unreported # {}
    /\ Fail
    /\ missed' = missed \cup Abandoned
    /\ timing' = "blurred"
    /\ UNCHANGED <<now, sent, output>>

\* Mutation: the loop does not look at the flag before the next message.
KeepsListeningRegardless == TRUE

KeepsListening == running

TakeMessage ==
    /\ pc = "listening"
    /\ socket # <<>>
    /\ KeepsListening
    /\ current' = Head(socket)
    /\ socket' = Tail(socket)
    /\ pc' = "handling"
    /\ UNCHANGED <<running, reconnect_count, last_disconnect_ts, backoff_until,
                   reconnect_ts, unreported, link, now, sent, output, history>>

\* The flag is only looked at when a message arrives; that message is dropped.
StopNoticed ==
    /\ pc = "listening"
    /\ socket # <<>>
    /\ ~KeepsListening
    /\ CleanReturn
    /\ UNCHANGED <<now, sent, output, history>>

\* async for ends by itself on a proper close, after the buffered messages.
ClosedOk ==
    /\ pc = "listening"
    /\ socket = <<>>
    /\ link = "closed_ok"
    /\ CleanReturn
    /\ timing' = "blurred"
    /\ UNCHANGED <<now, sent, output, missed>>

ClosedError ==
    /\ pc = "listening"
    /\ socket = <<>>
    /\ link = "closed_error"
    /\ Fail
    /\ UNCHANGED <<now, sent, output, history>>

-----------------------------------------------------------------------------
(* _handle_message: exactly one message is in hand. *)

Handled ==
    /\ pc' = "listening"
    /\ current' = None
    /\ UNCHANGED <<running, reconnect_count, last_disconnect_ts, backoff_until,
                   reconnect_ts, unreported, wire, now, sent, gaps, history>>

\* A valid trade or a valid closed kline reaches its Bronze stream.
Publish ==
    /\ pc = "handling"
    /\ current.kind \in Wanted
    /\ published' = published \cup {current}
    /\ Handled
    /\ UNCHANGED dead_letter

\* Redis refuses the XADD, or the envelope is decoded to no dictionary: the
\* exception takes the connection down.
HandlingFails ==
    /\ pc = "handling"
    /\ \/ "redis" \in Faults /\ current.kind \in Wanted
       \/ current.kind \in Malformed
    /\ Fail
    /\ missed' = missed \cup Abandoned
    /\ timing' = "blurred"
    /\ UNCHANGED <<now, sent, output>>

\* An open candle, an unknown stream, an envelope without a stream or data, or
\* text that is not JSON.
Skip ==
    /\ pc = "handling"
    /\ current.kind \in Ignored
    /\ Handled
    /\ UNCHANGED <<published, dead_letter>>

\* Validation failed; the write to the dead letter stream may fail too, and
\* that failure is swallowed.
DeadLetter ==
    /\ pc = "handling"
    /\ current.kind \in Invalid
    /\ \/ dead_letter' = dead_letter \cup {current}
       \/ "redis" \in Faults /\ UNCHANGED dead_letter
    /\ Handled
    /\ UNCHANGED published

-----------------------------------------------------------------------------
(* The environment: the exchange, the connection and the clock. *)

\* The exchange sends a message; without a live link it is missed.  What it
\* sent before the first connection or after the client ended is not counted.
Send(s, k) ==
    LET m == [id |-> sent + 1, symbol |-> s, kind |-> k, at |-> now]
    IN  /\ sent < MaxMessages
        /\ link # "never"
        /\ pc \notin Ended
        /\ sent' = sent + 1
        /\ IF link = "up"
           THEN socket' = Append(socket, m) /\ UNCHANGED missed
           ELSE /\ missed' = IF k \in Wanted THEN missed \cup {m} ELSE missed
                /\ UNCHANGED socket
        /\ UNCHANGED <<client, link, now, output, timing>>

SocketEnds ==
    /\ \/ link = "up" /\ "close_ok" \in Faults /\ link' = "closed_ok"
       \/ link = "up" /\ "close_error" \in Faults /\ link' = "closed_error"
       \/ link = "silent" /\ link' = "closed_error"   \* ping_timeout
    /\ UNCHANGED <<client, socket, now, sent, output, history>>

LinkDies ==
    /\ "silent" \in Faults
    /\ link = "up"
    /\ link' = "silent"
    /\ timing' = "blurred"
    /\ UNCHANGED <<client, socket, now, sent, output, missed>>

Tick ==
    /\ now < MaxTime
    /\ link \in Closed => "lag" \in Faults
    /\ now' = now + 1
    /\ timing' = IF link \in Closed THEN "blurred" ELSE timing
    /\ UNCHANGED <<client, wire, sent, output, missed>>

-----------------------------------------------------------------------------
ClientStep ==
    \/ Start \/ Supervise \/ BackoffEnds
    \/ ConnectOk \/ ConnectRefused
    \/ \E s \in Symbols : ReportGap(s)
    \/ AllReported \/ ReportFails
    \/ TakeMessage \/ StopNoticed \/ ClosedOk \/ ClosedError
    \/ Publish \/ HandlingFails \/ Skip \/ DeadLetter

Next ==
    \/ ClientStep
    \/ Stop
    \/ \E s \in Symbols, k \in Kinds : Send(s, k)
    \/ SocketEnds \/ LinkDies \/ Tick

Spec == Init /\ [][Next]_vars

\* The event loop keeps resuming run(), time passes, and no connection lasts
\* forever (Binance ends every stream after a day, a dead one times out).
Fairness == WF_vars(ClientStep) /\ WF_vars(SocketEnds) /\ WF_vars(Tick)

FairSpec == Spec /\ Fairness

-----------------------------------------------------------------------------
(* Properties. *)

\* Two different gap records of a symbol describe disjoint outages, each
\* ending no earlier than it began (the reset at the end of _record_reconnect
\* and the overwriting in _record_disconnect): nothing is backfilled twice.
GapsDisjoint ==
    \A s \in Symbols : \A g, h \in gaps[s] :
        /\ g.disconnect_time <= g.reconnect_time
        /\ \/ g = h
           \/ g.reconnect_time <= h.disconnect_time
           \/ h.reconnect_time <= g.disconnect_time

\* No message that was published live lies strictly inside a reported outage
\* of its symbol: the REST client is never sent to fetch what the stream has.
NoFalseGap ==
    \A m \in published : \A g \in gaps[m.symbol] :
        ~(g.disconnect_time < m.at /\ m.at < g.reconnect_time)

Reported(m) ==
    \E g \in gaps[m.symbol] : g.disconnect_time <= m.at /\ m.at <= g.reconnect_time

\* While the client runs, every wanted message that did not get through is
\* inside a gap record of its symbol, or inside the outage that the next
\* reconnect will report, or the client has not noticed yet that its
\* connection is gone (_record_disconnect, _record_reconnect).
MissedAreKnown ==
    running => \A m \in missed :
        \/ Reported(m)
        \/ last_disconnect_ts # None /\ last_disconnect_ts <= m.at
        \/ pc \in Connected /\ link # "up"

\* No message is lost without a trace unless the client timed an outage
\* wrongly: a clean close that it does not record, a failure that overwrites
\* the time of an unreported one, a failed write, or a loss noticed late.
GapsComplete == timing = "exact" => MissedAreKnown

\* A recorded disconnect is not left behind: the client reconnects and
\* reports it, or it ends (the attempts are counted, so it cannot loop
\* forever between a failed connection and the next).
DisconnectSettled ==
    last_disconnect_ts # None ~> last_disconnect_ts = None \/ pc \in Ended

\* After stop() the loop reads no further message and opens no further
\* connection: only what was already in hand is finished.
StopRespected ==
    [][~running /\ ~running' =>
          /\ pc' = "handling" => pc = "handling"
          /\ pc' = "connecting" => pc = "connecting"]_vars

\* A stop() that reaches a started client ends run().
StopTerminates == (pc # "idle" /\ ~running) ~> pc \in Ended
=============================================================================
