----------------------- MODULE WebSocketClientProofs -----------------------
(***************************************************************************)
(* Theorems about WebSocketClient for any symbols, limits and faults.      *)
(***************************************************************************)
EXTENDS WebSocketClient, SequenceTheorems, TLAPS

(***************************************************************************)
(* The strengthening of GapsDisjoint.  No record ends in the future; the   *)
(* start of the next record is not before the end of any record of the     *)
(* symbols it is still owed to; and while the records are written both     *)
(* their ends are fixed.                                                   *)
(***************************************************************************)
GapsInPast ==
    \A s \in Symbols : \A g \in gaps[s] : g.reconnect_time <= now

OpenGapInPast == last_disconnect_ts # None => last_disconnect_ts <= now

OwedAfterRecords ==
    last_disconnect_ts # None =>
        \A s \in Symbols :
            \/ pc = "recording" /\ s \notin unreported
            \/ \A g \in gaps[s] : g.reconnect_time <= last_disconnect_ts

RecordingFixed ==
    pc = "recording" =>
        /\ last_disconnect_ts <= reconnect_ts
        /\ reconnect_ts <= now

GapInv ==
    /\ GapsInPast
    /\ OpenGapInPast
    /\ OwedAfterRecords
    /\ RecordingFixed
    /\ GapsDisjoint

-----------------------------------------------------------------------------
\* The backoff is a whole number of seconds.
LEMMA BackoffType == ASSUME NEW n \in Nat PROVE Backoff(n) \in Int
  BY BackoffAssumption DEF Backoff

\* What every error path of run() leaves behind is well typed.
LEMMA FailType ==
    ASSUME TypeOK, Fail
    PROVE  /\ pc' = "backoff"
           /\ running' \in BOOLEAN
           /\ reconnect_count' \in 0..MaxAttempts
           /\ last_disconnect_ts' \in (0..MaxTime) \cup {None}
           /\ backoff_until' \in Int
           /\ reconnect_ts' \in 0..MaxTime
           /\ unreported' \subseteq Symbols
           /\ current' \in Message \cup {None}
           /\ link' \in {"never", "up", "silent", "down"} \cup Closed
           /\ socket' \in Seq(Message)
  <1>1. reconnect_count \in Nat
    BY BoundsAssumption DEF TypeOK
  <1>2. Backoff(reconnect_count) \in Int
    BY <1>1, BackoffType
  <1>3. now + Backoff(reconnect_count) \in Int
    BY <1>2, BoundsAssumption DEF TypeOK
  <1> QED
    BY <1>3 DEF Fail, RecordDisconnect, TypeOK

\* The strengthening of TypeOK: an attempt is only under way while the limit
\* is not reached, and a message is in hand while it is handled.
AttemptsLeft ==
    pc \notin {"supervise"} \cup Ended => reconnect_count < MaxAttempts

InHand == pc = "handling" => current \in Message

OutageKnown == pc = "recording" => last_disconnect_ts # None

TypeInv == TypeOK /\ AttemptsLeft /\ InHand /\ OutageKnown

\* What dies with a connection is messages.
LEMMA AbandonedType == TypeInv => Abandoned \subseteq Message
<1> SUFFICES ASSUME TypeInv PROVE Abandoned \subseteq Message
  OBVIOUS
<1>1. \A i \in DOMAIN socket : socket[i] \in Message
  BY ElementOfSeq, LenProperties DEF TypeInv, TypeOK
<1> QED
  BY <1>1 DEF Abandoned, TypeInv, TypeOK

\* An error path of run() keeps the types.
LEMMA FailKeepsType ==
    ASSUME TypeInv, Fail, pc \in {"connecting"} \cup Connected,
           missed' \subseteq Message, timing' \in {"exact", "blurred"},
           UNCHANGED <<now, sent, output>>
    PROVE  TypeInv'
<1>1. AttemptsLeft'
  BY DEF Fail, TypeInv, TypeOK, AttemptsLeft, Ended, Connected
<1>2. (InHand /\ OutageKnown)'
  BY DEF Fail, InHand, OutageKnown
<1>3. TypeOK'
  BY FailType DEF TypeInv, TypeOK, output
<1> QED
  BY <1>1, <1>2, <1>3 DEF TypeInv

\* A return of _connect_and_listen keeps the types.
LEMMA CleanReturnKeepsType ==
    ASSUME TypeInv, pc = "listening", CleanReturn,
           timing' \in {"exact", "blurred"}, UNCHANGED <<now, sent, output, missed>>
    PROVE  TypeInv'
<1>1. /\ reconnect_count' \in 0..MaxAttempts
      /\ reconnect_count' < MaxAttempts
  BY BoundsAssumption DEF CleanReturn, TypeInv, TypeOK, AttemptsLeft, Ended
<1>2. pc' \in {"supervise", "stopped"}
  BY DEF CleanReturn
<1>3. /\ socket' \in Seq(Message)
      /\ current' \in Message \cup {None}
      /\ link' = "down"
  BY DEF CleanReturn
<1>4. TypeOK'
  <2>1. running' \in BOOLEAN
    BY DEF CleanReturn, TypeInv, TypeOK
  <2>2. pc' \in {"idle", "supervise", "connecting", "backoff"} \cup Connected \cup Ended
    BY <1>2 DEF Ended
  <2> QED
    BY <1>1, <1>3, <2>1, <2>2 DEF CleanReturn, TypeInv, TypeOK, output
<1>5. (AttemptsLeft /\ InHand /\ OutageKnown)'
  BY <1>1, <1>2 DEF AttemptsLeft, InHand, OutageKnown
<1> QED
  BY <1>4, <1>5 DEF TypeInv

\* The record that is written has two times of the clock.
LEMMA ReportKeepsType ==
    ASSUME TypeInv, NEW s \in Symbols, ReportGap(s)
    PROVE  TypeInv'
<1>1. GapRecord \in Gap
  BY DEF ReportGap, GapRecord, Gap, TypeInv, TypeOK, OutageKnown
<1>2. gaps' \in [Symbols -> SUBSET Gap]
  BY <1>1 DEF ReportGap, TypeInv, TypeOK
<1> QED
  BY <1>2 DEF ReportGap, TypeInv, TypeOK, wire, history, AttemptsLeft, InHand, OutageKnown

\* What the exchange sends is a message, delivered or missed.
LEMMA SendKeepsType ==
    ASSUME TypeInv, NEW s \in Symbols, NEW k \in Kinds, Send(s, k)
    PROVE  TypeInv'
<1> DEFINE m == [id |-> sent + 1, symbol |-> s, kind |-> k, at |-> now]
<1>1. m \in Message
  BY BoundsAssumption DEF Send, Message, TypeInv, TypeOK
<1>2. sent' \in 0..MaxMessages
  BY BoundsAssumption DEF Send, TypeInv, TypeOK
<1> HIDE DEF m
<1>3. socket' \in Seq(Message) /\ missed' \subseteq Message
  <2>1. \/ socket' = Append(socket, m) /\ missed' = missed
        \/ socket' = socket /\ (missed' = missed \/ missed' = missed \cup {m})
    BY DEF Send, m
  <2>2. socket \in Seq(Message) /\ missed \subseteq Message
    BY DEF TypeInv, TypeOK
  <2> QED
    BY <1>1, <2>1, <2>2
<1>4. UNCHANGED <<pc, running, reconnect_count, last_disconnect_ts, backoff_until,
                  reconnect_ts, unreported, current, link, now, timing>>
  BY DEF Send, client
<1>5. UNCHANGED <<published, dead_letter, gaps>>
  BY DEF Send, output
<1>6. TypeOK'
  BY <1>2, <1>3, <1>4, <1>5 DEF TypeInv, TypeOK
<1>7. (AttemptsLeft /\ InHand /\ OutageKnown)'
  BY <1>4 DEF TypeInv, AttemptsLeft, InHand, OutageKnown
<1> QED
  BY <1>6, <1>7 DEF TypeInv

\* The initial state is well typed.
LEMMA InitType == Init => TypeInv
<1> SUFFICES ASSUME Init PROVE TypeInv
  OBVIOUS
<1>1. /\ reconnect_count \in 0..MaxAttempts
      /\ reconnect_count < MaxAttempts
      /\ reconnect_ts \in 0..MaxTime
      /\ now \in 0..MaxTime
      /\ sent \in 0..MaxMessages
  BY BoundsAssumption DEF Init
<1>2. /\ gaps \in [Symbols -> SUBSET Gap]
      /\ socket \in Seq(Message)
      /\ current \in Message \cup {None}
      /\ last_disconnect_ts \in (0..MaxTime) \cup {None}
      /\ unreported = {} /\ published = {} /\ dead_letter = {} /\ missed = {}
  BY DEF Init
<1>3. /\ pc = "idle"
      /\ link = "never"
      /\ backoff_until \in Int
      /\ timing = "exact"
  BY DEF Init
<1>4. running \in BOOLEAN
  BY DEF Init
<1>5. TypeOK
  BY <1>1, <1>2, <1>3, <1>4 DEF TypeOK
<1>6. AttemptsLeft /\ InHand /\ OutageKnown
  BY <1>1, <1>3 DEF AttemptsLeft, InHand, OutageKnown
<1> QED
  BY <1>5, <1>6 DEF TypeInv

\* Every step keeps the types, one step of the proof per action.
LEMMA NextType == TypeInv /\ [Next]_vars => TypeInv'
<1> SUFFICES ASSUME TypeInv, [Next]_vars PROVE TypeInv'
  OBVIOUS
<1> USE DEF TypeInv, TypeOK, AttemptsLeft, InHand, OutageKnown, wire, output, client
<1> USE DEF history
<1> USE DEF Connected, Ended, Closed
<1>1. CASE Start
  BY <1>1 DEF Start
<1>2. CASE Supervise
  BY <1>2 DEF Supervise, SupervisorGoesOn
<1>3. CASE BackoffEnds
  BY <1>3, BoundsAssumption DEF BackoffEnds, AfterBackoff
<1>4. CASE ConnectOk
  BY <1>4 DEF ConnectOk
<1>5. CASE ConnectRefused
  BY <1>5, FailKeepsType DEF ConnectRefused
<1>6. ASSUME NEW s \in Symbols, ReportGap(s) PROVE TypeInv'
  BY <1>6, ReportKeepsType
<1>7. CASE AllReported
  BY <1>7 DEF AllReported, AfterReport
<1>8. CASE ReportFails
  BY <1>8, FailKeepsType, AbandonedType DEF ReportFails
<1>9. CASE TakeMessage
  BY <1>9 DEF TakeMessage
<1>10. CASE StopNoticed
  BY <1>10, CleanReturnKeepsType DEF StopNoticed
<1>11. CASE ClosedOk
  BY <1>11, CleanReturnKeepsType DEF ClosedOk
<1>12. CASE ClosedError
  BY <1>12, FailKeepsType DEF ClosedError
<1>13. CASE Publish
  BY <1>13 DEF Publish, Handled
<1>14. CASE HandlingFails
  BY <1>14, FailKeepsType, AbandonedType DEF HandlingFails
<1>15. CASE Skip
  BY <1>15 DEF Skip, Handled
<1>16. CASE DeadLetter
  BY <1>16 DEF DeadLetter, Handled
<1>17. CASE Stop
  BY <1>17 DEF Stop
<1>18. ASSUME NEW s \in Symbols, NEW k \in Kinds, Send(s, k) PROVE TypeInv'
  BY <1>18, SendKeepsType
<1>19. CASE SocketEnds
  BY <1>19 DEF SocketEnds
<1>20. CASE LinkDies
  BY <1>20 DEF LinkDies
<1>21. CASE Tick
  BY <1>21, BoundsAssumption DEF Tick
<1>22. CASE UNCHANGED vars
  BY <1>22 DEF vars
<1> QED
  BY <1>1, <1>2, <1>3, <1>4, <1>5, <1>6, <1>7, <1>8, <1>9, <1>10, <1>11, <1>12,
     <1>13, <1>14, <1>15, <1>16, <1>17, <1>18, <1>19, <1>20, <1>21, <1>22
  DEF Next, ClientStep

\* Every variable keeps its type; in particular run() never counts more than
\* MaxAttempts failed attempts (lines 95-101, 123 and 135).
THEOREM TypeCorrect == Spec => []TypeOK
<1>1. Init => TypeInv
  BY InitType
<1>2. TypeInv /\ [Next]_vars => TypeInv'
  BY NextType
<1>3. TypeInv => TypeOK
  BY DEF TypeInv
<1> QED
  BY <1>1, <1>2, <1>3, PTL DEF Spec

-----------------------------------------------------------------------------
\* Times are numbers that can be compared.
LEMMA Times ==
    ASSUME TypeInv
    PROVE  /\ now \in Int
           /\ reconnect_ts \in Int
           /\ last_disconnect_ts # None => last_disconnect_ts \in Int
           /\ \A s \in Symbols : \A g \in gaps[s] :
                  g.disconnect_time \in Int /\ g.reconnect_time \in Int
  BY DEF TypeInv, TypeOK, Gap

\* An error moves the start of the open outage to the present, which no
\* record reaches beyond.
LEMMA FailKeepsGaps ==
    ASSUME TypeInv, GapInv, Fail, UNCHANGED <<now, output>>
    PROVE  GapInv'
<1>1. last_disconnect_ts' = now /\ pc' = "backoff" /\ gaps' = gaps /\ now' = now
  BY DEF Fail, RecordDisconnect, output
<1> QED
  BY <1>1, Times DEF GapInv, GapsInPast, OpenGapInPast, OwedAfterRecords,
                     RecordingFixed, GapsDisjoint

\* A step that moves none of the times and enters no recording keeps GapInv.
LEMMA QuietKeepsGaps ==
    ASSUME TypeInv, GapInv, pc' # "recording", pc # "recording",
           UNCHANGED <<last_disconnect_ts, gaps, now>>
    PROVE  GapInv'
  BY DEF GapInv, GapsInPast, OpenGapInPast, OwedAfterRecords, RecordingFixed, GapsDisjoint

\* The new record begins after every record of its symbol ended.
LEMMA ReportKeepsGaps ==
    ASSUME TypeInv, GapInv, NEW s \in Symbols, ReportGap(s)
    PROVE  GapInv'
<1>1. /\ last_disconnect_ts # None
      /\ last_disconnect_ts <= reconnect_ts
      /\ reconnect_ts <= now
      /\ \A g \in gaps[s] : g.reconnect_time <= last_disconnect_ts
  BY DEF ReportGap, GapInv, OwedAfterRecords, RecordingFixed, TypeInv, OutageKnown
<1>2. /\ GapRecord.disconnect_time = last_disconnect_ts
      /\ GapRecord.reconnect_time = reconnect_ts
  BY DEF GapRecord
<1>3. /\ gaps'[s] = gaps[s] \cup {GapRecord}
      /\ \A t \in Symbols \ {s} : gaps'[t] = gaps[t]
  BY DEF ReportGap, TypeInv, TypeOK
<1>4. /\ UNCHANGED <<pc, last_disconnect_ts, reconnect_ts, now>>
      /\ pc = "recording"
      /\ unreported' = unreported \ {s}
  BY DEF ReportGap
<1>5. GapsInPast'
  BY <1>1, <1>2, <1>3, <1>4 DEF GapInv, GapsInPast
<1>6. (OpenGapInPast /\ RecordingFixed)'
  BY <1>4 DEF GapInv, OpenGapInPast, RecordingFixed
<1>7. OwedAfterRecords'
  BY <1>3, <1>4 DEF GapInv, OwedAfterRecords
<1>8. GapsDisjoint'
  <2> SUFFICES ASSUME NEW t \in Symbols, NEW g \in gaps'[t], NEW h \in gaps'[t]
               PROVE  /\ g.disconnect_time <= g.reconnect_time
                      /\ \/ g = h
                         \/ g.reconnect_time <= h.disconnect_time
                         \/ h.reconnect_time <= g.disconnect_time
    BY DEF GapsDisjoint
  <2>1. CASE t # s
    BY <2>1, <1>3 DEF GapInv, GapsDisjoint
  <2>2. CASE t = s
    BY <2>2, <1>1, <1>2, <1>3 DEF GapInv, GapsDisjoint
  <2> QED
    BY <2>1, <2>2
<1> QED
  BY <1>5, <1>6, <1>7, <1>8 DEF GapInv

\* GapInv is inductive.
LEMMA NextGaps == TypeInv /\ GapInv /\ [Next]_vars => GapInv'
<1> SUFFICES ASSUME TypeInv, GapInv, [Next]_vars PROVE GapInv'
  OBVIOUS
<1> USE DEF wire, output, client
<1>1. CASE Start
  BY <1>1, QuietKeepsGaps DEF Start
<1>2. CASE Supervise
  BY <1>2, QuietKeepsGaps DEF Supervise
<1>3. CASE BackoffEnds
  BY <1>3, QuietKeepsGaps DEF BackoffEnds
<1>4. CASE ConnectOk
  BY <1>4, Times DEF ConnectOk, GapInv, GapsInPast, OpenGapInPast,
                     OwedAfterRecords, RecordingFixed, GapsDisjoint
<1>5. CASE ConnectRefused
  BY <1>5, FailKeepsGaps DEF ConnectRefused
<1>6. ASSUME NEW s \in Symbols, ReportGap(s) PROVE GapInv'
  BY <1>6, ReportKeepsGaps
<1>7. CASE AllReported
  BY <1>7 DEF AllReported, AfterReport, GapInv, GapsInPast, OpenGapInPast,
              OwedAfterRecords, RecordingFixed, GapsDisjoint
<1>8. CASE ReportFails
  BY <1>8, FailKeepsGaps DEF ReportFails
<1>9. CASE TakeMessage
  BY <1>9, QuietKeepsGaps DEF TakeMessage
<1>10. CASE StopNoticed
  BY <1>10, QuietKeepsGaps DEF StopNoticed, CleanReturn
<1>11. CASE ClosedOk
  BY <1>11, QuietKeepsGaps DEF ClosedOk, CleanReturn
<1>12. CASE ClosedError
  BY <1>12, FailKeepsGaps DEF ClosedError
<1>13. CASE Publish
  BY <1>13, QuietKeepsGaps DEF Publish, Handled
<1>14. CASE HandlingFails
  BY <1>14, FailKeepsGaps DEF HandlingFails
<1>15. CASE Skip
  BY <1>15, QuietKeepsGaps DEF Skip, Handled
<1>16. CASE DeadLetter
  BY <1>16, QuietKeepsGaps DEF DeadLetter, Handled
<1>17. ASSUME UNCHANGED <<pc, last_disconnect_ts, reconnect_ts, unreported, gaps>>,
              now' \in Int, now <= now'
       PROVE  GapInv'
  BY <1>17, Times DEF GapInv, GapsInPast, OpenGapInPast, OwedAfterRecords,
                      RecordingFixed, GapsDisjoint
<1>18. now \in Int /\ now <= now
  BY Times
<1>19. CASE Stop
  BY <1>19, <1>17, <1>18 DEF Stop
<1>20. ASSUME NEW s \in Symbols, NEW k \in Kinds, Send(s, k) PROVE GapInv'
  BY <1>20, <1>17, <1>18 DEF Send
<1>21. CASE SocketEnds
  BY <1>21, <1>17, <1>18 DEF SocketEnds
<1>22. CASE LinkDies
  BY <1>22, <1>17, <1>18 DEF LinkDies
<1>23. CASE Tick
  BY <1>23, <1>17, <1>18 DEF Tick
<1>24. CASE UNCHANGED vars
  BY <1>24, <1>17, <1>18 DEF vars
<1> QED
  BY <1>1, <1>2, <1>3, <1>4, <1>5, <1>6, <1>7, <1>8, <1>9, <1>10, <1>11, <1>12,
     <1>13, <1>14, <1>15, <1>16, <1>19, <1>20, <1>21, <1>22, <1>23, <1>24
  DEF Next, ClientStep

\* The gap records of a symbol never overlap, whatever fails and whenever:
\* no outage is backfilled twice (lines 335-381).
THEOREM GapsAreDisjoint == Spec => []GapsDisjoint
<1>1. Init => TypeInv
  BY InitType
<1>2. Init => GapInv
  BY DEF Init, GapInv, GapsInPast, OpenGapInPast, OwedAfterRecords,
         RecordingFixed, GapsDisjoint
<1>3. TypeInv /\ GapInv /\ [Next]_vars => (TypeInv /\ GapInv)'
  BY NextType, NextGaps
<1>4. GapInv => GapsDisjoint
  BY DEF GapInv
<1> QED
  BY <1>1, <1>2, <1>3, <1>4, PTL DEF Spec

-----------------------------------------------------------------------------
(***************************************************************************)
(* No false gap.  What the client has received and not yet published came  *)
(* after every outage of its symbol that is, or is being, recorded; what   *)
(* it has published came before the outage that is still open.             *)
(***************************************************************************)
Received == {socket[i] : i \in DOMAIN socket}

Held == {m \in {current} \cup Received : m # None}

\* Messages arrive over a connection that run() has in hand.
ConnectionInv ==
    /\ link = "up" => pc \in Connected
    /\ pc \notin Connected => Held = {}
    /\ pc \in {"listening", "handling"} => last_disconnect_ts = None

HeldInv ==
    \A m \in Held :
        /\ m.at <= now
        /\ pc = "recording" => reconnect_ts <= m.at
        /\ \A g \in gaps[m.symbol] : g.reconnect_time <= m.at

PublishedInv ==
    \A m \in published :
        /\ m.at <= now
        /\ last_disconnect_ts # None => m.at <= last_disconnect_ts

LiveInv == ConnectionInv /\ HeldInv /\ PublishedInv /\ NoFalseGap

LEMMA HeldType == TypeInv => Held \subseteq Message /\ published \subseteq Message
<1> SUFFICES ASSUME TypeInv PROVE Held \subseteq Message
  BY DEF TypeInv, TypeOK
<1>1. \A i \in DOMAIN socket : socket[i] \in Message
  BY ElementOfSeq, LenProperties DEF TypeInv, TypeOK
<1> QED
  BY <1>1 DEF Held, Received, TypeInv, TypeOK

\* Nothing is held after an error or a return of _connect_and_listen.
LEMMA NothingHeld == socket' = <<>> /\ current' = None => Held' = {}
  BY DEF Held, Received

\* Reading and handling hold nothing new.
LEMMA HeldWhileHandling ==
    ASSUME TypeInv, TakeMessage \/ Handled
    PROVE  Held' \subseteq Held
<1>1. socket \in Seq(Message)
  BY DEF TypeInv, TypeOK
<1>2. CASE TakeMessage
  <2>1. /\ socket # <<>> /\ current' = Head(socket) /\ socket' = Tail(socket)
    BY <1>2 DEF TakeMessage
  <2>2. Head(socket) \in Received
    BY <1>1, <2>1, EmptySeq, LenProperties, HeadTailProperties DEF Received
  <2>3. \A i \in DOMAIN Tail(socket) : Tail(socket)[i] \in Received
    BY <1>1, <2>1, EmptySeq, LenProperties, HeadTailProperties DEF Received
  <2> QED
    BY <2>1, <2>2, <2>3 DEF Held, Received
<1>3. CASE Handled
  BY <1>3 DEF Handled, Held, Received, wire
<1> QED
  BY <1>2, <1>3

\* What is sent over a live connection is held from now on.
LEMMA HeldWhenSent ==
    ASSUME TypeInv, NEW s \in Symbols, NEW k \in Kinds, Send(s, k)
    PROVE  \A m \in Held' : m \in Held \/ (m.at = now /\ m.symbol = s /\ link = "up")
<1> DEFINE m == [id |-> sent + 1, symbol |-> s, kind |-> k, at |-> now]
<1>1. socket \in Seq(Message) /\ current' = current
  BY DEF Send, client, TypeInv, TypeOK
<1>2. CASE link = "up"
  <2>1. socket' = Append(socket, m)
    BY <1>2 DEF Send
  <2>2. \A i \in DOMAIN Append(socket, m) : Append(socket, m)[i] \in Received \cup {m}
    BY <1>1, LenProperties, AppendProperties DEF Received
  <2>3. Received' \subseteq Received \cup {m}
    BY <2>1, <2>2 DEF Received
  <2> QED
    BY <1>1, <1>2, <2>3 DEF Held
<1>3. CASE link # "up"
  BY <1>1, <1>3 DEF Send, Held, Received
<1> QED
  BY <1>2, <1>3

\* Connections come and go.
LEMMA NextConnection == TypeInv /\ ConnectionInv /\ [Next]_vars => ConnectionInv'
<1> SUFFICES ASSUME TypeInv, ConnectionInv, [Next]_vars PROVE ConnectionInv'
  OBVIOUS
<1> USE DEF ConnectionInv, Connected, Closed, wire, client, history
<1>1. UNCHANGED <<socket, current>> => Held' = Held
  BY DEF Held, Received
<1>2. CASE Start \/ Supervise \/ BackoffEnds
  BY <1>1, <1>2 DEF Start, Supervise, BackoffEnds
<1>3. CASE ConnectOk
  BY <1>3 DEF ConnectOk, Held, Received
<1>4. ASSUME Fail PROVE ConnectionInv'
  BY <1>4, NothingHeld DEF Fail
<1>5. CASE ConnectRefused \/ ReportFails \/ ClosedError \/ HandlingFails
  BY <1>4, <1>5 DEF ConnectRefused, ReportFails, ClosedError, HandlingFails
<1>6. ASSUME NEW s \in Symbols, ReportGap(s) PROVE ConnectionInv'
  BY <1>1, <1>6 DEF ReportGap
<1>7. CASE AllReported
  BY <1>1, <1>7 DEF AllReported, AfterReport
<1>8. CASE TakeMessage
  BY <1>8 DEF TakeMessage
<1>9. CASE StopNoticed \/ ClosedOk
  BY <1>9, NothingHeld DEF StopNoticed, ClosedOk, CleanReturn
<1>10. CASE Publish \/ Skip \/ DeadLetter
  BY <1>10 DEF Publish, Skip, DeadLetter, Handled
<1>11. CASE Stop
  BY <1>1, <1>11 DEF Stop
<1>12. ASSUME NEW s \in Symbols, NEW k \in Kinds, Send(s, k) PROVE ConnectionInv'
  <2>1. UNCHANGED <<pc, link, last_disconnect_ts>>
    BY <1>12 DEF Send
  <2>2. \A m \in Held' : m \in Held \/ link = "up"
    BY <1>12, HeldWhenSent
  <2> QED
    BY <2>1, <2>2
<1>13. CASE SocketEnds \/ LinkDies
  BY <1>13 DEF SocketEnds, LinkDies, Held, Received
<1>14. CASE Tick \/ UNCHANGED vars
  BY <1>1, <1>14 DEF Tick, vars
<1> QED
  BY <1>2, <1>3, <1>5, <1>6, <1>7, <1>8, <1>9, <1>10, <1>11, <1>12, <1>13, <1>14
  DEF Next, ClientStep

\* A step that holds nothing new and moves none of the times.
LEMMA QuietKeepsLive ==
    ASSUME TypeInv, LiveInv, ConnectionInv', Held' \subseteq Held,
           pc' = "recording" => pc = "recording",
           last_disconnect_ts' \in {last_disconnect_ts, None},
           UNCHANGED <<reconnect_ts, published, gaps, now>>
    PROVE  LiveInv'
<1>1. HeldInv'
  BY DEF LiveInv, HeldInv
<1>2. PublishedInv' /\ NoFalseGap'
  BY DEF LiveInv, PublishedInv, NoFalseGap
<1> QED
  BY <1>1, <1>2 DEF LiveInv

\* The outage that an error opens starts when everything published is past.
LEMMA FailKeepsLive ==
    ASSUME TypeInv, LiveInv, ConnectionInv', Fail, UNCHANGED <<now, output>>
    PROVE  LiveInv'
<1>1. /\ Held' = {} /\ last_disconnect_ts' = now
      /\ UNCHANGED <<published, gaps, now>>
  BY NothingHeld DEF Fail, RecordDisconnect, output
<1>2. HeldInv'
  BY <1>1 DEF HeldInv
<1>3. PublishedInv' /\ NoFalseGap'
  BY <1>1 DEF LiveInv, PublishedInv, NoFalseGap
<1> QED
  BY <1>2, <1>3 DEF LiveInv

\* Time passes, or a message arrives: it is later than every record.
LEMMA ArrivalKeepsLive ==
    ASSUME TypeInv, GapInv, LiveInv, ConnectionInv', now' \in Int, now <= now',
           \A m \in Held' : m \in Held \/ (m.at = now /\ m.symbol \in Symbols),
           UNCHANGED <<pc, last_disconnect_ts, reconnect_ts, published, gaps>>
    PROVE  LiveInv'
<1>1. \A m \in Held \cup published : m.at \in Int
  BY HeldType DEF Message
<1>2. HeldInv'
  <2> SUFFICES ASSUME NEW m \in Held'
               PROVE  /\ m.at <= now'
                      /\ pc = "recording" => reconnect_ts <= m.at
                      /\ \A g \in gaps[m.symbol] : g.reconnect_time <= m.at
    BY DEF HeldInv
  <2>1. CASE m \in Held
    BY <1>1, <2>1, Times DEF LiveInv, HeldInv
  <2>2. CASE m.at = now /\ m.symbol \in Symbols
    BY <2>2, Times DEF GapInv, GapsInPast, RecordingFixed
  <2> QED
    BY <2>1, <2>2
<1>3. PublishedInv' /\ NoFalseGap'
  BY <1>1, Times DEF LiveInv, PublishedInv, NoFalseGap
<1> QED
  BY <1>2, <1>3 DEF LiveInv

\* The record that is written ends before what is held, and begins after
\* what is published.
LEMMA ReportKeepsLive ==
    ASSUME TypeInv, LiveInv, ConnectionInv', NEW s \in Symbols, ReportGap(s)
    PROVE  LiveInv'
<1>1. /\ GapRecord.disconnect_time = last_disconnect_ts
      /\ GapRecord.reconnect_time = reconnect_ts
      /\ last_disconnect_ts # None /\ pc = "recording"
  BY DEF GapRecord, ReportGap, TypeInv, OutageKnown
<1>2. \A t \in Symbols : gaps'[t] \subseteq gaps[t] \cup {GapRecord}
  BY DEF ReportGap, TypeInv, TypeOK
<1>3. UNCHANGED <<pc, last_disconnect_ts, reconnect_ts, published, now>> /\ Held' = Held
  BY DEF ReportGap, wire, Held, Received
<1>4. \A m \in Held \cup published : m.at \in Int /\ m.symbol \in Symbols
  BY HeldType DEF Message
<1>5. HeldInv'
  BY <1>1, <1>2, <1>3, <1>4 DEF LiveInv, HeldInv
<1>6. PublishedInv'
  BY <1>3 DEF LiveInv, PublishedInv
<1>7. NoFalseGap'
  <2> SUFFICES ASSUME NEW m \in published, NEW g \in gaps'[m.symbol],
                      g.disconnect_time < m.at, m.at < g.reconnect_time
               PROVE  FALSE
    BY <1>3 DEF NoFalseGap
  <2>1. CASE g \in gaps[m.symbol]
    BY <2>1 DEF LiveInv, NoFalseGap
  <2>2. CASE g = GapRecord
    <3>1. m.at <= last_disconnect_ts
      BY <1>1 DEF LiveInv, PublishedInv
    <3> QED
      BY <1>1, <1>4, <2>2, <3>1, Times
  <2> QED
    BY <1>2, <1>4, <2>1, <2>2
<1> QED
  BY <1>5, <1>6, <1>7 DEF LiveInv

LEMMA NextLive == TypeInv /\ GapInv /\ LiveInv /\ [Next]_vars => LiveInv'
<1> SUFFICES ASSUME TypeInv, GapInv, LiveInv, [Next]_vars PROVE LiveInv'
  OBVIOUS
<1>c. ConnectionInv'
  BY NextConnection DEF LiveInv
<1> USE DEF wire, output, client, history
<1>1. CASE Start \/ Supervise \/ BackoffEnds
  <2>1. Held' = Held /\ pc' # "recording"
    BY <1>1 DEF Start, Supervise, BackoffEnds, Held, Received
  <2> QED
    BY <1>1, <1>c, <2>1, QuietKeepsLive DEF Start, Supervise, BackoffEnds
<1>2. CASE ConnectOk
  <2>1. Held' = {}
    BY <1>2 DEF ConnectOk, LiveInv, ConnectionInv, Connected, Held, Received
  <2>2. HeldInv'
    BY <2>1 DEF HeldInv
  <2>3. PublishedInv' /\ NoFalseGap'
    BY <1>2 DEF ConnectOk, LiveInv, PublishedInv, NoFalseGap
  <2> QED
    BY <1>c, <2>2, <2>3 DEF LiveInv
<1>3. CASE ConnectRefused \/ ReportFails \/ ClosedError \/ HandlingFails
  BY <1>3, <1>c, FailKeepsLive DEF ConnectRefused, ReportFails, ClosedError, HandlingFails
<1>4. ASSUME NEW s \in Symbols, ReportGap(s) PROVE LiveInv'
  BY <1>4, <1>c, ReportKeepsLive
<1>5. CASE AllReported
  <2>1. Held' = Held
    BY <1>5 DEF AllReported, Held, Received
  <2> QED
    BY <1>5, <1>c, <2>1, QuietKeepsLive DEF AllReported, AfterReport
<1>6. CASE TakeMessage
  BY <1>6, <1>c, HeldWhileHandling, QuietKeepsLive DEF TakeMessage
<1>7. CASE StopNoticed \/ ClosedOk
  <2>1. Held' = {} /\ pc' # "recording"
    BY <1>7, NothingHeld DEF StopNoticed, ClosedOk, CleanReturn
  <2> QED
    BY <1>7, <1>c, <2>1, QuietKeepsLive DEF StopNoticed, ClosedOk, CleanReturn
<1>8. CASE Skip \/ DeadLetter
  BY <1>8, <1>c, HeldWhileHandling, QuietKeepsLive DEF Skip, DeadLetter, Handled
<1>9. CASE Publish
  <2>1. /\ published' = published \cup {current} /\ Held' \subseteq Held
        /\ current \in Held /\ pc = "handling" /\ pc' = "listening"
        /\ UNCHANGED <<last_disconnect_ts, reconnect_ts, gaps, now>>
    BY <1>9, HeldWhileHandling, NoneAssumption DEF Publish, Handled, Held, TypeInv, InHand
  <2>2. last_disconnect_ts = None
    BY <2>1 DEF LiveInv, ConnectionInv
  <2>3. HeldInv' /\ PublishedInv'
    BY <2>1, <2>2 DEF LiveInv, HeldInv, PublishedInv
  <2>4. current.at \in Int /\ current.symbol \in Symbols
    BY <2>1, HeldType DEF Message
  <2>5. \A g \in gaps[current.symbol] : ~(current.at < g.reconnect_time)
    BY <2>1, <2>4, Times DEF LiveInv, HeldInv
  <2>6. NoFalseGap'
    BY <2>1, <2>5 DEF LiveInv, NoFalseGap
  <2> QED
    BY <1>c, <2>3, <2>6 DEF LiveInv
<1>10. now \in Int /\ now <= now
  BY Times
<1>11. CASE Stop \/ SocketEnds \/ LinkDies \/ UNCHANGED vars
  <2>1. Held' = Held
    BY <1>11 DEF Stop, SocketEnds, LinkDies, vars, Held, Received
  <2> QED
    BY <1>11, <1>c, <1>10, <2>1, ArrivalKeepsLive DEF Stop, SocketEnds, LinkDies, vars
<1>12. ASSUME NEW s \in Symbols, NEW k \in Kinds, Send(s, k) PROVE LiveInv'
  BY <1>12, <1>c, <1>10, HeldWhenSent, ArrivalKeepsLive DEF Send
<1>13. CASE Tick
  <2>1. Held' = Held /\ now' \in Int /\ now <= now'
    BY <1>13, Times DEF Tick, Held, Received
  <2> QED
    BY <1>13, <1>c, <2>1, ArrivalKeepsLive DEF Tick
<1> QED
  BY <1>1, <1>2, <1>3, <1>4, <1>5, <1>6, <1>7, <1>8, <1>9, <1>11, <1>12, <1>13
  DEF Next, ClientStep

\* GapInv with the types it needs, for the theorems that build on it.
LEMMA GapInvariant == Spec => [](TypeInv /\ GapInv)
<1>1. Init => TypeInv /\ GapInv
  BY InitType DEF Init, GapInv, GapsInPast, OpenGapInPast, OwedAfterRecords,
                  RecordingFixed, GapsDisjoint
<1>2. TypeInv /\ GapInv /\ [Next]_vars => (TypeInv /\ GapInv)'
  BY NextType, NextGaps
<1> QED
  BY <1>1, <1>2, PTL DEF Spec

\* Nothing that was published live is fetched again for an outage, however
\* errors and reconnects follow each other (lines 335-381).
THEOREM GapsAreTrue == Spec => []NoFalseGap
<1>1. Init => LiveInv
  BY DEF Init, LiveInv, ConnectionInv, HeldInv, PublishedInv, NoFalseGap, Connected, Held,
         Received
<1>2. LiveInv => NoFalseGap
  BY DEF LiveInv
<1> QED
  BY <1>1, <1>2, NextLive, GapInvariant, PTL DEF Spec

-----------------------------------------------------------------------------
(***************************************************************************)
(* Complete gaps.  As long as every outage was timed, a missed message is  *)
(* in a record, in the record that its symbol is owed, or it was missed at *)
(* this very moment, on a connection that has just been closed.            *)
(***************************************************************************)
OpenOutage(m) == last_disconnect_ts # None /\ last_disconnect_ts <= m.at

Owed(m) ==
    pc = "recording" /\ OpenOutage(m) /\ m.at <= reconnect_ts /\ m.symbol \in unreported

JustMissed(m) == link \in Closed /\ m.at = now

OutageInv ==
    /\ pc \in Ended => ~running
    /\ \A m \in missed : m.at <= now
    /\ timing = "exact" /\ pc \in Connected =>
           /\ link \in {"up"} \cup Closed
           /\ \A m \in missed : Reported(m) \/ Owed(m) \/ JustMissed(m)
    /\ timing = "exact" /\ pc \notin Connected \cup Ended =>
           /\ link = "never" \/ last_disconnect_ts # None
           /\ \A m \in missed : Reported(m) \/ OpenOutage(m)

\* Records are never taken back.
LEMMA ReportedStays ==
    ASSUME TypeInv, NEW m \in Message, Reported(m),
           \A s \in Symbols : gaps[s] \subseteq gaps'[s]
    PROVE  Reported(m)'
  BY DEF Reported, Message

\* A step of run() or of the clock outside a connection.
LEMMA AwayKeepsOutage ==
    ASSUME TypeInv, OutageInv, pc \notin Connected \cup Ended, pc' \notin Connected,
           pc' \in Ended => ~running', now' \in Int, now <= now',
           timing' = "exact" => timing = "exact",
           UNCHANGED <<last_disconnect_ts, gaps, missed, link>>
    PROVE  OutageInv'
<1>1. missed \subseteq Message /\ \A m \in missed : m.at \in Int /\ m.at <= now'
  BY Times DEF TypeInv, TypeOK, Message, OutageInv
<1>2. \A m \in missed : /\ Reported(m)' <=> Reported(m)
                        /\ OpenOutage(m)' <=> OpenOutage(m)
  BY DEF Reported, OpenOutage
<1> QED
  BY <1>1, <1>2 DEF OutageInv

\* A step within a connection, which may write a record or pass the time;
\* time that passes while the socket is closed blurs the outage.
LEMMA ConnectedKeepsOutage ==
    ASSUME TypeInv, OutageInv, pc \in Connected, pc' \in Connected, now' \in Int, now <= now',
           timing' = "exact" => timing = "exact" /\ link' \in {"up"} \cup Closed,
           timing' = "exact" /\ link \in Closed => link' = link /\ now' = now,
           \A s \in Symbols : gaps[s] \subseteq gaps'[s],
           \A m \in missed : Owed(m) => Reported(m)' \/ Owed(m)',
           missed' = missed
    PROVE  OutageInv'
<1>1. missed \subseteq Message /\ \A m \in missed : m.at \in Int /\ m.at <= now'
  BY Times DEF TypeInv, TypeOK, Message, OutageInv
<1>2. \A m \in missed : Reported(m) => Reported(m)'
  BY <1>1, ReportedStays
<1>3. timing' = "exact" => \A m \in missed : JustMissed(m) => JustMissed(m)'
  BY DEF JustMissed
<1>4. pc' \notin Ended
  BY DEF Connected, Ended
<1>5. timing' = "exact" => \A m \in missed : Reported(m)' \/ Owed(m)' \/ JustMissed(m)'
  BY <1>2, <1>3 DEF OutageInv
<1> QED
  BY <1>1, <1>4, <1>5 DEF OutageInv

\* An error that is noticed at once opens the outage at the moment of the
\* loss.
LEMMA ErrorKeepsOutage ==
    ASSUME TypeInv, OutageInv, pc = "listening", Fail,
           UNCHANGED <<now, output, history>>
    PROVE  OutageInv'
<1>1. /\ pc' = "backoff" /\ last_disconnect_ts' = now
      /\ UNCHANGED <<gaps, missed, timing, now>>
  BY DEF Fail, RecordDisconnect, output, history
<1>2. missed \subseteq Message /\ now \in Int /\ now # None
  BY Times, NoneAssumption, BoundsAssumption DEF TypeInv, TypeOK
<1>3. \A m \in missed : Reported(m) => Reported(m)'
  BY <1>1 DEF Reported
<1>4. \A m \in missed : JustMissed(m) => OpenOutage(m)'
  BY <1>1, <1>2 DEF JustMissed, OpenOutage
<1>5. \A m \in missed : ~Owed(m)
  BY DEF Owed
<1>6. timing = "exact" => \A m \in missed : Reported(m)' \/ OpenOutage(m)'
  BY <1>3, <1>4, <1>5 DEF OutageInv, Connected
<1> QED
  BY <1>1, <1>2, <1>6 DEF OutageInv, Connected, Ended

\* The reconnect fixes the end of the outage, after all that was missed.
LEMMA ConnectKeepsOutage ==
    ASSUME TypeInv, OutageInv, ConnectOk
    PROVE  OutageInv'
<1>1. /\ pc = "connecting" /\ link' = "up"
      /\ UNCHANGED <<last_disconnect_ts, gaps, missed, timing, now>>
      /\ IF last_disconnect_ts = None
         THEN pc' = "listening"
         ELSE pc' = "recording" /\ reconnect_ts' = now /\ unreported' = Symbols
  BY DEF ConnectOk, output, history
<1>2. missed \subseteq Message
  BY DEF TypeInv, TypeOK
<1>3. \A m \in missed : Reported(m) => Reported(m)'
  BY <1>1 DEF Reported
<1>4. \A m \in missed : OpenOutage(m) => Owed(m)'
  BY <1>1, <1>2 DEF Owed, OpenOutage, OutageInv, Message
<1>5. timing = "exact" => \A m \in missed : Reported(m)' \/ Owed(m)'
  BY <1>1, <1>3, <1>4 DEF OutageInv, Connected, Ended
<1> QED
  BY <1>1, <1>5 DEF OutageInv, Connected, Ended

\* What the record of a symbol covers is reported.
LEMMA ReportKeepsOutage ==
    ASSUME TypeInv, OutageInv, NEW s \in Symbols, ReportGap(s)
    PROVE  OutageInv'
<1>1. /\ pc = "recording" /\ unreported' = unreported \ {s}
      /\ gaps' = [gaps EXCEPT ![s] = @ \cup {GapRecord}]
      /\ UNCHANGED <<pc, last_disconnect_ts, reconnect_ts, link, missed, timing, now>>
  BY DEF ReportGap, wire, history
<1>2. gaps'[s] = gaps[s] \cup {GapRecord} /\ \A t \in Symbols : gaps[t] \subseteq gaps'[t]
  BY <1>1 DEF TypeInv, TypeOK
<1>3. ASSUME NEW m \in missed, Owed(m) PROVE Reported(m)' \/ Owed(m)'
  <2>1. CASE m.symbol = s
    <3>1. GapRecord \in gaps'[m.symbol]
      BY <1>2, <2>1
    <3>2. GapRecord.disconnect_time <= m.at /\ m.at <= GapRecord.reconnect_time
      BY <1>3 DEF Owed, OpenOutage, GapRecord
    <3> QED
      BY <3>1, <3>2 DEF Reported
  <2>2. CASE m.symbol # s
    BY <1>1, <1>3, <2>2 DEF Owed, OpenOutage
  <2> QED
    BY <2>1, <2>2
<1>4. now \in Int /\ now <= now
  BY Times
<1>5. timing = "exact" => link \in {"up"} \cup Closed
  BY <1>1 DEF OutageInv, Connected
<1> QED
  BY <1>1, <1>2, <1>3, <1>4, <1>5, ConnectedKeepsOutage DEF Connected

\* A message that is missed is missed now.
LEMMA SendKeepsOutage ==
    ASSUME TypeInv, GapInv, LiveInv, OutageInv, NEW s \in Symbols, NEW k \in Kinds, Send(s, k)
    PROVE  OutageInv'
<1>1. /\ UNCHANGED <<pc, running, last_disconnect_ts, reconnect_ts, unreported>>
      /\ UNCHANGED <<link, now, gaps, timing>>
      /\ link # "never" /\ pc \notin Ended
  BY DEF Send, client, output
<1>2. PICK m : /\ missed' = missed \/ (link # "up" /\ missed' = missed \cup {m})
               /\ now \in Int /\ m.at = now
  BY Times DEF Send
<1>3. \A x \in missed : /\ Reported(x) => Reported(x)'
                        /\ Owed(x) => Owed(x)'
                        /\ JustMissed(x) => JustMissed(x)'
                        /\ OpenOutage(x) => OpenOutage(x)'
  BY <1>1 DEF Reported, Owed, JustMissed, OpenOutage
<1>4. timing = "exact" /\ pc \in Connected /\ link # "up" => JustMissed(m)'
  BY <1>1, <1>2 DEF OutageInv, JustMissed
<1>5. timing = "exact" /\ pc \notin Connected => OpenOutage(m)'
  BY <1>1, <1>2 DEF OutageInv, OpenOutage, GapInv, OpenGapInPast
<1>6. \A x \in missed' : x.at <= now
  BY <1>1, <1>2 DEF OutageInv
<1>7. timing = "exact" /\ pc \in Connected =>
          \A x \in missed' : Reported(x)' \/ Owed(x)' \/ JustMissed(x)'
  BY <1>2, <1>3, <1>4 DEF OutageInv
<1>8. timing = "exact" /\ pc \notin Connected \cup Ended =>
          \A x \in missed' : Reported(x)' \/ OpenOutage(x)'
  BY <1>2, <1>3, <1>5 DEF OutageInv
<1> QED
  BY <1>1, <1>6, <1>7, <1>8 DEF OutageInv

\* An outage that was not timed needs no account of what it missed.
LEMMA BlurredKeepsOutage ==
    ASSUME TypeInv, OutageInv, timing' # "exact", now' = now,
           pc' \in Ended => ~running',
           \A m \in missed' : m \in missed \/ m \in Held, LiveInv
    PROVE  OutageInv'
  BY DEF OutageInv, LiveInv, HeldInv

LEMMA NextOutage ==
    TypeInv /\ GapInv /\ LiveInv /\ OutageInv /\ [Next]_vars => OutageInv'
<1> SUFFICES ASSUME TypeInv, GapInv, LiveInv, OutageInv, [Next]_vars PROVE OutageInv'
  OBVIOUS
<1> USE DEF wire, output, client, history
<1>0. now \in Int /\ now <= now /\ Abandoned \subseteq Held
  BY Times DEF Abandoned, Held, Received
<1>1. CASE Start \/ Supervise \/ BackoffEnds
  <2>1. /\ pc \notin Connected \cup Ended /\ pc' \notin Connected
        /\ UNCHANGED <<last_disconnect_ts, gaps, missed, link, timing, now>>
    BY <1>1 DEF Start, Supervise, BackoffEnds, Connected, Ended
  <2>2. pc' \in Ended => ~running'
    BY <1>1 DEF Start, Supervise, BackoffEnds, SupervisorGoesOn, Ended, TypeInv, TypeOK
  <2> QED
    BY <1>0, <2>1, <2>2, AwayKeepsOutage
<1>2. CASE ConnectOk
  BY <1>2, ConnectKeepsOutage
<1>3. CASE ConnectRefused
  <2>1. /\ pc = "connecting" /\ pc' = "backoff" /\ last_disconnect_ts' = now
        /\ UNCHANGED <<gaps, missed, now>>
        /\ timing' = IF last_disconnect_ts = None THEN timing ELSE "blurred"
    BY <1>3 DEF ConnectRefused, Fail, RecordDisconnect
  <2>2. now # None
    BY NoneAssumption, BoundsAssumption DEF TypeInv, TypeOK
  <2>3. timing' = "exact" => \A m \in missed : Reported(m)'
    BY <2>1 DEF OutageInv, OpenOutage, Reported, Connected, Ended
  <2> QED
    BY <2>1, <2>2, <2>3 DEF OutageInv, Connected, Ended
<1>4. ASSUME NEW s \in Symbols, ReportGap(s) PROVE OutageInv'
  BY <1>4, ReportKeepsOutage
<1>5. CASE AllReported
  <2>1. /\ pc \in Connected /\ pc' \in Connected /\ unreported = {}
        /\ UNCHANGED <<gaps, missed, link, timing, now>>
    BY <1>5 DEF AllReported, Connected
  <2>2. \A m \in missed : ~Owed(m)
    BY <2>1 DEF Owed
  <2>3. timing = "exact" => link \in {"up"} \cup Closed
    BY <2>1 DEF OutageInv
  <2> QED
    BY <1>0, <2>1, <2>2, <2>3, ConnectedKeepsOutage
<1>6. CASE ReportFails \/ HandlingFails \/ ClosedOk
  <2>1. timing' # "exact" /\ now' = now /\ \A m \in missed' : m \in missed \/ m \in Held
    BY <1>0, <1>6 DEF ReportFails, HandlingFails, ClosedOk
  <2>2. pc' \in Ended => ~running'
    BY <1>6 DEF ReportFails, HandlingFails, ClosedOk, Fail, CleanReturn, Ended
  <2> QED
    BY <2>1, <2>2, BlurredKeepsOutage
<1>7. CASE TakeMessage \/ Publish \/ Skip \/ DeadLetter
  <2>1. /\ pc \in {"listening", "handling"} /\ pc' \in Connected
        /\ UNCHANGED <<gaps, missed, link, timing, now>>
    BY <1>7 DEF TakeMessage, Publish, Skip, DeadLetter, Handled, Connected
  <2>2. \A m \in missed : ~Owed(m)
    BY <2>1 DEF Owed
  <2>3. timing = "exact" => link \in {"up"} \cup Closed
    BY <2>1 DEF OutageInv, Connected
  <2> QED
    BY <1>0, <2>1, <2>2, <2>3, ConnectedKeepsOutage DEF Connected
<1>8. CASE StopNoticed
  <2>1. pc' = "stopped" /\ ~running' /\ UNCHANGED <<missed, now>>
    BY <1>8 DEF StopNoticed, CleanReturn, KeepsListening
  <2> QED
    BY <2>1 DEF OutageInv, Connected, Ended
<1>9. CASE ClosedError
  BY <1>9, ErrorKeepsOutage DEF ClosedError
<1>10. ASSUME UNCHANGED <<pc, last_disconnect_ts, reconnect_ts, unreported, link>>,
              UNCHANGED <<gaps, missed, timing, now>>, running' => running
       PROVE  OutageInv'
  <2>1. \A m \in missed : /\ Reported(m)' <=> Reported(m)
                          /\ Owed(m)' <=> Owed(m)
                          /\ JustMissed(m)' <=> JustMissed(m)
                          /\ OpenOutage(m)' <=> OpenOutage(m)
    BY <1>10 DEF Reported, Owed, JustMissed, OpenOutage
  <2> QED
    BY <1>10, <2>1 DEF OutageInv
<1>11. CASE Stop \/ UNCHANGED vars
  BY <1>10, <1>11 DEF Stop, vars
<1>12. ASSUME NEW s \in Symbols, NEW k \in Kinds, Send(s, k) PROVE OutageInv'
  BY <1>12, SendKeepsOutage
<1>13. CASE SocketEnds \/ LinkDies
  <2>1. /\ UNCHANGED <<pc, running, last_disconnect_ts, reconnect_ts, unreported>>
        /\ UNCHANGED <<gaps, missed, now>>
        /\ link = "up" \/ (link = "silent" /\ SocketEnds)
        /\ timing' = "exact" => timing = "exact" /\ link' \in Closed
    BY <1>13 DEF SocketEnds, LinkDies, Closed
  <2>2. CASE pc \in Connected
    <3>1. \A m \in missed : Owed(m) => Owed(m)'
      BY <2>1 DEF Owed, OpenOutage
    <3>2. timing' = "exact" => link \notin Closed
      BY <2>1 DEF Closed
    <3> QED
      BY <1>0, <2>1, <2>2, <3>1, <3>2, ConnectedKeepsOutage
  <2>3. CASE pc \notin Connected
    <3>1. link # "up"
      BY <2>3 DEF LiveInv, ConnectionInv
    <3>2. \A m \in missed : /\ Reported(m)' <=> Reported(m)
                            /\ OpenOutage(m)' <=> OpenOutage(m)
      BY <2>1 DEF Reported, OpenOutage
    <3> QED
      BY <2>1, <2>3, <3>1, <3>2 DEF OutageInv
  <2> QED
    BY <2>2, <2>3
<1>14. CASE Tick
  <2>1. /\ UNCHANGED <<pc, running, last_disconnect_ts, reconnect_ts, unreported, link>>
        /\ UNCHANGED <<gaps, missed>> /\ now' \in Int /\ now <= now'
        /\ timing' = IF link \in Closed THEN "blurred" ELSE timing
    BY <1>14, Times DEF Tick
  <2>2. CASE pc \in Connected
    <3>1. \A m \in missed : Owed(m) => Owed(m)'
      BY <2>1 DEF Owed, OpenOutage
    <3>2. timing' = "exact" => timing = "exact" /\ link \in {"up"} \cup Closed
      BY <2>1, <2>2 DEF OutageInv
    <3> QED
      BY <2>1, <2>2, <3>1, <3>2, ConnectedKeepsOutage
  <2>3. CASE pc \notin Connected \cup Ended
    BY <2>1, <2>3, AwayKeepsOutage
  <2>4. CASE pc \in Ended
    <3>1. \A m \in missed : m.at \in Int /\ m.at <= now'
      BY <1>0, <2>1 DEF OutageInv, TypeInv, TypeOK, Message
    <3> QED
      BY <2>1, <2>4, <3>1 DEF OutageInv, Connected, Ended
  <2> QED
    BY <2>2, <2>3, <2>4
<1> QED
  BY <1>1, <1>2, <1>3, <1>4, <1>5, <1>6, <1>7, <1>8, <1>9, <1>11, <1>12, <1>13, <1>14
  DEF Next, ClientStep

\* A wanted message that did not get through is in a record, or will be, as
\* long as the client timed its outages (lines 111-135 and 335-381).
THEOREM GapsAreComplete == Spec => []GapsComplete
<1> DEFINE Inv == TypeInv /\ GapInv /\ LiveInv /\ OutageInv
<1>1. Init => Inv
  BY InitType
     DEF Init, GapInv, GapsInPast, OpenGapInPast, OwedAfterRecords, RecordingFixed, GapsDisjoint,
         LiveInv, ConnectionInv, HeldInv, PublishedInv, NoFalseGap, OutageInv, Connected, Ended,
         Held, Received
<1>2. Inv /\ [Next]_vars => Inv'
  BY NextType, NextGaps, NextLive, NextOutage
<1>3. Inv => GapsComplete
  BY DEF OutageInv, GapsComplete, MissedAreKnown, Owed, OpenOutage, JustMissed, Closed
<1> QED
  BY <1>1, <1>2, <1>3, PTL DEF Spec

-----------------------------------------------------------------------------
\* stop() lets the loop finish what it has in hand and begin nothing
\* (lines 95-97, 139-142 and 194-196).
THEOREM StopIsRespected == Spec => StopRespected
<1>1. ASSUME [Next]_vars, ~running, ~running'
      PROVE  /\ pc' = "handling" => pc = "handling"
             /\ pc' = "connecting" => pc = "connecting"
  <2> USE DEF client
  <2>1. CASE Start \/ Supervise \/ BackoffEnds \/ ConnectOk \/ AllReported
    BY <1>1, <2>1 DEF Start, Supervise, BackoffEnds, ConnectOk, AllReported
  <2>2. CASE ConnectRefused \/ ReportFails \/ ClosedError \/ HandlingFails
    BY <2>2 DEF ConnectRefused, ReportFails, ClosedError, HandlingFails, Fail
  <2>3. ASSUME NEW s \in Symbols, ReportGap(s)
        PROVE  pc' = pc
    BY <2>3 DEF ReportGap
  <2>4. CASE TakeMessage \/ StopNoticed \/ ClosedOk
    BY <1>1, <2>4 DEF TakeMessage, StopNoticed, ClosedOk, CleanReturn, KeepsListening
  <2>5. CASE Publish \/ Skip \/ DeadLetter
    BY <2>5 DEF Publish, Skip, DeadLetter, Handled
  <2>6. ASSUME NEW s \in Symbols, NEW k \in Kinds, Send(s, k)
        PROVE  pc' = pc
    BY <2>6 DEF Send
  <2>7. CASE Stop \/ SocketEnds \/ LinkDies \/ Tick \/ UNCHANGED vars
    BY <2>7 DEF Stop, SocketEnds, LinkDies, Tick, vars
  <2> QED
    BY <1>1, <2>1, <2>2, <2>3, <2>4, <2>5, <2>6, <2>7 DEF Next, ClientStep
<1> QED
  BY <1>1, PTL DEF Spec, StopRespected
=============================================================================
