-------------------------- MODULE CleanerLoopProofs --------------------------
\* Proofs about CleanerLoop, for any workers, records, response sizes, trims,
\* deaths, restarts and false positives of the filters.
EXTENDS CleanerLoop, TLAPS, SequenceTheorems, FiniteSetTheorems

\* Where the streams have an entry.
Positions == {p \in Names \X Nat : 1 <= p[2] /\ p[2] <= Len(stream[p[1]])}

EntriesOf(s) ==
    IF s = "gaps" THEN Gap
    ELSE {s} \X (1..(IF s = "trades" THEN Trades ELSE Candles))

Streamed == DOMAIN stream = Names /\ \A s \in Names : stream[s] \in Seq(EntriesOf(s))

Busy == {"row", "clean", "fill", "publish"}

\* A batch names entries that are there, and is not empty while one of its
\* entries is in hand; the candle to be published is a candle.
QueueInv ==
    /\ batch \in [Workers -> Seq(Positions)]
    /\ \A w \in Workers : pc[w] \in Busy => batch[w] # <<>>
    /\ \A w \in Workers : pc[w] = "publish" => hand[w] \in {"klines"} \X (1..Candles)

\* A record that is being cleaned was claimed by that worker alone and has no
\* line yet; a record with a line was claimed.
SilverInv ==
    /\ \A w \in Workers : pc[w] = "clean" =>
          /\ Head(batch[w])[1] \in {"trades", "klines"}
          /\ Entry(w) \in claimed
          /\ silver[Entry(w)] = 0
    /\ \A v, w \in Workers : v # w /\ pc[v] = "clean" /\ pc[w] = "clean" => Entry(v) # Entry(w)
    /\ \A k \in Keys : silver[k] <= 1 /\ (silver[k] > 0 => k \in claimed)

TypeInv == TypeOK /\ QueueInv

-----------------------------------------------------------------------------
(* Streams and batches. *)

LEMMA StreamTypes == TypeOK => Streamed
  BY DEF TypeOK, Streamed, EntriesOf, Names

LEMMA StreamTypesNext ==
  ASSUME Streamed'
  PROVE  /\ DOMAIN stream' = Names
         /\ stream'["trades"] \in Seq({"trades"} \X (1..Trades))
         /\ stream'["klines"] \in Seq({"klines"} \X (1..Candles))
         /\ stream'["gaps"] \in Seq(Gap)
  BY DEF Streamed, EntriesOf, Names

\* A response names entries that are there.
LEMMA NewsPositions ==
  ASSUME TypeOK, NEW w \in Workers, NEW s \in Names
  PROVE  News(w, s) \in Seq(Positions)
<1> DEFINE n == Len(stream[s]) - After(w, s)
           m == IF n < Count THEN n ELSE Count
<1>1. stream[s] \in Seq(EntriesOf(s))
  BY StreamTypes DEF Streamed
<1>2. Len(stream[s]) \in Nat
  BY <1>1
<1>3. trimmed \in Nat
  <2>1. Len(stream["klines"]) \in Nat
    BY StreamTypes DEF Streamed, Names
  <2>2. QED
    BY <2>1 DEF TypeOK
<1>4. After(w, s) \in Nat
  BY <1>2, <1>3 DEF After, TypeOK
<1>5. n \in Int /\ m \in Int /\ m <= n
  BY <1>2, <1>4, BoundsAssumption
<1>6. \A i \in 1..m : <<s, After(w, s) + i>> \in Positions
  BY <1>2, <1>4, <1>5 DEF Positions
<1>7. News(w, s) = [i \in 1..m |-> <<s, After(w, s) + i>>]
  BY DEF News
<1> HIDE DEF n, m
<1>8. CASE m >= 0
  <2>1. m \in Nat
    BY <1>5, <1>8
  <2>2. News(w, s) \in [1..m -> Positions]
    BY <1>6, <1>7
  <2>3. QED
    BY <2>1, <2>2
<1>9. CASE m < 0
  <2>1. 1..m = 1..0
    BY <1>5, <1>9
  <2>2. News(w, s) \in [1..0 -> Positions]
    BY <1>6, <1>7, <2>1
  <2>3. QED
    BY <2>2
<1>10. QED
  BY <1>5, <1>8, <1>9

LEMMA ResponsePositions ==
  ASSUME TypeOK, NEW w \in Workers
  PROVE  Response(w) \in Seq(Positions)
<1>1. /\ News(w, "trades") \in Seq(Positions)
      /\ News(w, "klines") \in Seq(Positions)
      /\ News(w, "gaps") \in Seq(Positions)
  BY NewsPositions DEF Names
<1>2. QED
  BY <1>1 DEF Response

LEMMA Appended ==
  ASSUME NEW S, NEW q \in Seq(S), NEW x \in S
  PROVE  /\ Append(q, x) \in Seq(S)
         /\ Len(q) \in Nat
         /\ Len(Append(q, x)) = Len(q) + 1
         /\ \A i \in 1..Len(q) : Append(q, x)[i] = q[i]
  OBVIOUS

\* XADD: the entries that are there stay, and blocked workers get the new one.
LEMMA AddKeeps ==
  ASSUME TypeInv, NEW s \in Names, NEW e \in EntriesOf(s), Add(s, e)
  PROVE  /\ Streamed'
         /\ Len(stream["klines"]) <= Len(stream'["klines"])
         /\ \A p \in Positions : p \in Positions' /\ stream'[p[1]][p[2]] = stream[p[1]][p[2]]
         /\ batch' \in [Workers -> Seq(Positions')]
         /\ \A w \in Workers : w \notin Blocked => batch'[w] = batch[w]
         /\ \A w \in Blocked : batch'[w] # <<>>
<1>1. Streamed
  BY StreamTypes DEF TypeInv
<1>2. /\ stream' = [stream EXCEPT ![s] = Append(@, e)]
      /\ batch' = [w \in Workers |->
                      IF w \in Blocked THEN <<<<s, Len(stream[s]) + 1>>>> ELSE batch[w]]
  BY DEF Add
<1>3. \A r \in Names : /\ stream[r] \in Seq(EntriesOf(r))
                       /\ stream'[r] = IF r = s THEN Append(stream[r], e) ELSE stream[r]
  BY <1>1, <1>2 DEF Streamed
<1>4. /\ Len(stream[s]) \in Nat
      /\ Len(stream'[s]) = Len(stream[s]) + 1
      /\ \A i \in 1..Len(stream[s]) : stream'[s][i] = stream[s][i]
  <2>1. stream[s] \in Seq(EntriesOf(s)) /\ stream'[s] = Append(stream[s], e)
    BY <1>3
  <2>2. QED
    BY <2>1, Appended
<1>5. Streamed'
  <2>1. ASSUME NEW r \in Names PROVE stream'[r] \in Seq(EntriesOf(r))
    <3>1. CASE r = s
      <4>1. stream[s] \in Seq(EntriesOf(s)) /\ stream'[s] = Append(stream[s], e)
        BY <1>3
      <4>2. QED
        BY <3>1, <4>1, Appended
    <3>2. QED
      BY <1>3, <3>1
  <2>2. QED
    BY <1>1, <1>2, <2>1 DEF Streamed
<1>6. Len(stream["klines"]) <= Len(stream'["klines"])
  <2>1. "klines" \in Names
    BY DEF Names
  <2>2. CASE s = "klines"
    BY <1>4, <2>2
  <2>3. CASE s # "klines"
    <3>1. stream'["klines"] = stream["klines"]
      BY <1>3, <2>1, <2>3
    <3>2. Len(stream["klines"]) \in Nat
      BY <1>3, <2>1
    <3>3. QED
      BY <3>1, <3>2
  <2>4. QED
    BY <2>2, <2>3
<1>7. ASSUME NEW p \in Positions
      PROVE  p \in Positions' /\ stream'[p[1]][p[2]] = stream[p[1]][p[2]]
  <2>1. /\ p \in Names \X Nat
        /\ p[1] \in Names
        /\ p[2] \in 1..Len(stream[p[1]])
    BY DEF Positions
  <2>2. CASE p[1] = s
    BY <1>4, <2>1, <2>2 DEF Positions
  <2>3. CASE p[1] # s
    BY <1>3, <2>1, <2>3 DEF Positions
  <2>4. QED
    BY <2>2, <2>3
<1>8. <<s, Len(stream[s]) + 1>> \in Positions'
  BY <1>4 DEF Positions
<1>9. batch' \in [Workers -> Seq(Positions')]
  <2>1. ASSUME NEW w \in Workers PROVE batch[w] \in Seq(Positions')
    <3>1. batch[w] \in Seq(Positions)
      BY DEF TypeInv, QueueInv
    <3>2. Positions \subseteq Positions'
      BY <1>7
    <3>3. QED
      BY <3>1, <3>2
  <2>2. <<<<s, Len(stream[s]) + 1>>>> \in Seq(Positions')
    BY <1>8
  <2>3. QED
    BY <1>2, <2>1, <2>2
<1>10. \A w \in Blocked : w \in Workers /\ batch'[w] = <<<<s, Len(stream[s]) + 1>>>>
  BY <1>2 DEF Blocked
<1>11. QED
  BY <1>2, <1>5, <1>6, <1>7, <1>9, <1>10

-----------------------------------------------------------------------------
(* Types and batches are kept. *)

LEMMA Tails ==
  ASSUME NEW S, NEW q \in Seq(S), q # <<>>, Tail(q) = <<>>
  PROVE  Len(q) = 1
<1>1. Len(Tail(q)) = Len(q) - 1 /\ Len(q) \in Nat
  BY HeadTailProperties
<1>2. Len(Tail(q)) = 0
  BY EmptySeq
<1>3. QED
  BY <1>1, <1>2

\* The entry in hand, and what is left behind it.
LEMMA InHand ==
  ASSUME TypeInv, NEW w \in Workers, pc[w] \in Busy
  PROVE  /\ Head(batch[w]) \in Positions
         /\ Head(batch[w])[1] \in Names
         /\ Head(batch[w])[2] \in Nat
         /\ Entry(w) \in EntriesOf(Head(batch[w])[1])
         /\ Tail(batch[w]) \in Seq(Positions)
         /\ AfterRow(w) = "read" \/ (AfterRow(w) = "row" /\ Tail(batch[w]) # <<>>)
<1>1. batch[w] \in Seq(Positions) /\ batch[w] # <<>>
  BY DEF TypeInv, QueueInv
<1>2. Head(batch[w]) \in Positions /\ Tail(batch[w]) \in Seq(Positions)
  BY <1>1
<1>3. Len(batch[w]) # 1 => Tail(batch[w]) # <<>>
  BY <1>1, Tails
<1>4. /\ Head(batch[w])[1] \in Names
      /\ Head(batch[w])[2] \in Nat
      /\ Head(batch[w])[2] \in 1..Len(stream[Head(batch[w])[1]])
  BY <1>2 DEF Positions
<1>5. stream[Head(batch[w])[1]] \in Seq(EntriesOf(Head(batch[w])[1]))
  BY <1>4, StreamTypes DEF TypeInv, Streamed
<1>6. Entry(w) \in EntriesOf(Head(batch[w])[1])
  BY <1>4, <1>5 DEF Entry
<1>7. QED
  BY <1>2, <1>3, <1>4, <1>6 DEF AfterRow

\* A step that cleans nothing and takes no record in hand: claims grow, and
\* whoever is cleaning still is, at the same entry.
LEMMA QuietKeepsSilver ==
  ASSUME TypeInv, SilverInv, claimed \subseteq claimed', silver' = silver,
         \A w \in Workers : pc'[w] = "clean" => pc[w] = "clean" /\ batch'[w] = batch[w],
         \A p \in Positions : stream'[p[1]][p[2]] = stream[p[1]][p[2]]
  PROVE  SilverInv'
<1>1. ASSUME NEW w \in Workers, pc'[w] = "clean"
      PROVE  pc[w] = "clean" /\ batch'[w] = batch[w] /\ Entry(w)' = Entry(w)
  <2>1. pc[w] = "clean" /\ batch'[w] = batch[w]
    BY <1>1
  <2>2. Head(batch[w]) \in Positions
    BY <2>1, InHand DEF Busy
  <2>3. QED
    BY <2>1, <2>2 DEF Entry
<1>2. QED
  BY <1>1 DEF SilverInv

LEMMA DataEntries ==
  /\ EntriesOf("trades") = {"trades"} \X (1..Trades)
  /\ EntriesOf("klines") = {"klines"} \X (1..Candles)
  /\ EntriesOf("gaps") = Gap
  /\ EntriesOf("trades") \subseteq Keys
  /\ EntriesOf("klines") \subseteq Keys
  BY DEF EntriesOf, Keys

\* Any XADD of somebody else.
LEMMA IngestKeeps ==
  ASSUME TypeInv, NEW s \in Names, NEW e \in EntriesOf(s), Add(s, e), pc' = Served,
         sent' \in [trades : 0..Trades, klines : 0..Candles], gaps' \in 0..MaxGaps,
         UNCHANGED <<trimmed, offsets, todo, hand, stopping, claimed, silver, filled, seen,
                     deaths, starts, rejects>>
  PROVE  TypeInv' /\ (SilverInv => SilverInv')
<1>1. pc' \in [Workers -> Awaits \cup {"stopped", "dead"}]
  BY DEF TypeInv, TypeOK, Served, Awaits
<1>2. batch' \in [Workers -> Seq(Names \X Nat)]
  <2>1. Positions' \subseteq Names \X Nat
    BY DEF Positions
  <2>2. QED
    BY <2>1, AddKeeps
<1>3. trimmed' \in 0..Len(stream'["klines"])
  <2>1. /\ stream["klines"] \in Seq(EntriesOf("klines"))
        /\ stream'["klines"] \in Seq(EntriesOf("klines"))
    BY StreamTypes, AddKeeps DEF TypeInv, Streamed, Names
  <2>2. Len(stream["klines"]) \in Nat /\ Len(stream'["klines"]) \in Nat
    BY <2>1
  <2>3. Len(stream["klines"]) <= Len(stream'["klines"])
    BY AddKeeps
  <2>4. QED
    BY <2>2, <2>3 DEF TypeInv, TypeOK
<1>4. TypeOK'
  BY <1>1, <1>2, <1>3, AddKeeps, StreamTypesNext DEF TypeInv, TypeOK
<1>5. QueueInv'
  <2>1. ASSUME NEW w \in Workers, pc'[w] \in Busy PROVE batch'[w] # <<>>
    <3>1. CASE w \in Blocked
      BY <3>1, AddKeeps
    <3>2. CASE w \notin Blocked
      BY <2>1, <3>2, AddKeeps DEF TypeInv, QueueInv, Served
    <3>3. QED
      BY <3>1, <3>2
  <2>2. ASSUME NEW w \in Workers, pc'[w] = "publish"
        PROVE  hand'[w] \in {"klines"} \X (1..Candles)
    BY <2>2 DEF TypeInv, QueueInv, Served
  <2>3. QED
    BY <2>1, <2>2, AddKeeps DEF QueueInv
<1>6. ASSUME SilverInv PROVE SilverInv'
  <2>1. ASSUME NEW w \in Workers, pc'[w] = "clean"
        PROVE  pc[w] = "clean" /\ batch'[w] = batch[w]
    <3>1. w \notin Blocked /\ pc[w] = "clean"
      BY <2>1 DEF Served, Blocked
    <3>2. QED
      BY <3>1, AddKeeps
  <2>2. QED
    BY <1>6, <2>1, AddKeeps, QuietKeepsSilver
<1>7. QED
  BY <1>4, <1>5, <1>6 DEF TypeInv

LEMMA SendKeeps ==
  ASSUME TypeInv, NEW s \in {"trades", "klines"}, Send(s)
  PROVE  TypeInv' /\ (SilverInv => SilverInv')
<1>1. sent' = [sent EXCEPT ![s] = @ + 1] /\ sent[s] < (IF s = "trades" THEN Trades ELSE Candles)
  BY DEF Send
<1>2. sent \in [trades : 0..Trades, klines : 0..Candles]
  BY DEF TypeInv, TypeOK
<1>3. /\ sent' \in [trades : 0..Trades, klines : 0..Candles]
      /\ sent'[s] \in 1..(IF s = "trades" THEN Trades ELSE Candles)
  <2>1. CASE s = "trades"
    BY <1>1, <1>2, <2>1, BoundsAssumption
  <2>2. CASE s = "klines"
    BY <1>1, <1>2, <2>2, BoundsAssumption
  <2>3. QED
    BY <2>1, <2>2
<1>4. <<s, sent'[s]>> \in EntriesOf(s) /\ s \in Names
  BY <1>3 DEF EntriesOf, Names
<1>5. QED
  BY <1>3, <1>4, IngestKeeps DEF Send, history, counts, TypeInv, TypeOK

LEMMA SendAgainKeeps ==
  ASSUME TypeInv, NEW s \in {"trades", "klines"}, SendAgain(s)
  PROVE  TypeInv' /\ (SilverInv => SilverInv')
<1>1. s \in Names /\ stream[s] \in Seq(EntriesOf(s))
  BY StreamTypes DEF TypeInv, Streamed, Names
<1>2. PICK i \in 1..Len(stream[s]) : Add(s, stream[s][i])
  BY DEF SendAgain
<1>3. stream[s][i] \in EntriesOf(s)
  BY <1>1, <1>2
<1>4. QED
  BY <1>1, <1>2, <1>3, IngestKeeps DEF SendAgain, history, counts, TypeInv, TypeOK

LEMMA OutageKeeps ==
  ASSUME TypeInv, NEW n \in 1..Candles, Outage(n)
  PROVE  TypeInv' /\ (SilverInv => SilverInv')
<1>1. /\ sent["klines"] \in Nat
      /\ sent["klines"] + n <= Candles
      /\ gaps < MaxGaps /\ gaps' = gaps + 1
  BY DEF Outage, TypeInv, TypeOK
<1>2. [first |-> sent["klines"] + 1, last |-> sent["klines"] + n] \in EntriesOf("gaps")
  BY <1>1, BoundsAssumption DEF EntriesOf, Gap
<1>3. gaps' \in 0..MaxGaps
  BY <1>1, BoundsAssumption DEF TypeInv, TypeOK
<1>4. PICK late \in {0, 1} : sent' = [sent EXCEPT !["klines"] = @ + n - late]
  BY DEF Outage
<1>5. sent' \in [trades : 0..Trades, klines : 0..Candles]
  <2>1. sent["klines"] + n - late \in 0..Candles
    BY <1>1, BoundsAssumption
  <2>2. QED
    BY <1>4, <2>1 DEF TypeInv, TypeOK
<1>6. QED
  BY <1>2, <1>3, <1>5, IngestKeeps DEF Outage, history, Names

\* A step of one worker that leaves the streams alone.
LEMMA QueueKeeps ==
  ASSUME TypeInv, NEW w \in Workers, stream' = stream,
         \A v \in Workers \ {w} : pc'[v] = pc[v] /\ batch'[v] = batch[v] /\ hand'[v] = hand[v],
         batch' \in [Workers -> Seq(Positions)],
         pc'[w] \in Busy => batch'[w] # <<>>,
         pc'[w] = "publish" => hand'[w] \in {"klines"} \X (1..Candles)
  PROVE  QueueInv' /\ batch' \in [Workers -> Seq(Names \X Nat)]
<1>1. Positions' = Positions /\ Positions \subseteq Names \X Nat
  BY DEF Positions
<1>2. batch' \in [Workers -> Seq(Names \X Nat)]
  BY <1>1
<1>3. QED
  BY <1>1, <1>2 DEF TypeInv, QueueInv

\* The worker's turn ends: the offset moves to the entry and the entry goes.
LEMMA AdvanceKeepsType ==
  ASSUME TypeInv, NEW w \in Workers, pc[w] \in Busy, Advance(w),
         batch' = [batch EXCEPT ![w] = Tail(@)], pc' = [pc EXCEPT ![w] = AfterRow(w)],
         silver' \in [Keys -> Nat], rejects' \in 0..MaxRejects,
         UNCHANGED <<todo, hand, stopping, bronze, claimed, sent, filled, gaps, deaths, starts>>
  PROVE  TypeInv'
<1> DEFINE s == Head(batch[w])[1]
           i == Head(batch[w])[2]
<1>1. s \in Names /\ i \in Nat /\ Tail(batch[w]) \in Seq(Positions)
  BY InHand
<1>2. AfterRow(w) = "read" \/ (AfterRow(w) = "row" /\ Tail(batch[w]) # <<>>)
  BY InHand
<1>3. offsets' = [offsets EXCEPT ![w][s] = i] /\ seen' = [seen EXCEPT ![w][s] = @ \cup {i}]
  BY DEF Advance, OffsetAfter
<1>4. batch \in [Workers -> Seq(Positions)] /\ pc \in [Workers -> Awaits \cup {"stopped", "dead"}]
  BY DEF TypeInv, QueueInv, TypeOK
<1>5. batch' \in [Workers -> Seq(Positions)] /\ batch'[w] = Tail(batch[w])
  BY <1>1, <1>4
<1>6. pc' \in [Workers -> Awaits \cup {"stopped", "dead"}] /\ pc'[w] = AfterRow(w)
  BY <1>2, <1>4 DEF Awaits
<1> HIDE DEF s, i
<1>7. QueueInv' /\ batch' \in [Workers -> Seq(Names \X Nat)]
  <2>1. /\ stream' = stream
        /\ \A v \in Workers \ {w} : pc'[v] = pc[v] /\ batch'[v] = batch[v] /\ hand'[v] = hand[v]
    BY <1>4 DEF bronze
  <2>2. pc'[w] # "publish" /\ (pc'[w] \in Busy => batch'[w] # <<>>)
    BY <1>2, <1>5, <1>6 DEF Busy
  <2>3. QED
    BY <1>5, <2>1, <2>2, QueueKeeps
<1>8. /\ offsets' \in [Workers -> [Names -> Nat \cup {Latest}]]
      /\ seen' \in [Workers -> [Names -> SUBSET Nat]]
  <2>1. /\ offsets \in [Workers -> [Names -> Nat \cup {Latest}]]
        /\ seen \in [Workers -> [Names -> SUBSET Nat]]
    BY DEF TypeInv, TypeOK
  <2>2. seen[w][s] \cup {i} \in SUBSET Nat
    BY <1>1, <2>1
  <2>3. QED
    BY <1>1, <1>3, <2>1, <2>2
<1>9. TypeOK'
  <2>1. UNCHANGED bronze
    OBVIOUS
  <2>2. QED
    BY <1>6, <1>7, <1>8, <2>1 DEF TypeInv, TypeOK, bronze
<1>10. QED
  BY <1>7, <1>9 DEF TypeInv

LEMMA ReadKeepsType ==
  ASSUME TypeInv, NEW w \in Workers, Read(w) \/ ReadTimeout(w) \/ Leave(w)
  PROVE  TypeInv'
<1>1. /\ pc' \in [Workers -> Awaits \cup {"stopped", "dead"}]
      /\ pc'[w] \in {"row", "blocked", "read", "stopped"}
      /\ pc'[w] = "row" => Read(w) /\ Response(w) # <<>>
      /\ \A v \in Workers \ {w} : pc'[v] = pc[v]
  BY DEF Read, ReadTimeout, Leave, TypeInv, TypeOK, Awaits
<1>2. /\ batch' \in [Workers -> Seq(Positions)]
      /\ Read(w) => batch'[w] = Response(w)
      /\ \A v \in Workers \ {w} : batch'[v] = batch[v]
  BY ResponsePositions DEF Read, ReadTimeout, Leave, TypeInv, QueueInv
<1>3. UNCHANGED <<offsets, todo, hand, stopping, bronze, claimed, silver, sent, history,
                  counts>>
  BY DEF Read, ReadTimeout, Leave
<1>4. QueueInv' /\ batch' \in [Workers -> Seq(Names \X Nat)]
  BY <1>1, <1>2, <1>3, QueueKeeps DEF bronze, Busy
<1>5. TypeOK'
  BY <1>1, <1>3, <1>4 DEF TypeInv, TypeOK, bronze, history, counts
<1>6. QED
  BY <1>4, <1>5 DEF TypeInv

\* From a row to the claim, the cleaning and the next row.
LEMMA CleanKeepsType ==
  ASSUME TypeInv, NEW w \in Workers, NEW s \in {"trades", "klines"},
         Drop(w, s) \/ Claim(w, s)
  PROVE  TypeInv'
<1>1. CASE Drop(w, s)
  BY <1>1, AdvanceKeepsType DEF Drop, Item, Busy, TypeInv, TypeOK, counts
<1>2. CASE Claim(w, s)
  <2>1. pc[w] = "row" /\ Head(batch[w])[1] = s /\ Entry(w) \in EntriesOf(s)
    BY <1>2, InHand DEF Claim, Item, Busy
  <2>2. Entry(w) \in Keys
    BY <2>1, DataEntries
  <2>3. /\ pc' = [pc EXCEPT ![w] = "clean"]
        /\ claimed' = claimed \cup {Entry(w)}
        /\ UNCHANGED <<offsets, batch, todo, hand, stopping, bronze, silver, sent, history,
                       counts>>
    BY <1>2 DEF Claim, ClaimedWith
  <2>4. TypeOK'
    BY <2>2, <2>3 DEF TypeInv, TypeOK, bronze, history, counts, Awaits
  <2>5. QueueInv'
    <3>1. batch[w] # <<>> /\ batch \in [Workers -> Seq(Positions)]
      BY <2>1 DEF TypeInv, QueueInv, Busy
    <3>2. pc'[w] = "clean" /\ \A v \in Workers \ {w} : pc'[v] = pc[v]
      BY <2>3 DEF TypeInv, TypeOK
    <3>3. QED
      BY <2>3, <3>1, <3>2, QueueKeeps DEF bronze
  <2>6. QED
    BY <2>4, <2>5 DEF TypeInv
<1>3. QED
  BY <1>1, <1>2

LEMMA CleanedKeepsType ==
  ASSUME TypeInv, SilverInv, NEW w \in Workers, Clean(w)
  PROVE  TypeInv'
<1>1. pc[w] = "clean" /\ Head(batch[w])[1] \in {"trades", "klines"}
  BY DEF Clean, SilverInv
<1>2. Entry(w) \in Keys
  BY <1>1, InHand, DataEntries DEF Busy
<1>3. silver' \in [Keys -> Nat]
  BY <1>2 DEF Clean, TypeInv, TypeOK
<1>4. QED
  BY <1>1, <1>3, AdvanceKeepsType DEF Clean, Busy, TypeInv, TypeOK, counts

\* The backfill of a gap event.
LEMMA FillKeepsType ==
  ASSUME TypeInv, NEW w \in Workers, Fill(w)
  PROVE  TypeInv'
<1>1. pc[w] = "row" /\ Head(batch[w])[1] = "gaps" /\ batch[w] # <<>>
  BY DEF Fill, Item, TypeInv, QueueInv, Busy
<1>2. Entry(w) \in Gap
  BY <1>1, InHand, DataEntries DEF Busy
<1>3. CandlesOf(Entry(w)) \subseteq 1..Candles
  BY <1>2, BoundsAssumption DEF CandlesOf, Gap
<1>4. /\ todo' = [todo EXCEPT ![w] = CandlesOf(Entry(w))]
      /\ pc' = [pc EXCEPT ![w] = "fill"]
      /\ UNCHANGED <<offsets, batch, hand, stopping, bronze, claimed, silver, sent, history,
                     counts>>
  BY DEF Fill
<1>5. TypeOK'
  BY <1>3, <1>4 DEF TypeInv, TypeOK, bronze, history, counts, Awaits
<1>6. QueueInv'
  <2>1. pc'[w] = "fill" /\ \A v \in Workers \ {w} : pc'[v] = pc[v]
    BY <1>4 DEF TypeInv, TypeOK
  <2>2. batch \in [Workers -> Seq(Positions)]
    BY DEF TypeInv, QueueInv
  <2>3. QED
    BY <1>1, <1>4, <2>1, <2>2, QueueKeeps DEF bronze
<1>7. QED
  BY <1>5, <1>6 DEF TypeInv

LEMMA FillClaimKeepsType ==
  ASSUME TypeInv, NEW w \in Workers, FillClaim(w)
  PROVE  TypeInv'
<1>1. PICK c \in todo[w] :
         /\ todo' = [todo EXCEPT ![w] = @ \ {c}]
         /\ \/ UNCHANGED <<claimed, hand, pc>>
            \/ /\ claimed' = claimed \cup {<<"klines", c>>}
               /\ hand' = [hand EXCEPT ![w] = <<"klines", c>>]
               /\ pc' = [pc EXCEPT ![w] = "publish"]
  BY DEF FillClaim, ClaimedWith
<1>2. /\ pc[w] = "fill"
      /\ UNCHANGED <<offsets, batch, stopping, bronze, silver, sent, history, counts>>
  BY DEF FillClaim
<1>3. <<"klines", c>> \in {"klines"} \X (1..Candles) /\ <<"klines", c>> \in Keys
  BY <1>1 DEF TypeInv, TypeOK, Keys
<1>4. TypeOK'
  <2>1. todo' \in [Workers -> SUBSET (1..Candles)]
    BY <1>1 DEF TypeInv, TypeOK
  <2>2. CASE UNCHANGED <<claimed, hand, pc>>
    BY <1>2, <2>1, <2>2 DEF TypeInv, TypeOK, bronze, history, counts
  <2>3. CASE /\ claimed' = claimed \cup {<<"klines", c>>}
             /\ hand' = [hand EXCEPT ![w] = <<"klines", c>>]
             /\ pc' = [pc EXCEPT ![w] = "publish"]
    <3>1. claimed' \subseteq Keys
      BY <1>3, <2>3 DEF TypeInv, TypeOK
    <3>2. hand' \in [Workers -> Keys \cup {None}]
      BY <1>3, <2>3 DEF TypeInv, TypeOK
    <3>3. pc' \in [Workers -> Awaits \cup {"stopped", "dead"}]
      BY <2>3 DEF TypeInv, TypeOK, Awaits
    <3>4. QED
      BY <1>2, <2>1, <3>1, <3>2, <3>3 DEF TypeInv, TypeOK, bronze, history, counts
  <2>4. QED
    BY <1>1, <2>2, <2>3
<1>5. QueueInv'
  <2>1. batch[w] # <<>> /\ batch \in [Workers -> Seq(Positions)]
    BY <1>2 DEF TypeInv, QueueInv, Busy
  <2>2. \A v \in Workers \ {w} : pc'[v] = pc[v] /\ hand'[v] = hand[v]
    BY <1>1 DEF TypeInv, TypeOK
  <2>3. pc'[w] = "publish" => hand'[w] \in {"klines"} \X (1..Candles)
    BY <1>1, <1>2, <1>3 DEF TypeInv, TypeOK
  <2>4. QED
    BY <1>2, <2>1, <2>2, <2>3, QueueKeeps DEF bronze
<1>6. QED
  BY <1>4, <1>5 DEF TypeInv

LEMMA FillPublishKeepsType ==
  ASSUME TypeInv, NEW w \in Workers, FillPublish(w)
  PROVE  TypeInv'
<1>1. /\ pc[w] = "publish" /\ Add("klines", hand[w])
      /\ trimmed' \in MayTrim \cup {trimmed}
      /\ filled' = filled \cup {hand[w][2]}
      /\ hand' = [hand EXCEPT ![w] = None]
      /\ pc' = [Served EXCEPT ![w] = "fill"]
      /\ UNCHANGED <<offsets, todo, stopping, claimed, silver, sent, seen, counts>>
  BY DEF FillPublish
<1>2. hand[w] \in EntriesOf("klines") /\ "klines" \in Names
  BY <1>1, DataEntries DEF TypeInv, QueueInv, Names
<1>3. /\ Streamed'
      /\ Len(stream["klines"]) <= Len(stream'["klines"])
      /\ batch' \in [Workers -> Seq(Positions')]
      /\ \A v \in Workers : v \notin Blocked => batch'[v] = batch[v]
      /\ \A v \in Blocked : batch'[v] # <<>>
  BY <1>1, <1>2, AddKeeps
<1>4. trimmed' \in 0..Len(stream'["klines"])
  <2>1. /\ stream["klines"] \in Seq(EntriesOf("klines"))
        /\ stream'["klines"] \in Seq(EntriesOf("klines"))
    BY <1>2, <1>3, StreamTypes DEF TypeInv, Streamed
  <2>2. Len(stream["klines"]) \in Nat /\ Len(stream'["klines"]) \in Nat
    BY <2>1
  <2>3. trimmed \in 0..Len(stream["klines"])
    BY DEF TypeInv, TypeOK
  <2>4. trimmed' = trimmed \/ trimmed' \in trimmed .. Len(stream'["klines"]) - MaxLen
    BY <1>1 DEF MayTrim
  <2>5. MaxLen \in Nat
    BY BoundsAssumption
  <2>6. QED
    BY <1>3, <2>2, <2>3, <2>4, <2>5
<1>5. filled' \subseteq 1..Candles
  <2>1. hand[w] \in {"klines"} \X (1..Candles)
    BY <1>1 DEF TypeInv, QueueInv
  <2>2. hand[w][2] \in 1..Candles /\ filled \subseteq 1..Candles
    BY <2>1 DEF TypeInv, TypeOK
  <2>3. QED
    BY <1>1, <2>2
<1>6. batch' \in [Workers -> Seq(Names \X Nat)]
  <2>1. Positions' \subseteq Names \X Nat
    BY DEF Positions
  <2>2. QED
    BY <1>3, <2>1
<1>7. pc' \in [Workers -> Awaits \cup {"stopped", "dead"}]
  BY <1>1 DEF TypeInv, TypeOK, Served, Awaits
<1>8. TypeOK'
  BY <1>1, <1>3, <1>4, <1>5, <1>6, <1>7, StreamTypesNext DEF TypeInv, TypeOK, counts
<1>9. QueueInv'
  <2>1. w \notin Blocked
    BY <1>1 DEF Blocked
  <2>2. ASSUME NEW v \in Workers, pc'[v] \in Busy PROVE batch'[v] # <<>>
    <3>1. CASE v \in Blocked
      BY <1>3, <3>1
    <3>2. CASE v \notin Blocked
      <4>1. pc[v] \in Busy
        BY <1>1, <2>2, <3>2 DEF Served, Busy
      <4>2. QED
        BY <1>3, <3>2, <4>1 DEF TypeInv, QueueInv
    <3>3. QED
      BY <3>1, <3>2
  <2>3. ASSUME NEW v \in Workers, pc'[v] = "publish"
        PROVE  hand'[v] \in {"klines"} \X (1..Candles)
    <3>1. v # w /\ pc[v] = "publish"
      BY <1>1, <2>3 DEF Served
    <3>2. hand'[v] = hand[v]
      BY <1>1, <3>1 DEF TypeInv, TypeOK
    <3>3. QED
      BY <3>1, <3>2 DEF TypeInv, QueueInv
  <2>4. QED
    BY <1>3, <2>2, <2>3 DEF QueueInv
<1>10. QED
  BY <1>8, <1>9 DEF TypeInv

LEMMA LifeKeepsType ==
  ASSUME TypeInv, NEW w \in Workers, Stop(w) \/ Die(w) \/ Restart(w)
  PROVE  TypeInv'
<1>1. CASE Stop(w)
  <2>1. QueueInv'
    BY <1>1 DEF Stop, TypeInv, QueueInv, Positions, bronze
  <2>2. QED
    BY <1>1, <2>1 DEF Stop, TypeInv, TypeOK, bronze, history, counts
<1>2. CASE Die(w)
  <2>1. deaths' \in 0..MaxDeaths
    BY <1>2, BoundsAssumption DEF Die, TypeInv, TypeOK
  <2>2. <<>> \in Seq(Positions) /\ batch \in [Workers -> Seq(Positions)]
    BY EmptySeq DEF TypeInv, QueueInv
  <2>3. batch' \in [Workers -> Seq(Positions)] /\ batch'[w] = <<>>
    BY <1>2, <2>2 DEF Die
  <2>4. QueueInv' /\ batch' \in [Workers -> Seq(Names \X Nat)]
    <3>1. /\ pc'[w] = "dead"
          /\ stream' = stream
          /\ \A v \in Workers \ {w} : pc'[v] = pc[v] /\ batch'[v] = batch[v] /\ hand'[v] = hand[v]
      BY <1>2, <2>2 DEF Die, TypeInv, TypeOK, bronze
    <3>2. QED
      BY <2>3, <3>1, QueueKeeps DEF Busy
  <2>5. TypeOK'
    BY <1>2, <2>1, <2>4 DEF Die, TypeInv, TypeOK, bronze, history
  <2>6. QED
    BY <2>4, <2>5 DEF TypeInv
<1>3. CASE Restart(w)
  <2>1. starts' \in 0..MaxStarts
    BY <1>3, BoundsAssumption DEF Restart, TypeInv, TypeOK
  <2>2. /\ pc' \in [Workers -> Awaits \cup {"stopped", "dead"}]
        /\ pc'[w] = "read" /\ \A v \in Workers \ {w} : pc'[v] = pc[v]
    BY <1>3 DEF Restart, TypeInv, TypeOK, Awaits
  <2>3. QueueInv'
    BY <1>3, <2>2, QueueKeeps DEF Restart, TypeInv, QueueInv, bronze, Busy
  <2>4. TypeOK'
    BY <1>3, <2>1, <2>2 DEF Restart, TypeInv, TypeOK, bronze
  <2>5. QED
    BY <2>3, <2>4 DEF TypeInv
<1>4. QED
  BY <1>1, <1>2, <1>3

LEMMA FillDoneKeepsType ==
  ASSUME TypeInv, NEW w \in Workers, FillDone(w)
  PROVE  TypeInv'
  BY AdvanceKeepsType DEF FillDone, Busy, TypeInv, TypeOK, counts

LEMMA RejectKeepsType ==
  ASSUME TypeInv, NEW w \in Workers, Reject(w) \/ FillReject(w)
  PROVE  TypeInv'
<1>1. rejects' \in 0..MaxRejects
  <2>1. rejects < MaxRejects /\ rejects' = rejects + 1
    BY DEF Reject, FillReject
  <2>2. rejects \in 0..MaxRejects
    BY DEF TypeInv, TypeOK
  <2>3. QED
    BY <2>1, <2>2, BoundsAssumption
<1>2. CASE Reject(w)
  BY <1>1, <1>2, AdvanceKeepsType DEF Reject, Busy, TypeInv, TypeOK
<1>3. CASE FillReject(w)
  <2>1. /\ pc[w] = "publish"
        /\ pc' = [pc EXCEPT ![w] = "fill"]
        /\ hand' = [hand EXCEPT ![w] = None]
        /\ UNCHANGED <<offsets, batch, todo, stopping, bronze, claimed, silver, sent, history,
                       gaps, deaths, starts>>
    BY <1>3 DEF FillReject
  <2>2. TypeOK'
    BY <1>1, <2>1 DEF TypeInv, TypeOK, bronze, history, Awaits
  <2>3. /\ pc'[w] = "fill" /\ batch[w] # <<>> /\ batch \in [Workers -> Seq(Positions)]
        /\ \A v \in Workers \ {w} : pc'[v] = pc[v] /\ hand'[v] = hand[v]
    BY <2>1 DEF TypeInv, TypeOK, QueueInv, Busy
  <2>4. QueueInv'
    BY <2>1, <2>3, QueueKeeps DEF bronze
  <2>5. QED
    BY <2>2, <2>4 DEF TypeInv
<1>4. QED
  BY <1>2, <1>3

LEMMA InitType == Init => TypeInv
<1> SUFFICES ASSUME Init PROVE TypeInv
  OBVIOUS
<1>1. /\ <<>> \in Seq(Positions) /\ <<>> \in Seq(Names \X Nat) /\ Len(<<>>) = 0
      /\ <<>> \in Seq({"trades"} \X (1..Trades)) /\ <<>> \in Seq({"klines"} \X (1..Candles))
      /\ <<>> \in Seq(Gap)
  BY EmptySeq
<1>2. TypeOK
  BY <1>1, BoundsAssumption DEF Init, TypeOK, Awaits, Names
<1>3. QueueInv
  BY <1>1 DEF Init, QueueInv, Busy
<1>4. QED
  BY <1>2, <1>3 DEF TypeInv

LEMMA NextType == TypeInv /\ SilverInv /\ [Next]_vars => TypeInv'
<1> SUFFICES ASSUME TypeInv, SilverInv, [Next]_vars PROVE TypeInv'
  OBVIOUS
<1>1. CASE Ingest
  BY <1>1, SendKeeps, SendAgainKeeps, OutageKeeps DEF Ingest
<1>2. ASSUME NEW w \in Workers, Step(w) PROVE TypeInv'
  BY <1>2, ReadKeepsType, CleanKeepsType, CleanedKeepsType, FillKeepsType,
     FillClaimKeepsType, FillPublishKeepsType, FillDoneKeepsType DEF Step
<1>3. ASSUME NEW w \in Workers, Fault(w) PROVE TypeInv'
  BY <1>3, LifeKeepsType, RejectKeepsType DEF Fault
<1>4. CASE UNCHANGED vars
  BY <1>4 DEF TypeInv, TypeOK, QueueInv, Positions, vars, worker, bronze, history, counts
<1>5. QED
  BY <1>1, <1>2, <1>3, <1>4 DEF Next

-----------------------------------------------------------------------------
(* No record is cleaned twice. *)

\* The turn of one worker, while the streams stay.
LEMMA StepKeepsSilver ==
  ASSUME TypeInv, SilverInv, NEW w \in Workers, stream' = stream, silver' = silver,
         claimed \subseteq claimed', pc'[w] # "clean",
         \A v \in Workers \ {w} : pc'[v] = pc[v] /\ batch'[v] = batch[v]
  PROVE  SilverInv'
  BY QuietKeepsSilver

LEMMA ReadKeepsSilver ==
  ASSUME TypeInv, SilverInv, NEW w \in Workers,
         \/ Read(w) \/ ReadTimeout(w) \/ Leave(w) \/ Fill(w) \/ FillDone(w)
         \/ Reject(w) \/ FillReject(w)
         \/ \E s \in {"trades", "klines"} : Drop(w, s)
  PROVE  SilverInv'
<1>1. /\ pc' \in {[pc EXCEPT ![w] = x] : x \in {"read", "blocked", "row", "stopped", "fill"}}
      /\ batch' = batch \/ \E q : batch' = [batch EXCEPT ![w] = q]
      /\ stream' = stream /\ silver' = silver /\ claimed' = claimed
  BY DEF Read, ReadTimeout, Leave, Fill, FillDone, Reject, FillReject, Drop, AfterRow, bronze
<1>2. pc'[w] # "clean" /\ \A v \in Workers \ {w} : pc'[v] = pc[v]
  BY <1>1 DEF TypeInv, TypeOK
<1>3. \A v \in Workers \ {w} : batch'[v] = batch[v]
  BY <1>1 DEF TypeInv, TypeOK
<1>4. QED
  BY <1>1, <1>2, <1>3, StepKeepsSilver

LEMMA FillKeepsSilver ==
  ASSUME TypeInv, SilverInv, NEW w \in Workers, FillClaim(w) \/ FillPublish(w)
  PROVE  SilverInv'
<1>1. CASE FillClaim(w)
  <2>1. /\ pc[w] = "fill" /\ (pc' = pc \/ pc' = [pc EXCEPT ![w] = "publish"])
        /\ claimed \subseteq claimed'
        /\ batch' = batch /\ stream' = stream /\ silver' = silver
    BY <1>1 DEF FillClaim, ClaimedWith, bronze
  <2>2. pc'[w] # "clean" /\ \A v \in Workers \ {w} : pc'[v] = pc[v]
    BY <2>1 DEF TypeInv, TypeOK
  <2>3. QED
    BY <2>1, <2>2, StepKeepsSilver
<1>2. CASE FillPublish(w)
  <2>1. /\ pc[w] = "publish" /\ Add("klines", hand[w])
        /\ pc' = [Served EXCEPT ![w] = "fill"]
        /\ claimed' = claimed /\ silver' = silver
    BY <1>2 DEF FillPublish
  <2>2. hand[w] \in EntriesOf("klines") /\ "klines" \in Names
    BY <2>1, DataEntries DEF TypeInv, QueueInv, Names
  <2>3. ASSUME NEW v \in Workers, pc'[v] = "clean"
        PROVE  pc[v] = "clean" /\ batch'[v] = batch[v]
    <3>1. v \notin Blocked /\ pc[v] = "clean"
      BY <2>1, <2>3 DEF Served, Blocked
    <3>2. QED
      BY <2>1, <2>2, <3>1, AddKeeps
  <2>4. QED
    BY <2>1, <2>2, <2>3, AddKeeps, QuietKeepsSilver
<1>3. QED
  BY <1>1, <1>2

\* The record was not claimed, so nobody else has it in hand and it has no line.
LEMMA ClaimKeepsSilver ==
  ASSUME TypeInv, SilverInv, NEW w \in Workers, NEW s \in {"trades", "klines"}, Claim(w, s)
  PROVE  SilverInv'
<1>1. /\ pc[w] = "row" /\ Head(batch[w])[1] = s /\ Entry(w) \notin claimed
      /\ claimed' = claimed \cup {Entry(w)}
      /\ pc' = [pc EXCEPT ![w] = "clean"]
      /\ batch' = batch /\ stream' = stream /\ silver' = silver
  BY DEF Claim, Item, IsDuplicate, ClaimedWith, bronze
<1>2. Entry(w) \in Keys
  BY <1>1, InHand, DataEntries DEF Busy
<1>3. \A v \in Workers : Entry(v)' = Entry(v)
  BY <1>1 DEF Entry
<1>4. \A v \in Workers \ {w} : pc'[v] = pc[v]
  BY <1>1
<1>5. silver[Entry(w)] = 0
  BY <1>1, <1>2 DEF SilverInv, TypeInv, TypeOK
<1>6. \A v \in Workers \ {w} : pc[v] = "clean" => Entry(v) # Entry(w)
  BY <1>1 DEF SilverInv
<1>7. QED
  BY <1>1, <1>3, <1>4, <1>5, <1>6 DEF SilverInv

\* The worker alone had the record, which gets its first line.
LEMMA CleanKeepsSilver ==
  ASSUME TypeInv, SilverInv, NEW w \in Workers, Clean(w)
  PROVE  SilverInv'
<1>1. /\ pc[w] = "clean"
      /\ silver' = [silver EXCEPT ![Entry(w)] = @ + 1]
      /\ pc' = [pc EXCEPT ![w] = AfterRow(w)]
      /\ batch' = [batch EXCEPT ![w] = Tail(@)]
      /\ stream' = stream /\ claimed' = claimed
  BY DEF Clean, bronze
<1>2. Head(batch[w])[1] \in {"trades", "klines"} /\ Entry(w) \in claimed /\ silver[Entry(w)] = 0
  BY <1>1 DEF SilverInv
<1>3. Entry(w) \in Keys
  BY <1>1, <1>2, InHand, DataEntries DEF Busy
<1>4. AfterRow(w) # "clean"
  BY DEF AfterRow
<1>5. pc'[w] # "clean" /\ \A v \in Workers \ {w} : pc'[v] = pc[v] /\ batch'[v] = batch[v]
  BY <1>1, <1>4 DEF TypeInv, TypeOK
<1>6. \A v \in Workers \ {w} : Entry(v)' = Entry(v)
  BY <1>1, <1>5 DEF Entry
<1>7. silver \in [Keys -> Nat]
  BY DEF TypeInv, TypeOK
<1>8. silver'[Entry(w)] = 1 /\ \A k \in Keys : k # Entry(w) => silver'[k] = silver[k]
  BY <1>1, <1>2, <1>3, <1>7
<1>9. ASSUME NEW v \in Workers, pc'[v] = "clean"
      PROVE  v # w /\ pc[v] = "clean" /\ Entry(v)' = Entry(v) /\ silver'[Entry(v)] = 0
             /\ batch'[v] = batch[v]
  <2>1. v # w /\ pc[v] = "clean" /\ batch'[v] = batch[v]
    BY <1>5, <1>9
  <2>2. Entry(v) # Entry(w) /\ silver[Entry(v)] = 0 /\ Head(batch[v])[1] \in {"trades", "klines"}
    BY <1>1, <2>1 DEF SilverInv
  <2>3. Entry(v) \in Keys
    BY <2>1, <2>2, InHand, DataEntries DEF Busy
  <2>4. QED
    BY <1>6, <1>8, <2>1, <2>2, <2>3
<1>10. \A k \in Keys : silver'[k] <= 1 /\ (silver'[k] > 0 => k \in claimed')
  BY <1>1, <1>2, <1>8 DEF SilverInv
<1>11. QED
  BY <1>1, <1>9, <1>10 DEF SilverInv

LEMMA LifeKeepsSilver ==
  ASSUME TypeInv, SilverInv, NEW w \in Workers, Stop(w) \/ Die(w) \/ Restart(w)
  PROVE  SilverInv'
<1>1. /\ stream' = stream /\ claimed' = claimed /\ silver' = silver
      /\ pc' = pc \/ pc' = [pc EXCEPT ![w] = "dead"] \/ pc' = [pc EXCEPT ![w] = "read"]
      /\ batch' = batch \/ (batch' = [batch EXCEPT ![w] = <<>>] /\ pc' = [pc EXCEPT ![w] = "dead"])
  BY DEF Stop, Die, Restart, bronze
<1>2. \A v \in Workers : pc'[v] = "clean" => pc[v] = "clean" /\ batch'[v] = batch[v]
  BY <1>1 DEF TypeInv, TypeOK
<1>3. QED
  BY <1>1, <1>2, QuietKeepsSilver

LEMMA InitSilver == Init => SilverInv
  BY DEF Init, SilverInv

LEMMA NextSilver == TypeInv /\ SilverInv /\ [Next]_vars => SilverInv'
<1> SUFFICES ASSUME TypeInv, SilverInv, [Next]_vars PROVE SilverInv'
  OBVIOUS
<1>1. CASE Ingest
  BY <1>1, SendKeeps, SendAgainKeeps, OutageKeeps DEF Ingest
<1>2. ASSUME NEW w \in Workers, Step(w) PROVE SilverInv'
  BY <1>2, ReadKeepsSilver, FillKeepsSilver, ClaimKeepsSilver, CleanKeepsSilver DEF Step
<1>3. ASSUME NEW w \in Workers, Fault(w) PROVE SilverInv'
  BY <1>3, LifeKeepsSilver, ReadKeepsSilver DEF Fault
<1>4. CASE UNCHANGED vars
  BY <1>4 DEF SilverInv, Entry, vars, worker, bronze
<1>5. QED
  BY <1>1, <1>2, <1>3, <1>4 DEF Next

LEMMA Invariance == Spec => [](TypeInv /\ SilverInv)
  BY InitType, InitSilver, NextType, NextSilver, PTL DEF Spec

\* Type correctness of the loop: a batch names entries of a stream, whatever
\* is added, trimmed or lost meanwhile (_run_cleaner_loop).
THEOREM TypeCorrect == Spec => []TypeOK
<1>1. TypeInv => TypeOK
  BY DEF TypeInv
<1>2. QED
  BY <1>1, Invariance, PTL

\* A record gets at most one line in Silver, whatever the number of workers,
\* their crashes and restarts, and the entries written again (process_trade
\* and process_kline begin with SET NX).
THEOREM CleanedOnce == Spec => []SilverOnce
<1>1. SilverInv => SilverOnce
  BY DEF SilverInv, SilverOnce
<1>2. QED
  BY <1>1, Invariance, PTL

-----------------------------------------------------------------------------
(* What deaths and false positives can cost.                               *)

\* The records that a worker has claimed and not yet passed on.
Holders == {w \in Workers : pc[w] \in {"clean", "publish"}}

KeyOf(w) == IF pc[w] = "clean" THEN Entry(w) ELSE hand[w]

\* A claimed record that is nowhere: no Silver line, not published by a
\* backfill, in no worker's hands.
Abandoned ==
    {k \in claimed : /\ silver[k] = 0
                     /\ ~(k[1] = "klines" /\ k[2] \in filled)
                     /\ \A w \in Holders : KeyOf(w) # k}

Costs == deaths + rejects

\* Only a death or a false positive abandons a record, and no more than one.
LossInv ==
    /\ IsFiniteSet(Holders)
    /\ IsFiniteSet(Abandoned)
    /\ Cardinality(Abandoned) <= Costs

LEMMA CostsType ==
  ASSUME TypeInv
  PROVE  Costs \in Nat
  BY DEF Costs, TypeInv, TypeOK

\* Every XADD of the WebSocket client.
LEMMA IngestAdds ==
  ASSUME TypeInv, Ingest
  PROVE  /\ \E s \in Names : \E e \in EntriesOf(s) : Add(s, e)
         /\ pc' = Served
         /\ UNCHANGED <<trimmed, offsets, todo, hand, stopping, claimed, silver, filled, seen,
                        deaths, rejects>>
<1>1. ASSUME NEW s \in {"trades", "klines"}, Send(s)
      PROVE  s \in Names /\ \E e \in EntriesOf(s) : Add(s, e)
  <2>1. sent' = [sent EXCEPT ![s] = @ + 1] /\ sent[s] < (IF s = "trades" THEN Trades ELSE Candles)
    BY <1>1 DEF Send
  <2>2. sent \in [trades : 0..Trades, klines : 0..Candles]
    BY DEF TypeInv, TypeOK
  <2>3. sent'[s] \in 1..(IF s = "trades" THEN Trades ELSE Candles)
    <3>1. CASE s = "trades"
      BY <2>1, <2>2, <3>1, BoundsAssumption
    <3>2. CASE s = "klines"
      BY <2>1, <2>2, <3>2, BoundsAssumption
    <3>3. QED
      BY <1>1, <3>1, <3>2
  <2>4. <<s, sent'[s]>> \in EntriesOf(s) /\ s \in Names
    BY <1>1, <2>3 DEF EntriesOf, Names
  <2>5. QED
    BY <1>1, <2>4 DEF Send
<1>2. ASSUME NEW s \in {"trades", "klines"}, SendAgain(s)
      PROVE  s \in Names /\ \E e \in EntriesOf(s) : Add(s, e)
  <2>1. s \in Names /\ stream[s] \in Seq(EntriesOf(s))
    BY <1>2, StreamTypes DEF TypeInv, Streamed, Names
  <2>2. PICK i \in 1..Len(stream[s]) : Add(s, stream[s][i])
    BY <1>2 DEF SendAgain
  <2>3. stream[s][i] \in EntriesOf(s)
    BY <2>1, <2>2
  <2>4. QED
    BY <2>1, <2>2, <2>3
<1>3. ASSUME NEW n \in 1..Candles, Outage(n)
      PROVE  "gaps" \in Names /\ \E e \in EntriesOf("gaps") : Add("gaps", e)
  <2>1. sent["klines"] \in Nat /\ sent["klines"] + n <= Candles
    BY <1>3 DEF Outage, TypeInv, TypeOK
  <2>2. [first |-> sent["klines"] + 1, last |-> sent["klines"] + n] \in EntriesOf("gaps")
    BY <1>3, <2>1, BoundsAssumption DEF EntriesOf, Gap
  <2>3. QED
    BY <1>3, <2>2 DEF Outage, Names
<1>4. /\ pc' = Served
      /\ UNCHANGED <<trimmed, offsets, todo, hand, stopping, claimed, silver, filled, seen,
                     deaths, rejects>>
  BY DEF Ingest, Send, SendAgain, Outage, history, counts
<1>5. QED
  BY <1>1, <1>2, <1>3, <1>4 DEF Ingest

\* A record in hand is the same record until it is passed on.
LEMMA StaysInHand ==
  ASSUME TypeInv, NEW v \in Workers, v \in Holders,
         pc'[v] = pc[v], batch'[v] = batch[v], hand'[v] = hand[v],
         \A p \in Positions : stream'[p[1]][p[2]] = stream[p[1]][p[2]]
  PROVE  v \in Holders' /\ KeyOf(v)' = KeyOf(v)
<1>1. pc[v] \in {"clean", "publish"}
  BY DEF Holders
<1>2. Head(batch[v]) \in Positions
  BY <1>1, InHand DEF Busy
<1>3. Entry(v)' = Entry(v)
  BY <1>2 DEF Entry
<1>4. QED
  BY <1>1, <1>3 DEF Holders, KeyOf

\* A step of w abandons nothing if it claims only what it then has in hand,
\* and gives up what it has in hand only to Silver or to the stream.
LEMMA HandsOver ==
  ASSUME TypeInv, LossInv, NEW w,
         \A v \in Workers \ {w} :
            /\ v \in Holders => pc'[v] = pc[v] /\ batch'[v] = batch[v] /\ hand'[v] = hand[v]
            /\ pc'[v] \in {"clean", "publish"} => v \in Holders,
         \A p \in Positions : stream'[p[1]][p[2]] = stream[p[1]][p[2]],
         \A k \in Keys : silver'[k] = 0 => silver[k] = 0,
         filled \subseteq filled', Costs' = Costs,
         \A k \in claimed' : k \in claimed \/ (w \in Holders' /\ KeyOf(w)' = k),
         w \in Holders => \/ w \in Holders' /\ KeyOf(w)' = KeyOf(w)
                          \/ silver'[KeyOf(w)] # 0
                          \/ KeyOf(w)[1] = "klines" /\ KeyOf(w)[2] \in filled'
  PROVE  LossInv'
<1>1. Abandoned' \subseteq Abandoned
  <2> SUFFICES ASSUME NEW k \in Abandoned' PROVE k \in Abandoned
    OBVIOUS
  <2>1. /\ k \in claimed' /\ silver'[k] = 0 /\ ~(k[1] = "klines" /\ k[2] \in filled')
        /\ \A v \in Holders' : KeyOf(v)' # k
    BY DEF Abandoned
  <2>2. k \in claimed /\ k \in Keys
    BY <2>1 DEF TypeInv, TypeOK
  <2>3. silver[k] = 0 /\ ~(k[1] = "klines" /\ k[2] \in filled)
    BY <2>1, <2>2
  <2>4. ASSUME NEW v \in Holders PROVE KeyOf(v) # k
    <3>1. CASE v = w
      BY <2>1, <2>4, <3>1
    <3>2. CASE v # w
      <4>1. v \in Workers
        BY <2>4 DEF Holders
      <4>2. v \in Holders' /\ KeyOf(v)' = KeyOf(v)
        BY <2>4, <3>2, <4>1, StaysInHand
      <4>3. QED
        BY <2>1, <4>2
    <3>3. QED
      BY <3>1, <3>2
  <2>5. QED
    BY <2>2, <2>3, <2>4 DEF Abandoned
<1>2. IsFiniteSet(Holders')
  <2>1. Holders' \subseteq Holders \cup {w}
    BY DEF Holders
  <2>2. IsFiniteSet(Holders \cup {w})
    BY FS_AddElement DEF LossInv
  <2>3. QED
    BY <2>1, <2>2, FS_Subset
<1>3. IsFiniteSet(Abandoned') /\ Cardinality(Abandoned') <= Cardinality(Abandoned)
  BY <1>1, FS_Subset DEF LossInv
<1>4. /\ Cardinality(Abandoned') \in Nat /\ Cardinality(Abandoned) \in Nat /\ Costs \in Nat
      /\ Cardinality(Abandoned) <= Costs
  BY <1>3, CostsType, FS_CardinalityType DEF LossInv
<1>5. Cardinality(Abandoned') <= Costs'
  BY <1>3, <1>4
<1>6. QED
  BY <1>2, <1>3, <1>5 DEF LossInv

LEMMA InitLoss == Init => LossInv
<1> SUFFICES ASSUME Init PROVE LossInv
  OBVIOUS
<1>1. Holders = {} /\ Abandoned = {} /\ Costs = 0
  BY DEF Init, Holders, Abandoned, Costs
<1>2. QED
  BY <1>1, FS_EmptySet DEF LossInv

LEMMA IngestKeepsLoss ==
  ASSUME TypeInv, LossInv, Ingest
  PROVE  LossInv'
<1>1. PICK s \in Names : \E e \in EntriesOf(s) : Add(s, e)
  BY IngestAdds
<1>2. PICK e \in EntriesOf(s) : Add(s, e)
  BY <1>1
<1>3. /\ pc' = Served
      /\ hand' = hand /\ claimed' = claimed /\ silver' = silver /\ filled' = filled
      /\ Costs' = Costs
  BY IngestAdds DEF Costs
<1>4. /\ \A p \in Positions : stream'[p[1]][p[2]] = stream[p[1]][p[2]]
      /\ \A v \in Workers : v \notin Blocked => batch'[v] = batch[v]
  BY <1>2, AddKeeps
<1>5. \A v \in Workers :
         /\ v \in Holders => pc'[v] = pc[v] /\ batch'[v] = batch[v] /\ hand'[v] = hand[v]
         /\ pc'[v] \in {"clean", "publish"} => v \in Holders
  BY <1>3, <1>4 DEF Served, Holders, Blocked
<1>6. None \in Holders => None \in Holders' /\ KeyOf(None)' = KeyOf(None)
  <2> SUFFICES ASSUME None \in Holders PROVE None \in Holders' /\ KeyOf(None)' = KeyOf(None)
    OBVIOUS
  <2>1. None \in Workers
    BY DEF Holders
  <2>2. QED
    BY <1>4, <1>5, <2>1, StaysInHand
<1>7. QED
  BY <1>3, <1>4, <1>5, <1>6, HandsOver

\* A step of a worker that neither takes nor passes on a record.
LEMMA EmptyHanded ==
  ASSUME TypeInv, LossInv, NEW w \in Workers, w \notin Holders,
         pc'[w] \notin {"clean", "publish"},
         \A v \in Workers \ {w} : pc'[v] = pc[v] /\ batch'[v] = batch[v] /\ hand'[v] = hand[v],
         stream' = stream, silver' = silver, filled' = filled, claimed' = claimed,
         Costs' = Costs
  PROVE  LossInv'
<1>1. \A v \in Workers \ {w} : pc'[v] \in {"clean", "publish"} => v \in Holders
  BY DEF Holders
<1>2. QED
  BY <1>1, HandsOver

LEMMA QuietKeepsLoss ==
  ASSUME TypeInv, LossInv, NEW w \in Workers,
         \/ Read(w) \/ ReadTimeout(w) \/ Leave(w) \/ Fill(w) \/ FillDone(w) \/ Restart(w)
         \/ \E s \in {"trades", "klines"} : Drop(w, s)
  PROVE  LossInv'
<1>1. /\ pc[w] \notin {"clean", "publish"}
      /\ pc' \in {[pc EXCEPT ![w] = x] : x \in {"read", "blocked", "row", "stopped", "fill"}}
      /\ batch' = batch \/ \E q : batch' = [batch EXCEPT ![w] = q]
      /\ hand' = hand /\ stream' = stream /\ silver' = silver /\ claimed' = claimed
      /\ filled' = filled /\ deaths' = deaths /\ rejects' = rejects
  BY DEF Read, ReadTimeout, Leave, Fill, FillDone, Restart, Drop, Item, AfterRow, bronze, history,
         counts
<1>2. pc'[w] \notin {"clean", "publish"} /\ \A v \in Workers \ {w} : pc'[v] = pc[v]
  BY <1>1 DEF TypeInv, TypeOK
<1>3. \A v \in Workers \ {w} : batch'[v] = batch[v] /\ hand'[v] = hand[v]
  BY <1>1 DEF TypeInv, TypeOK
<1>4. w \notin Holders
  BY <1>1 DEF Holders
<1>5. QED
  BY <1>1, <1>2, <1>3, <1>4, EmptyHanded DEF Costs

\* The record claimed is the record in hand.
LEMMA ClaimKeepsLoss ==
  ASSUME TypeInv, LossInv, NEW w \in Workers,
         FillClaim(w) \/ \E s \in {"trades", "klines"} : Claim(w, s)
  PROVE  LossInv'
<1>1. /\ batch' = batch /\ stream' = stream /\ silver' = silver /\ filled' = filled
      /\ Costs' = Costs
  BY DEF FillClaim, Claim, bronze, history, counts, Costs
<1>2. w \notin Holders
  BY DEF FillClaim, Claim, Item, Holders
<1>3. /\ \A v \in Workers \ {w} : pc'[v] = pc[v] /\ hand'[v] = hand[v]
      /\ \A k \in claimed' : k \in claimed \/ (w \in Holders' /\ KeyOf(w)' = k)
  <2>1. CASE FillClaim(w)
    <3>1. PICK c \in todo[w] :
             \/ UNCHANGED <<claimed, hand, pc>>
             \/ /\ claimed' = claimed \cup {<<"klines", c>>}
                /\ hand' = [hand EXCEPT ![w] = <<"klines", c>>]
                /\ pc' = [pc EXCEPT ![w] = "publish"]
      BY <2>1 DEF FillClaim, ClaimedWith
    <3>2. QED
      BY <3>1 DEF TypeInv, TypeOK, Holders, KeyOf
  <2>2. ASSUME NEW s \in {"trades", "klines"}, Claim(w, s)
        PROVE  /\ \A v \in Workers \ {w} : pc'[v] = pc[v] /\ hand'[v] = hand[v]
               /\ \A k \in claimed' : k \in claimed \/ (w \in Holders' /\ KeyOf(w)' = k)
    <3>1. /\ claimed' = claimed \cup {Entry(w)} /\ hand' = hand
          /\ pc' = [pc EXCEPT ![w] = "clean"]
      BY <2>2 DEF Claim, ClaimedWith
    <3>2. Entry(w)' = Entry(w)
      BY <1>1 DEF Entry
    <3>3. QED
      BY <3>1, <3>2 DEF TypeInv, TypeOK, Holders, KeyOf
  <2>3. QED
    BY <2>1, <2>2
<1>4. \A v \in Workers \ {w} : pc'[v] \in {"clean", "publish"} => v \in Holders
  BY <1>3 DEF Holders
<1>5. QED
  BY <1>1, <1>2, <1>3, <1>4, HandsOver

\* The record in hand gets its line.
LEMMA CleanKeepsLoss ==
  ASSUME TypeInv, SilverInv, LossInv, NEW w \in Workers, Clean(w)
  PROVE  LossInv'
<1>1. /\ pc[w] = "clean"
      /\ silver' = [silver EXCEPT ![Entry(w)] = @ + 1]
      /\ pc' = [pc EXCEPT ![w] = AfterRow(w)]
      /\ batch' = [batch EXCEPT ![w] = Tail(@)]
      /\ stream' = stream /\ claimed' = claimed /\ hand' = hand /\ filled' = filled
      /\ Costs' = Costs
  BY DEF Clean, bronze, counts, Costs
<1>2. Entry(w) \in Keys
  <2>1. Head(batch[w])[1] \in {"trades", "klines"}
    BY <1>1 DEF SilverInv
  <2>2. QED
    BY <1>1, <2>1, InHand, DataEntries DEF Busy
<1>3. silver \in [Keys -> Nat]
  BY DEF TypeInv, TypeOK
<1>4. silver'[Entry(w)] # 0 /\ \A k \in Keys : silver'[k] = 0 => silver[k] = 0
  BY <1>1, <1>2, <1>3
<1>5. \A v \in Workers \ {w} : pc'[v] = pc[v] /\ batch'[v] = batch[v] /\ hand'[v] = hand[v]
  BY <1>1 DEF TypeInv, TypeOK
<1>6. /\ KeyOf(w) = Entry(w)
      /\ \A v \in Workers \ {w} : pc'[v] \in {"clean", "publish"} => v \in Holders
  BY <1>1, <1>5 DEF KeyOf, Holders
<1>7. QED
  BY <1>1, <1>4, <1>5, <1>6, HandsOver

\* The candle in hand is published; whoever was blocked had nothing in hand.
LEMMA PublishKeepsLoss ==
  ASSUME TypeInv, LossInv, NEW w \in Workers, FillPublish(w)
  PROVE  LossInv'
<1>1. /\ pc[w] = "publish" /\ Add("klines", hand[w])
      /\ pc' = [Served EXCEPT ![w] = "fill"]
      /\ hand' = [hand EXCEPT ![w] = None]
      /\ filled' = filled \cup {hand[w][2]}
      /\ claimed' = claimed /\ silver' = silver /\ Costs' = Costs
  BY DEF FillPublish, counts, Costs
<1>2. /\ hand[w] \in {"klines"} \X (1..Candles)
      /\ hand[w] \in EntriesOf("klines") /\ "klines" \in Names
  BY <1>1, DataEntries DEF TypeInv, QueueInv, Names
<1>3. /\ \A p \in Positions : stream'[p[1]][p[2]] = stream[p[1]][p[2]]
      /\ \A v \in Workers : v \notin Blocked => batch'[v] = batch[v]
  BY <1>1, <1>2, AddKeeps
<1>4. \A v \in Workers \ {w} :
         /\ v \in Holders => pc'[v] = pc[v] /\ batch'[v] = batch[v] /\ hand'[v] = hand[v]
         /\ pc'[v] \in {"clean", "publish"} => v \in Holders
  <2>1. \A v \in Workers \ {w} : pc'[v] = Served[v] /\ hand'[v] = hand[v]
    BY <1>1 DEF Served, TypeInv, TypeOK
  <2>2. QED
    BY <1>3, <2>1 DEF Served, Holders, Blocked
<1>5. KeyOf(w)[1] = "klines" /\ KeyOf(w)[2] \in filled'
  BY <1>1, <1>2 DEF KeyOf
<1>6. QED
  BY <1>1, <1>3, <1>4, <1>5, HandsOver

\* A worker that dies or rejects abandons what it has in hand, and that is
\* one record at most.
LEMMA OneKeepsLoss ==
  ASSUME TypeInv, LossInv, NEW w \in Workers, Die(w) \/ Reject(w) \/ FillReject(w)
  PROVE  LossInv'
<1>1. /\ pc' \in {[pc EXCEPT ![w] = x] : x \in {"dead", "read", "row", "fill"}}
      /\ batch' = batch \/ \E q : batch' = [batch EXCEPT ![w] = q]
      /\ hand' = hand \/ hand' = [hand EXCEPT ![w] = None]
      /\ stream' = stream /\ claimed' = claimed /\ silver' = silver /\ filled' = filled
  BY DEF Die, Reject, FillReject, AfterRow, bronze, history
<1>0. Costs' = Costs + 1
  BY DEF Die, Reject, FillReject, Costs, TypeInv, TypeOK
<1>2. \A v \in Workers \ {w} : pc'[v] = pc[v] /\ batch'[v] = batch[v] /\ hand'[v] = hand[v]
  BY <1>1 DEF TypeInv, TypeOK
<1>3. Abandoned' \subseteq Abandoned \cup {KeyOf(w)}
  <2> SUFFICES ASSUME NEW k \in Abandoned', k # KeyOf(w) PROVE k \in Abandoned
    OBVIOUS
  <2>1. /\ k \in claimed /\ silver[k] = 0 /\ ~(k[1] = "klines" /\ k[2] \in filled)
        /\ \A v \in Holders' : KeyOf(v)' # k
    BY <1>1 DEF Abandoned
  <2>2. ASSUME NEW v \in Holders, v # w PROVE KeyOf(v) # k
    <3>1. v \in Workers
      BY <2>2 DEF Holders
    <3>2. v \in Holders' /\ KeyOf(v)' = KeyOf(v)
      BY <1>1, <1>2, <2>2, <3>1, StaysInHand
    <3>3. QED
      BY <2>1, <3>2
  <2>3. QED
    BY <2>1, <2>2 DEF Abandoned
<1>4. IsFiniteSet(Abandoned) /\ Cardinality(Abandoned) \in Nat /\ Cardinality(Abandoned) <= Costs
  BY FS_CardinalityType DEF LossInv
<1>5. /\ IsFiniteSet(Abandoned \cup {KeyOf(w)})
      /\ Cardinality(Abandoned \cup {KeyOf(w)}) =
            IF KeyOf(w) \in Abandoned THEN Cardinality(Abandoned) ELSE Cardinality(Abandoned) + 1
  BY <1>4, FS_AddElement
<1>6. /\ IsFiniteSet(Abandoned')
      /\ Cardinality(Abandoned') <= Cardinality(Abandoned \cup {KeyOf(w)})
  BY <1>3, <1>5, FS_Subset
<1>7. Cardinality(Abandoned') \in Nat /\ Costs \in Nat
  BY <1>6, CostsType, FS_CardinalityType
<1>8. Cardinality(Abandoned') <= Costs'
  BY <1>0, <1>4, <1>5, <1>6, <1>7
<1>9. IsFiniteSet(Holders')
  <2>1. Holders' \subseteq Holders
    BY <1>1, <1>2 DEF Holders, TypeInv, TypeOK
  <2>2. QED
    BY <2>1, FS_Subset DEF LossInv
<1>10. QED
  BY <1>6, <1>8, <1>9 DEF LossInv

LEMMA NextLoss == TypeInv /\ SilverInv /\ LossInv /\ [Next]_vars => LossInv'
<1> SUFFICES ASSUME TypeInv, SilverInv, LossInv, [Next]_vars PROVE LossInv'
  OBVIOUS
<1>1. CASE Ingest
  BY <1>1, IngestKeepsLoss
<1>2. ASSUME NEW w \in Workers, Step(w) PROVE LossInv'
  BY <1>2, QuietKeepsLoss, ClaimKeepsLoss, CleanKeepsLoss, PublishKeepsLoss DEF Step
<1>3. ASSUME NEW w \in Workers, Stop(w) PROVE LossInv'
  BY <1>3 DEF Stop, LossInv, Holders, Abandoned, KeyOf, Entry, bronze, history, counts, Costs
<1>4. ASSUME NEW w \in Workers, Fault(w), ~Stop(w) PROVE LossInv'
  BY <1>4, OneKeepsLoss, QuietKeepsLoss DEF Fault
<1>5. CASE UNCHANGED vars
  BY <1>5 DEF LossInv, Holders, Abandoned, KeyOf, Entry, vars, worker, bronze, history, counts,
              Costs
<1>6. QED
  BY <1>1, <1>2, <1>3, <1>4, <1>5 DEF Next

\* The records in hand are no more than the workers that hold them.
LEMMA HeldBounded ==
  ASSUME IsFiniteSet(Holders)
  PROVE  LET Held == {KeyOf(w) : w \in Holders}
         IN  IsFiniteSet(Held) /\ Cardinality(Held) <= Cardinality(Holders)
<1> DEFINE Held == {KeyOf(w) : w \in Holders}
           f == [w \in Holders |-> KeyOf(w)]
<1>1. f \in Surjection(Holders, Held)
  BY DEF Surjection
<1>2. QED
  BY <1>1, FS_Surjection

\* A death costs the record in the worker's hands and not the rest of its
\* batch or of its window, a false positive of a filter the record it is
\* about, and a new start nothing: every other claimed record has its Silver
\* line, is back in the stream, or is in the hands of a worker (process_trade,
\* process_kline, and fetch_klines for a gap).
THEOREM DeathCostsOne == Spec => []LossAccounted
<1>1. TypeInv /\ SilverInv /\ LossInv /\ [Next]_vars => LossInv'
  BY NextLoss
<1>2. TypeInv /\ LossInv => LossAccounted
  <2> SUFFICES ASSUME TypeInv, LossInv PROVE LossAccounted
    OBVIOUS
  <2> DEFINE Missing == {k \in claimed :
                            silver[k] = 0 /\ ~(k[1] = "klines" /\ k[2] \in filled)}
             Held == {KeyOf(w) : w \in Holders}
  <2>1. Missing \subseteq Abandoned \cup Held
    BY DEF Abandoned
  <2>2. /\ IsFiniteSet(Held) /\ Cardinality(Held) <= Cardinality(Holders)
        /\ IsFiniteSet(Holders) /\ IsFiniteSet(Abandoned) /\ Cardinality(Abandoned) <= Costs
    BY HeldBounded DEF LossInv
  <2> HIDE DEF Missing, Held
  <2>3. /\ IsFiniteSet(Abandoned \cup Held)
        /\ Cardinality(Abandoned \cup Held) =
              Cardinality(Abandoned) + Cardinality(Held) - Cardinality(Abandoned \cap Held)
    BY <2>2, FS_Union
  <2>4. IsFiniteSet(Abandoned \cap Held)
    BY <2>2, FS_Subset
  <2>5. IsFiniteSet(Missing) /\ Cardinality(Missing) <= Cardinality(Abandoned \cup Held)
    BY <2>1, <2>3, FS_Subset
  <2>6. /\ Cardinality(Abandoned) \in Nat /\ Cardinality(Held) \in Nat
        /\ Cardinality(Abandoned \cap Held) \in Nat /\ Cardinality(Holders) \in Nat
        /\ Cardinality(Missing) \in Nat /\ Cardinality(Abandoned \cup Held) \in Nat
        /\ Costs \in Nat
    BY <2>2, <2>3, <2>4, <2>5, CostsType, FS_CardinalityType
  <2>7. Cardinality(Missing) <= Costs + Cardinality(Holders)
    BY <2>2, <2>3, <2>5, <2>6
  <2>8. QED
    BY <2>7 DEF Missing, Holders, LossAccounted, Costs
<1>3. QED
  BY <1>1, <1>2, InitLoss, Invariance, PTL DEF Spec

-----------------------------------------------------------------------------
(* What a worker passes over.                                              *)

Gone(s, k) == s = "klines" /\ k <= trimmed

\* Position i of a stream is the next one there for a worker.
NextThere(w, s, i) ==
    offsets[w][s] # Latest =>
        /\ offsets[w][s] < i
        /\ \A k \in (offsets[w][s] + 1)..(i - 1) : Gone(s, k)

\* The b-th entry of a batch is the first of its stream, and the next one for
\* the worker; or it follows the entry before it in the same stream.
Opens(w, b) ==
    /\ \A a \in 1..(b - 1) : batch[w][a][1] # batch[w][b][1]
    /\ NextThere(w, batch[w][b][1], batch[w][b][2])

Follows(w, b) ==
    /\ b > 1
    /\ batch[w][b][1] = batch[w][b - 1][1]
    /\ batch[w][b][2] = batch[w][b - 1][2] + 1

BatchOf(w) == \A b \in 1..Len(batch[w]) : Opens(w, b) \/ Follows(w, b)

\* A worker without an offset has seen nothing; one with an offset is in the
\* stream, and at its end while it is blocked.
OffsetsOf(w) ==
    \A s \in Names :
        /\ offsets[w][s] = Latest => seen[w][s] = {}
        /\ offsets[w][s] # Latest =>
              /\ offsets[w][s] <= Len(stream[s])
              /\ pc[w] = "blocked" => offsets[w][s] = Len(stream[s])

SkipsOf(w) ==
    \A s \in Names : \A i \in seen[w][s] : \A j \in (i..offsets[w][s]) \ seen[w][s] :
        s = "klines" /\ filled # {} /\ Len(stream[s]) - j >= MaxLen

TurnInv(w) == BatchOf(w) /\ OffsetsOf(w) /\ SkipsOf(w)

\* What is gone was pushed out by a backfill, with MaxLen entries behind it.
TrimInv == trimmed > 0 => filled # {} /\ Len(stream["klines"]) - trimmed >= MaxLen

ReadInv == TrimInv /\ \A w \in Workers : TurnInv(w)

LEMMA ReadTypes ==
  ASSUME TypeInv, NEW w \in Workers
  PROVE  /\ batch[w] \in Seq(Positions) /\ Len(batch[w]) \in Nat
         /\ \A b \in 1..Len(batch[w]) :
               /\ batch[w][b][1] \in Names /\ batch[w][b][2] \in Nat
               /\ batch[w][b][2] <= Len(stream[batch[w][b][1]])
         /\ \A s \in Names : /\ Len(stream[s]) \in Nat
                             /\ offsets[w][s] \in Nat \cup {Latest}
                             /\ seen[w][s] \subseteq Nat
         /\ trimmed \in Nat /\ trimmed <= Len(stream["klines"])
         /\ MaxLen \in Nat \ {0} /\ Count \in Nat \ {0}
<1>1. batch[w] \in Seq(Positions)
  BY DEF TypeInv, QueueInv
<1>2. Len(batch[w]) \in Nat /\ \A b \in 1..Len(batch[w]) : batch[w][b] \in Positions
  BY <1>1
<1>3. ASSUME NEW s \in Names PROVE Len(stream[s]) \in Nat
  <2>1. stream[s] \in Seq(EntriesOf(s))
    BY StreamTypes DEF TypeInv, Streamed
  <2>2. QED
    BY <2>1
<1>4. "klines" \in Names
  BY DEF Names
<1>5. trimmed \in Nat /\ trimmed <= Len(stream["klines"])
  BY <1>3, <1>4 DEF TypeInv, TypeOK
<1>6. \A s \in Names : offsets[w][s] \in Nat \cup {Latest} /\ seen[w][s] \subseteq Nat
  BY DEF TypeInv, TypeOK
<1>7. \A b \in 1..Len(batch[w]) :
         /\ batch[w][b][1] \in Names /\ batch[w][b][2] \in Nat
         /\ batch[w][b][2] <= Len(stream[batch[w][b][1]])
  BY <1>2 DEF Positions
<1>8. QED
  BY <1>1, <1>2, <1>3, <1>5, <1>6, <1>7, BoundsAssumption

\* A worker at whom nothing is done, while the streams grow and are trimmed.
LEMMA TurnKeeps ==
  ASSUME TypeInv, NEW w \in Workers, TurnInv(w),
         batch'[w] = batch[w], offsets'[w] = offsets[w], seen'[w] = seen[w],
         pc'[w] = "blocked" => pc[w] = "blocked" /\ stream' = stream,
         \A s \in Names : Len(stream'[s]) \in Nat /\ Len(stream[s]) <= Len(stream'[s]),
         trimmed' \in Nat, trimmed <= trimmed', filled \subseteq filled'
  PROVE  TurnInv(w)'
<1>1. ASSUME NEW s, NEW k \in Nat, Gone(s, k) PROVE Gone(s, k)'
  BY <1>1, ReadTypes DEF Gone
<1>2. ASSUME NEW s \in Names, NEW i \in Nat, NextThere(w, s, i) PROVE NextThere(w, s, i)'
  BY <1>1, <1>2, ReadTypes DEF NextThere
<1>3. BatchOf(w)'
  <2>1. ASSUME NEW b \in 1..Len(batch[w]), Opens(w, b) PROVE Opens(w, b)'
    BY <1>2, <2>1, ReadTypes DEF Opens
  <2>2. ASSUME NEW b \in 1..Len(batch[w]), Follows(w, b) PROVE Follows(w, b)'
    BY <2>2 DEF Follows
  <2>3. QED
    BY <2>1, <2>2 DEF TurnInv, BatchOf
<1>4. OffsetsOf(w)'
  BY ReadTypes DEF TurnInv, OffsetsOf
<1>5. SkipsOf(w)'
  <2> SUFFICES ASSUME NEW s \in Names, NEW i \in seen[w][s],
                      NEW j \in (i..offsets[w][s]) \ seen[w][s]
               PROVE  s = "klines" /\ filled' # {} /\ Len(stream'[s]) - j >= MaxLen
    BY DEF SkipsOf
  <2>1. s = "klines" /\ filled # {} /\ Len(stream[s]) - j >= MaxLen
    BY DEF TurnInv, SkipsOf
  <2>2. offsets[w][s] \in Nat /\ i \in Nat /\ j \in Int
    BY ReadTypes DEF TurnInv, OffsetsOf
  <2>3. QED
    BY <2>1, <2>2, ReadTypes
<1>6. QED
  BY <1>3, <1>4, <1>5 DEF TurnInv

\* XADD: the stream grows by one, and a blocked worker gets that position.
LEMMA AddGrows ==
  ASSUME TypeInv, NEW s \in Names, NEW e \in EntriesOf(s), Add(s, e)
  PROVE  /\ \A r \in Names : /\ Len(stream'[r]) \in Nat
                             /\ Len(stream[r]) <= Len(stream'[r])
         /\ \A w \in Workers :
               batch'[w] = IF w \in Blocked THEN <<<<s, Len(stream[s]) + 1>>>> ELSE batch[w]
         /\ Len(stream'[s]) = Len(stream[s]) + 1
<1>1. \A r \in Names : stream[r] \in Seq(EntriesOf(r))
  BY StreamTypes DEF TypeInv, Streamed
<1>2. \A r \in Names : stream'[r] = IF r = s THEN Append(stream[r], e) ELSE stream[r]
  BY StreamTypes DEF Add, TypeInv, Streamed
<1>3. Len(Append(stream[s], e)) = Len(stream[s]) + 1 /\ Len(stream[s]) \in Nat
  BY <1>1, Appended
<1>4. \A r \in Names : Len(stream[r]) \in Nat
  BY <1>1
<1>5. ASSUME NEW r \in Names
      PROVE  Len(stream'[r]) \in Nat /\ Len(stream[r]) <= Len(stream'[r])
  <2>1. CASE r = s
    <3>1. Len(stream'[s]) = Len(stream[s]) + 1 /\ Len(stream[s]) \in Nat
      BY <1>2, <1>3
    <3>2. QED
      BY <2>1, <3>1
  <2>2. CASE r # s
    <3>1. stream'[r] = stream[r] /\ Len(stream[r]) \in Nat
      BY <1>2, <1>4, <1>5, <2>2
    <3>2. QED
      BY <3>1
  <2>3. QED
    BY <2>1, <2>2
<1>6. Len(stream'[s]) = Len(stream[s]) + 1
  BY <1>2, <1>3
<1>7. batch' = [w \in Workers |->
                   IF w \in Blocked THEN <<<<s, Len(stream[s]) + 1>>>> ELSE batch[w]]
  BY DEF Add
<1>8. QED
  BY <1>5, <1>6, <1>7

\* Every worker keeps its turn when an entry is added.
LEMMA AddKeepsTurn ==
  ASSUME TypeInv, NEW s \in Names, NEW e \in EntriesOf(s), Add(s, e),
         NEW w \in Workers, TurnInv(w), pc'[w] # "blocked",
         offsets' = offsets, seen' = seen,
         trimmed' \in Nat, trimmed <= trimmed', filled \subseteq filled'
  PROVE  TurnInv(w)'
<1>1. CASE w \notin Blocked
  BY <1>1, AddGrows, TurnKeeps
<1>2. CASE w \in Blocked
  <2>0. PICK n \in Nat : n = Len(stream[s])
    BY ReadTypes
  <2>1. /\ pc[w] = "blocked"
        /\ batch'[w] = <<<<s, n + 1>>>>
        /\ offsets[w][s] # Latest => offsets[w][s] = n
    BY <1>2, <2>0, AddGrows DEF Blocked, TurnInv, OffsetsOf
  <2>2. Len(batch'[w]) = 1 /\ batch'[w][1][1] = s /\ batch'[w][1][2] = n + 1
    BY <2>1
  <2>3. NextThere(w, s, n + 1)'
    BY <2>1 DEF NextThere
  <2>4. BatchOf(w)'
    <3>1. \A b \in 1..Len(batch'[w]) : b = 1
      BY <2>2
    <3>2. Opens(w, 1)'
      BY <2>2, <2>3 DEF Opens
    <3>3. QED
      BY <3>1, <3>2 DEF BatchOf
  <2>5. OffsetsOf(w)'
    <3> SUFFICES ASSUME NEW r \in Names, offsets[w][r] # Latest
                 PROVE  offsets[w][r] <= Len(stream'[r])
      BY DEF TurnInv, OffsetsOf
    <3>1. offsets[w][r] \in Nat /\ offsets[w][r] <= Len(stream[r]) /\ Len(stream[r]) \in Nat
      BY ReadTypes DEF TurnInv, OffsetsOf
    <3>2. Len(stream'[r]) \in Nat /\ Len(stream[r]) <= Len(stream'[r])
      BY AddGrows
    <3>3. QED
      BY <3>1, <3>2
  <2>6. SkipsOf(w)'
    <3> SUFFICES ASSUME NEW r \in Names, NEW i \in seen[w][r],
                        NEW j \in (i..offsets[w][r]) \ seen[w][r]
                 PROVE  r = "klines" /\ filled' # {} /\ Len(stream'[r]) - j >= MaxLen
      BY DEF SkipsOf
    <3>1. r = "klines" /\ filled # {} /\ Len(stream[r]) - j >= MaxLen
      BY DEF TurnInv, SkipsOf
    <3>2. offsets[w][r] \in Nat /\ i \in Nat /\ j \in Int
      BY ReadTypes DEF TurnInv, OffsetsOf
    <3>3. /\ Len(stream'[r]) \in Nat /\ Len(stream[r]) \in Nat
          /\ Len(stream[r]) <= Len(stream'[r]) /\ MaxLen \in Nat
      BY ReadTypes, AddGrows
    <3>4. QED
      BY <3>1, <3>2, <3>3
  <2>7. QED
    BY <2>4, <2>5, <2>6 DEF TurnInv
<1>3. QED
  BY <1>1, <1>2

\* The part of a response that is of one stream.
LEMMA NewsInOrder ==
  ASSUME TypeInv, ReadInv, NEW w \in Workers, NEW s \in Names
  PROVE  /\ Len(News(w, s)) \in Nat /\ After(w, s) \in Nat
         /\ \A b \in 1..Len(News(w, s)) : News(w, s)[b] = <<s, After(w, s) + b>>
         /\ NextThere(w, s, After(w, s) + 1)
         /\ Len(News(w, s)) = 0 /\ offsets[w][s] # Latest => offsets[w][s] = Len(stream[s])
<1> DEFINE n == Len(stream[s]) - After(w, s)
           m == IF n < Count THEN n ELSE Count
<1>1. offsets[w][s] # Latest => offsets[w][s] \in Nat /\ offsets[w][s] <= Len(stream[s])
  BY ReadTypes DEF ReadInv, TurnInv, OffsetsOf
<1>2. After(w, s) \in Nat /\ After(w, s) <= Len(stream[s])
  BY <1>1, ReadTypes DEF After
<1>3. m \in Nat /\ (m = 0 => After(w, s) = Len(stream[s]))
  BY <1>2, ReadTypes
<1>4. News(w, s) = [i \in 1..m |-> <<s, After(w, s) + i>>]
  BY DEF News
<1> HIDE DEF n, m
<1>5. Len(News(w, s)) = m
  BY <1>3, <1>4
<1>6. NextThere(w, s, After(w, s) + 1)
  <2>1. CASE offsets[w][s] = Latest
    BY <2>1 DEF NextThere
  <2>2. CASE offsets[w][s] # Latest /\ s = "klines" /\ offsets[w][s] < trimmed
    <3>1. After(w, s) = trimmed
      BY <2>2 DEF After
    <3>2. QED
      BY <1>1, <2>2, <3>1, ReadTypes DEF NextThere, Gone
  <2>3. CASE offsets[w][s] # Latest /\ ~(s = "klines" /\ offsets[w][s] < trimmed)
    <3>1. After(w, s) = offsets[w][s]
      BY <2>3 DEF After
    <3>2. QED
      BY <1>1, <2>3, <3>1, ReadTypes DEF NextThere
  <2>4. QED
    BY <2>1, <2>2, <2>3
<1>7. ASSUME m = 0, offsets[w][s] # Latest PROVE offsets[w][s] = Len(stream[s])
  <2>1. After(w, s) = Len(stream[s])
    BY <1>3, <1>7
  <2>2. CASE s = "klines" /\ offsets[w][s] < trimmed
    <3>1. trimmed = Len(stream["klines"]) /\ trimmed > 0
      BY <1>1, <1>7, <2>1, <2>2, ReadTypes DEF After
    <3>2. QED
      BY <3>1, ReadTypes DEF ReadInv, TrimInv
  <2>3. CASE ~(s = "klines" /\ offsets[w][s] < trimmed)
    BY <1>7, <2>1, <2>3 DEF After
  <2>4. QED
    BY <2>2, <2>3
<1>8. QED
  BY <1>2, <1>3, <1>4, <1>5, <1>6, <1>7

LEMMA Joined ==
  ASSUME NEW S, NEW p \in Seq(S), NEW q \in Seq(S), NEW r \in Seq(S)
  PROVE  /\ Len(p) \in Nat /\ Len(q) \in Nat /\ Len(r) \in Nat
         /\ Len(p \o q \o r) = Len(p) + Len(q) + Len(r)
         /\ \A b \in 1..Len(p) : (p \o q \o r)[b] = p[b]
         /\ \A b \in 1..Len(q) : (p \o q \o r)[Len(p) + b] = q[b]
         /\ \A b \in 1..Len(r) : (p \o q \o r)[Len(p) + Len(q) + b] = r[b]
<1>1. /\ p \o q \in Seq(S) /\ Len(p \o q) = Len(p) + Len(q)
      /\ Len(p) \in Nat /\ Len(q) \in Nat /\ Len(r) \in Nat
      /\ \A b \in 1..Len(p) : (p \o q)[b] = p[b]
      /\ \A b \in 1..Len(q) : (p \o q)[Len(p) + b] = q[b]
  BY ConcatProperties
<1>2. /\ Len((p \o q) \o r) = Len(p \o q) + Len(r)
      /\ \A b \in 1..Len(p \o q) : ((p \o q) \o r)[b] = (p \o q)[b]
      /\ \A b \in 1..Len(r) : ((p \o q) \o r)[Len(p \o q) + b] = r[b]
  BY <1>1, ConcatProperties
<1>3. QED
  BY <1>1, <1>2

\* XREAD: the entries that are there for each stream, in their order.
LEMMA ReadKeepsTurn ==
  ASSUME TypeInv, ReadInv, NEW w \in Workers, Read(w)
  PROVE  TurnInv(w)'
<1> DEFINE p == News(w, "trades")
           q == News(w, "klines")
           r == News(w, "gaps")
<1>0. PICK R, n1, n2, n3, t, k, g :
         /\ R = Response(w)
         /\ n1 = Len(p) /\ n2 = Len(q) /\ n3 = Len(r)
         /\ t = After(w, "trades") /\ k = After(w, "klines") /\ g = After(w, "gaps")
  OBVIOUS
<1>1. /\ batch'[w] = R /\ offsets' = offsets /\ seen' = seen
      /\ pc'[w] = "blocked" => R = <<>>
      /\ stream' = stream /\ trimmed' = trimmed /\ filled' = filled
  BY <1>0 DEF Read, bronze, history, TypeInv, TypeOK
<1>2. /\ n1 \in Nat /\ n2 \in Nat /\ n3 \in Nat
      /\ Len(R) = n1 + n2 + n3
      /\ \A b \in 1..n1 : R[b] = <<"trades", t + b>>
      /\ \A b \in 1..n2 : R[n1 + b] = <<"klines", k + b>>
      /\ \A b \in 1..n3 : R[n1 + n2 + b] = <<"gaps", g + b>>
  <2>1. p \in Seq(Positions) /\ q \in Seq(Positions) /\ r \in Seq(Positions)
    BY NewsPositions DEF TypeInv, Names
  <2>2. /\ \A b \in 1..n1 : p[b] = <<"trades", t + b>>
        /\ \A b \in 1..n2 : q[b] = <<"klines", k + b>>
        /\ \A b \in 1..n3 : r[b] = <<"gaps", g + b>>
    BY <1>0, NewsInOrder DEF Names
  <2>3. R = p \o q \o r
    BY <1>0 DEF Response
  <2> HIDE DEF p, q, r
  <2>4. /\ Len(p) \in Nat /\ Len(q) \in Nat /\ Len(r) \in Nat
        /\ Len(p \o q \o r) = Len(p) + Len(q) + Len(r)
        /\ \A b \in 1..Len(p) : (p \o q \o r)[b] = p[b]
        /\ \A b \in 1..Len(q) : (p \o q \o r)[Len(p) + b] = q[b]
        /\ \A b \in 1..Len(r) : (p \o q \o r)[Len(p) + Len(q) + b] = r[b]
    BY <2>1, Joined
  <2>5. /\ n1 \in Nat /\ n2 \in Nat /\ n3 \in Nat
        /\ Len(R) = n1 + n2 + n3
        /\ \A b \in 1..n1 : R[b] = p[b]
        /\ \A b \in 1..n2 : R[n1 + b] = q[b]
        /\ \A b \in 1..n3 : R[n1 + n2 + b] = r[b]
    BY <1>0, <2>3, <2>4
  <2>6. QED
    BY <2>2, <2>5
<1>3. /\ t \in Nat /\ k \in Nat /\ g \in Nat
      /\ NextThere(w, "trades", t + 1)
      /\ NextThere(w, "klines", k + 1)
      /\ NextThere(w, "gaps", g + 1)
  BY <1>0, NewsInOrder DEF Names
<1>4. /\ NextThere(w, "trades", t + 1)'
      /\ NextThere(w, "klines", k + 1)'
      /\ NextThere(w, "gaps", g + 1)'
  BY <1>1, <1>3 DEF NextThere, Gone
<1>5. ASSUME NEW b \in 1..n1 PROVE Opens(w, b)' \/ Follows(w, b)'
  <2>1. R[b] = <<"trades", t + b>> /\ t \in Nat
    BY <1>2, <1>3, <1>5 DEF Names
  <2>2. CASE b = 1
    BY <1>1, <1>4, <2>1, <2>2 DEF Opens
  <2>3. CASE b > 1
    <3>1. R[b - 1] = <<"trades", t + (b - 1)>>
      BY <1>2, <1>5, <2>3
    <3>2. QED
      BY <1>1, <2>1, <2>3, <3>1 DEF Follows
  <2>4. QED
    BY <1>5, <2>2, <2>3
<1>6. ASSUME NEW b \in 1..n2 PROVE Opens(w, n1 + b)' \/ Follows(w, n1 + b)'
  <2>1. R[n1 + b] = <<"klines", k + b>> /\ k \in Nat
    BY <1>2, <1>3, <1>6 DEF Names
  <2>2. CASE b = 1
    <3>1. \A a \in 1..(n1 + b - 1) : R[a][1] # "klines"
      BY <1>2, <2>2
    <3>2. QED
      BY <1>1, <1>2, <1>4, <2>1, <2>2, <3>1 DEF Opens
  <2>3. CASE b > 1
    <3>1. R[n1 + (b - 1)] = <<"klines", k + (b - 1)>>
      BY <1>2, <1>6, <2>3
    <3>2. n1 + (b - 1) = (n1 + b) - 1 /\ n1 + b > 1 /\ k + b = (k + (b - 1)) + 1
      <4>1. n1 \in Nat /\ k \in Nat /\ b \in Nat
        BY <1>2, <1>3, <1>6
      <4>2. QED
        BY <2>3, <4>1
    <3>3. R[(n1 + b) - 1] = <<"klines", k + (b - 1)>>
      BY <3>1, <3>2, Zenon
    <3>4. /\ R[n1 + b][1] = R[(n1 + b) - 1][1]
          /\ R[n1 + b][2] = R[(n1 + b) - 1][2] + 1
      <4>1. \A x : <<"klines", x>>[1] = "klines" /\ <<"klines", x>>[2] = x
        OBVIOUS
      <4>2. QED
        BY <2>1, <3>2, <3>3, <4>1, Zenon
    <3>5. QED
      BY <1>1, <3>2, <3>4 DEF Follows
  <2>4. QED
    BY <1>6, <2>2, <2>3
<1>7. ASSUME NEW b \in 1..n3 PROVE Opens(w, n1 + n2 + b)' \/ Follows(w, n1 + n2 + b)'
  <2>1. R[n1 + n2 + b] = <<"gaps", g + b>> /\ g \in Nat
    BY <1>2, <1>3, <1>7 DEF Names
  <2>2. CASE b = 1
    <3>1. \A a \in 1..(n1 + n2 + b - 1) : R[a][1] # "gaps"
      <4> SUFFICES ASSUME NEW a \in 1..(n1 + n2 + b - 1) PROVE R[a][1] # "gaps"
        OBVIOUS
      <4>1. CASE a <= n1
        BY <1>2, <4>1
      <4>2. CASE a > n1
        <5>1. a - n1 \in 1..n2 /\ n1 + (a - n1) = a
          BY <1>2, <2>2, <4>2
        <5>2. R[a] = <<"klines", k + (a - n1)>>
          BY <1>2, <5>1
        <5>3. QED
          BY <5>2
      <4>3. QED
        BY <1>2, <4>1, <4>2
    <3>2. QED
      BY <1>1, <1>2, <1>4, <2>1, <2>2, <3>1 DEF Opens
  <2>3. CASE b > 1
    <3>1. R[n1 + n2 + (b - 1)] = <<"gaps", g + (b - 1)>>
      BY <1>2, <1>7, <2>3
    <3>2. /\ n1 + n2 + (b - 1) = (n1 + n2 + b) - 1 /\ n1 + n2 + b > 1
          /\ g + b = (g + (b - 1)) + 1
      <4>1. n1 \in Nat /\ n2 \in Nat /\ g \in Nat /\ b \in Nat
        BY <1>2, <1>3, <1>7
      <4>2. QED
        BY <2>3, <4>1
    <3>3. R[(n1 + n2 + b) - 1] = <<"gaps", g + (b - 1)>>
      BY <3>1, <3>2, Zenon
    <3>4. /\ R[n1 + n2 + b][1] = R[(n1 + n2 + b) - 1][1]
          /\ R[n1 + n2 + b][2] = R[(n1 + n2 + b) - 1][2] + 1
      <4>1. \A x : <<"gaps", x>>[1] = "gaps" /\ <<"gaps", x>>[2] = x
        OBVIOUS
      <4>2. QED
        BY <2>1, <3>2, <3>3, <4>1, Zenon
    <3>5. QED
      BY <1>1, <3>2, <3>4 DEF Follows
  <2>4. QED
    BY <1>7, <2>2, <2>3
<1>8. BatchOf(w)'
  <2> SUFFICES ASSUME NEW b \in 1..(n1 + n2 + n3) PROVE Opens(w, b)' \/ Follows(w, b)'
    BY <1>1, <1>2 DEF BatchOf
  <2>1. CASE b <= n1
    BY <1>2, <1>5, <2>1
  <2>2. CASE n1 < b /\ b <= n1 + n2
    <3>1. b - n1 \in 1..n2 /\ n1 + (b - n1) = b
      BY <1>2, <2>2
    <3>2. QED
      BY <1>6, <3>1
  <2>3. CASE n1 + n2 < b
    <3>1. b - n1 - n2 \in 1..n3 /\ n1 + n2 + (b - n1 - n2) = b
      BY <1>2, <2>3
    <3>2. QED
      BY <1>7, <3>1
  <2>4. QED
    BY <1>2, <2>1, <2>2, <2>3
<1>9. OffsetsOf(w)'
  <2>1. ASSUME R = <<>>, NEW s \in Names, offsets[w][s] # Latest
        PROVE  offsets[w][s] = Len(stream[s])
    <3>1. n1 = 0 /\ n2 = 0 /\ n3 = 0
      BY <1>2, <2>1, EmptySeq
    <3>2. Len(News(w, s)) = 0
      BY <1>0, <2>1, <3>1 DEF Names
    <3>3. QED
      BY <2>1, <3>2, NewsInOrder
  <2>2. OffsetsOf(w)
    BY DEF ReadInv, TurnInv
  <2>3. QED
    BY <1>1, <2>1, <2>2 DEF OffsetsOf
<1>10. SkipsOf(w)'
  BY <1>1 DEF ReadInv, TurnInv, SkipsOf
<1>11. QED
  BY <1>8, <1>9, <1>10 DEF TurnInv

\* The offset moves to the head of the batch: the rest is still in order, and
\* what was passed over is gone.
LEMMA AdvanceKeepsTurn ==
  ASSUME TypeInv, ReadInv, NEW w \in Workers, pc[w] \in Busy, Advance(w),
         batch' = [batch EXCEPT ![w] = Tail(@)], pc'[w] # "blocked",
         stream' = stream, trimmed' = trimmed, filled' = filled
  PROVE  TurnInv(w)'
<1>1. PICK s, i : s = Head(batch[w])[1] /\ i = Head(batch[w])[2]
  OBVIOUS
<1>2. /\ batch[w] \in Seq(Positions) /\ batch[w] # <<>>
      /\ batch'[w] = Tail(batch[w])
  BY DEF TypeInv, QueueInv, TypeOK
<1>3. /\ Len(batch[w]) \in Nat \ {0} /\ Len(batch'[w]) = Len(batch[w]) - 1
      /\ Head(batch[w]) = batch[w][1]
      /\ \A b \in 1..Len(batch'[w]) : batch'[w][b] = batch[w][b + 1]
  <2>1. Len(batch[w]) \in Nat /\ Len(batch[w]) # 0
    BY <1>2, EmptySeq
  <2>2. /\ Len(Tail(batch[w])) = Len(batch[w]) - 1
        /\ \A b \in 1..Len(Tail(batch[w])) : Tail(batch[w])[b] = batch[w][b + 1]
    BY <1>2, HeadTailProperties
  <2>3. Head(batch[w]) = batch[w][1]
    BY <1>2
  <2>4. QED
    BY <1>2, <2>1, <2>2, <2>3
<1>4. /\ batch[w][1][1] = s /\ batch[w][1][2] = i
      /\ s \in Names /\ i \in Nat /\ i <= Len(stream[s])
  <2>1. 1 \in 1..Len(batch[w])
    BY <1>3
  <2>2. QED
    BY <1>1, <1>3, <2>1, ReadTypes
<1>5. /\ offsets' = [offsets EXCEPT ![w][s] = i]
      /\ seen' = [seen EXCEPT ![w][s] = @ \cup {i}]
  BY <1>1 DEF Advance, OffsetAfter
<1>6. /\ offsets'[w][s] = i /\ seen'[w][s] = seen[w][s] \cup {i}
      /\ \A r \in Names \ {s} : offsets'[w][r] = offsets[w][r] /\ seen'[w][r] = seen[w][r]
  BY <1>4, <1>5 DEF TypeInv, TypeOK
<1>7. i # Latest
  BY <1>4, LatestAssumption
<1>8. NextThere(w, s, i)
  <2>1. 1 \in 1..Len(batch[w])
    BY <1>3
  <2>2. Opens(w, 1)
    BY <2>1 DEF ReadInv, TurnInv, BatchOf, Follows
  <2>3. QED
    BY <1>4, <2>2 DEF Opens
<1>9. BatchOf(w)'
  <2> SUFFICES ASSUME NEW b \in 1..Len(batch'[w]) PROVE Opens(w, b)' \/ Follows(w, b)'
    BY DEF BatchOf
  <2>1. /\ b \in Nat /\ b + 1 \in 1..Len(batch[w]) /\ b + 1 > 1 /\ (b + 1) - 1 = b
        /\ batch'[w][b] = batch[w][b + 1]
    BY <1>3
  <2>2. PICK r, j : r = batch[w][b + 1][1] /\ j = batch[w][b + 1][2]
    OBVIOUS
  <2>3. r \in Names /\ j \in Nat
    BY <2>1, <2>2, ReadTypes
  <2>4. Opens(w, b + 1) \/ Follows(w, b + 1)
    BY <2>1 DEF ReadInv, TurnInv, BatchOf
  <2>5. CASE Opens(w, b + 1)
    <3>1. \A a \in 1..b : batch[w][a][1] # r
      BY <2>1, <2>2, <2>5 DEF Opens
    <3>2. r # s
      BY <1>4, <2>1, <3>1
    <3>3. NextThere(w, r, j)'
      <4>1. NextThere(w, r, j)
        BY <2>2, <2>5 DEF Opens
      <4>2. offsets'[w][r] = offsets[w][r]
        BY <1>6, <2>3, <3>2
      <4>3. QED
        BY <4>1, <4>2 DEF NextThere, Gone
    <3>4. \A a \in 1..(b - 1) : batch'[w][a][1] # r
      BY <1>3, <2>1, <3>1
    <3>5. QED
      BY <2>1, <2>2, <3>3, <3>4 DEF Opens
  <2>6. CASE Follows(w, b + 1) /\ b = 1
    <3>1. r = s /\ j = i + 1
      BY <1>4, <2>2, <2>6 DEF Follows
    <3>2. NextThere(w, s, i + 1)'
      BY <1>4, <1>6 DEF NextThere
    <3>3. QED
      BY <2>1, <2>2, <2>6, <3>1, <3>2 DEF Opens
  <2>7. CASE Follows(w, b + 1) /\ b # 1
    <3>1. b - 1 \in 1..Len(batch'[w]) /\ (b - 1) + 1 = b /\ b > 1
      BY <2>1, <2>7
    <3>2. batch'[w][b - 1] = batch[w][b]
      BY <1>3, <3>1
    <3>3. QED
      BY <2>1, <2>7, <3>1, <3>2 DEF Follows
  <2>8. QED
    BY <2>4, <2>5, <2>6, <2>7
<1>10. OffsetsOf(w)'
  <2>1. ASSUME NEW r \in Names
        PROVE  /\ offsets'[w][r] = Latest => seen'[w][r] = {}
               /\ offsets'[w][r] # Latest => offsets'[w][r] <= Len(stream[r])
    <3>1. CASE r = s
      BY <1>4, <1>6, <1>7, <3>1
    <3>2. CASE r # s
      BY <1>6, <2>1, <3>2 DEF ReadInv, TurnInv, OffsetsOf
    <3>3. QED
      BY <3>1, <3>2
  <2>2. QED
    BY <2>1 DEF OffsetsOf
<1>11. SkipsOf(w)'
  <2> SUFFICES ASSUME NEW r \in Names, NEW a \in seen'[w][r],
                      NEW j \in (a..offsets'[w][r]) \ seen'[w][r]
               PROVE  r = "klines" /\ filled # {} /\ Len(stream[r]) - j >= MaxLen
    BY DEF SkipsOf
  <2>1. CASE r # s
    <3>1. offsets'[w][r] = offsets[w][r] /\ seen'[w][r] = seen[w][r]
      BY <1>6, <2>1
    <3>2. QED
      BY <3>1 DEF ReadInv, TurnInv, SkipsOf
  <2>2. CASE r = s
    <3>1. /\ a \in seen[w][s] \cup {i} /\ j \in a..i /\ j \notin seen[w][s] /\ j # i
      BY <1>6, <2>2
    <3>2. a \in Nat /\ j \in Int /\ j < i /\ a <= j
      BY <1>4, <3>1, ReadTypes
    <3>3. a \in seen[w][s]
      BY <1>4, <3>1, <3>2
    <3>4. offsets[w][s] \in Nat
      BY <1>4, <3>3, ReadTypes DEF ReadInv, TurnInv, OffsetsOf
    <3>5. CASE j <= offsets[w][s]
      <4>1. j \in (a..offsets[w][s]) \ seen[w][s]
        BY <3>1, <3>2, <3>4, <3>5
      <4>2. QED
        BY <1>4, <2>2, <3>3, <4>1 DEF ReadInv, TurnInv, SkipsOf
    <3>6. CASE j > offsets[w][s]
      <4>1. j \in (offsets[w][s] + 1)..(i - 1)
        BY <1>4, <3>2, <3>4, <3>6
      <4>2. Gone(s, j)
        BY <1>8, <3>4, <4>1, LatestAssumption DEF NextThere
      <4>3. s = "klines" /\ j <= trimmed /\ trimmed > 0
        BY <3>2, <3>4, <3>6, <4>2, ReadTypes DEF Gone
      <4>4. filled # {} /\ Len(stream["klines"]) - trimmed >= MaxLen
        BY <4>3 DEF ReadInv, TrimInv
      <4>5. QED
        BY <1>4, <2>2, <3>2, <4>3, <4>4, ReadTypes
    <3>7. QED
      BY <3>2, <3>4, <3>5, <3>6
  <2>3. QED
    BY <2>1, <2>2
<1>12. QED
  BY <1>9, <1>10, <1>11 DEF TurnInv

\* A step of one worker while the streams stay.
LEMMA OnesTurn ==
  ASSUME TypeInv, ReadInv, NEW w \in Workers, TurnInv(w)',
         stream' = stream, trimmed' = trimmed, filled' = filled,
         \A v \in Workers \ {w} : /\ pc'[v] = pc[v] /\ batch'[v] = batch[v]
                                  /\ offsets'[v] = offsets[v] /\ seen'[v] = seen[v]
  PROVE  ReadInv'
<1>1. ASSUME NEW v \in Workers, v # w PROVE TurnInv(v)'
  BY <1>1, ReadTypes, TurnKeeps DEF ReadInv
<1>2. TrimInv'
  BY DEF ReadInv, TrimInv
<1>3. QED
  BY <1>1, <1>2 DEF ReadInv

\* A step of one worker that neither reads nor ends a turn.
LEMMA MidTurn ==
  ASSUME TypeInv, ReadInv, NEW w \in Workers, pc'[w] # "blocked",
         stream' = stream, trimmed' = trimmed, filled' = filled,
         batch' = batch, offsets' = offsets, seen' = seen,
         \A v \in Workers \ {w} : pc'[v] = pc[v]
  PROVE  ReadInv'
<1>1. TurnInv(w)'
  BY ReadTypes, TurnKeeps DEF ReadInv
<1>2. QED
  BY <1>1, OnesTurn

LEMMA StepKeepsRead ==
  ASSUME TypeInv, ReadInv, NEW w \in Workers,
         \/ ReadTimeout(w) \/ Leave(w) \/ Fill(w) \/ FillClaim(w) \/ FillReject(w)
         \/ \E s \in {"trades", "klines"} : Claim(w, s)
  PROVE  ReadInv'
<1>1. /\ stream' = stream /\ trimmed' = trimmed /\ filled' = filled
      /\ batch' = batch /\ offsets' = offsets /\ seen' = seen
      /\ \/ pc[w] = "fill" /\ pc' = pc
         \/ pc' \in {[pc EXCEPT ![w] = x] : x \in {"read", "stopped", "clean", "fill", "publish"}}
  BY DEF ReadTimeout, Leave, Fill, FillClaim, FillReject, Claim, bronze, history
<1>2. pc'[w] # "blocked" /\ \A v \in Workers \ {w} : pc'[v] = pc[v]
  BY <1>1 DEF TypeInv, TypeOK
<1>3. QED
  BY <1>1, <1>2, MidTurn

LEMMA TurnEnds ==
  ASSUME TypeInv, SilverInv, ReadInv, NEW w \in Workers,
         Clean(w) \/ Reject(w) \/ FillDone(w) \/ \E s \in {"trades", "klines"} : Drop(w, s)
  PROVE  ReadInv'
<1>1. /\ pc[w] \in Busy /\ Advance(w)
      /\ batch' = [batch EXCEPT ![w] = Tail(@)] /\ pc' = [pc EXCEPT ![w] = AfterRow(w)]
      /\ stream' = stream /\ trimmed' = trimmed /\ filled' = filled
  BY DEF Clean, Reject, FillDone, Drop, Item, Busy, bronze
<1>2. pc'[w] # "blocked"
  BY <1>1 DEF AfterRow, TypeInv, TypeOK
<1>3. TurnInv(w)'
  BY <1>1, <1>2, AdvanceKeepsTurn
<1>4. \A v \in Workers \ {w} : /\ pc'[v] = pc[v] /\ batch'[v] = batch[v]
                               /\ offsets'[v] = offsets[v] /\ seen'[v] = seen[v]
  BY <1>1 DEF Advance, TypeInv, TypeOK
<1>5. QED
  BY <1>1, <1>3, <1>4, OnesTurn

\* A backfill's XADD may trim the stream, down to MaxLen entries.
LEMMA PublishKeepsRead ==
  ASSUME TypeInv, ReadInv, NEW w \in Workers, FillPublish(w)
  PROVE  ReadInv'
<1>1. /\ pc[w] = "publish" /\ Add("klines", hand[w])
      /\ trimmed' \in MayTrim \cup {trimmed}
      /\ pc' = [Served EXCEPT ![w] = "fill"]
      /\ filled' = filled \cup {hand[w][2]} /\ offsets' = offsets /\ seen' = seen
  BY DEF FillPublish
<1>2. hand[w] \in EntriesOf("klines") /\ "klines" \in Names
  BY <1>1, DataEntries DEF TypeInv, QueueInv, Names
<1>3. /\ Len(stream'["klines"]) = Len(stream["klines"]) + 1
      /\ Len(stream["klines"]) \in Nat /\ trimmed \in Nat /\ MaxLen \in Nat
  BY <1>1, <1>2, AddGrows, ReadTypes
<1>4. /\ trimmed' \in Nat /\ trimmed <= trimmed'
      /\ trimmed' = trimmed \/ trimmed' <= Len(stream'["klines"]) - MaxLen
  BY <1>1, <1>3 DEF MayTrim
<1>5. TrimInv'
  <2>0. filled' # {}
    BY <1>1, Zenon
  <2>1. Len(stream'["klines"]) \in Nat
    BY <1>3
  <2>2. trimmed > 0 => Len(stream["klines"]) - trimmed >= MaxLen
    BY DEF ReadInv, TrimInv
  <2>3. trimmed' > 0 => Len(stream'["klines"]) - trimmed' >= MaxLen
    BY <1>3, <1>4, <2>1, <2>2
  <2>4. QED
    BY <2>0, <2>3 DEF TrimInv
<1>6. ASSUME NEW v \in Workers PROVE TurnInv(v)'
  <2>1. pc'[v] # "blocked"
    BY <1>1 DEF Served, Blocked, TypeInv, TypeOK
  <2>2. QED
    BY <1>1, <1>2, <1>4, <2>1, AddKeepsTurn DEF ReadInv
<1>7. QED
  BY <1>5, <1>6 DEF ReadInv

LEMMA IngestKeepsRead ==
  ASSUME TypeInv, ReadInv, Ingest
  PROVE  ReadInv'
<1>1. PICK s \in Names : \E e \in EntriesOf(s) : Add(s, e)
  BY IngestAdds
<1>2. PICK e \in EntriesOf(s) : Add(s, e)
  BY <1>1
<1>3. /\ pc' = Served /\ offsets' = offsets /\ seen' = seen
      /\ trimmed' = trimmed /\ filled' = filled
  BY IngestAdds
<1>4. "klines" \in Names /\ trimmed \in Nat
  <2>1. "klines" \in Names
    BY DEF Names
  <2>2. stream["klines"] \in Seq(EntriesOf("klines"))
    BY <2>1, StreamTypes DEF TypeInv, Streamed
  <2>3. QED
    BY <2>1, <2>2 DEF TypeInv, TypeOK
<1>5. /\ Len(stream["klines"]) \in Nat /\ Len(stream'["klines"]) \in Nat
      /\ Len(stream["klines"]) <= Len(stream'["klines"])
  <2>1. stream["klines"] \in Seq(EntriesOf("klines"))
    BY <1>4, StreamTypes DEF TypeInv, Streamed
  <2>2. Len(stream["klines"]) \in Nat
    BY <2>1
  <2>3. QED
    BY <1>1, <1>2, <1>4, <2>2, AddGrows
<1>6. TrimInv'
  BY <1>3, <1>4, <1>5, BoundsAssumption DEF ReadInv, TrimInv
<1>7. ASSUME NEW v \in Workers PROVE TurnInv(v)'
  <2>1. pc'[v] # "blocked"
    BY <1>3 DEF Served, Blocked
  <2>2. QED
    BY <1>2, <1>3, <1>4, <2>1, AddKeepsTurn DEF ReadInv
<1>8. QED
  BY <1>6, <1>7 DEF ReadInv

\* A worker that dies drops its batch; a new one has no offsets.
LEMMA LifeKeepsRead ==
  ASSUME TypeInv, ReadInv, NEW w \in Workers, Stop(w) \/ Die(w) \/ Restart(w)
  PROVE  ReadInv'
<1>1. stream' = stream /\ trimmed' = trimmed /\ filled' = filled
  BY DEF Stop, Die, Restart, bronze, history
<1>2. \A v \in Workers \ {w} : /\ pc'[v] = pc[v] /\ batch'[v] = batch[v]
                               /\ offsets'[v] = offsets[v] /\ seen'[v] = seen[v]
  BY DEF Stop, Die, Restart, history, TypeInv, TypeOK
<1>3. CASE Stop(w)
  <2>1. TurnInv(w)'
    BY <1>1, <1>3, ReadTypes, TurnKeeps DEF Stop, history, ReadInv
  <2>2. QED
    BY <1>1, <1>2, <2>1, OnesTurn
<1>4. CASE Die(w)
  <2>1. /\ batch'[w] = <<>> /\ offsets' = offsets /\ seen' = seen /\ pc'[w] = "dead"
    BY <1>4 DEF Die, history, TypeInv, TypeOK
  <2>2. Len(batch'[w]) = 0
    BY <2>1
  <2>3. BatchOf(w)'
    BY <2>2 DEF BatchOf
  <2>4. (OffsetsOf(w) /\ SkipsOf(w))'
    BY <1>1, <2>1 DEF ReadInv, TurnInv, OffsetsOf, SkipsOf
  <2>5. QED
    BY <1>1, <1>2, <2>3, <2>4, OnesTurn DEF TurnInv
<1>5. CASE Restart(w)
  <2>1. /\ batch' = batch /\ pc'[w] = "read"
        /\ \A s \in Names : offsets'[w][s] = Latest /\ seen'[w][s] = {}
    BY <1>5 DEF Restart, TypeInv, TypeOK
  <2>2. (OffsetsOf(w) /\ SkipsOf(w))'
    BY <2>1 DEF OffsetsOf, SkipsOf
  <2>3. BatchOf(w)'
    <3>1. \A b \in 1..Len(batch[w]) : Opens(w, b) \/ Follows(w, b)
      BY DEF ReadInv, TurnInv, BatchOf
    <3>2. ASSUME NEW b \in 1..Len(batch[w]), Opens(w, b) PROVE Opens(w, b)'
      <4>1. batch[w][b][1] \in Names
        BY <3>2, ReadTypes
      <4>2. QED
        BY <2>1, <3>2, <4>1 DEF Opens, NextThere
    <3>3. ASSUME NEW b \in 1..Len(batch[w]), Follows(w, b) PROVE Follows(w, b)'
      BY <2>1, <3>3 DEF Follows
    <3>4. QED
      BY <2>1, <3>1, <3>2, <3>3 DEF BatchOf
  <2>4. QED
    BY <1>1, <1>2, <2>2, <2>3, OnesTurn DEF TurnInv
<1>6. QED
  BY <1>3, <1>4, <1>5

LEMMA InitRead == Init => ReadInv
<1> SUFFICES ASSUME Init PROVE ReadInv
  OBVIOUS
<1>1. TrimInv
  BY DEF Init, TrimInv
<1>2. ASSUME NEW w \in Workers PROVE TurnInv(w)
  <2>1. /\ batch[w] = <<>> /\ pc[w] = "read"
        /\ \A s \in Names : offsets[w][s] = Latest /\ seen[w][s] = {}
    BY DEF Init
  <2>2. Len(batch[w]) = 0
    BY <2>1
  <2>3. QED
    BY <2>1, <2>2 DEF TurnInv, BatchOf, OffsetsOf, SkipsOf
<1>3. QED
  BY <1>1, <1>2 DEF ReadInv

LEMMA NextRead == TypeInv /\ SilverInv /\ ReadInv /\ [Next]_vars => ReadInv'
<1> SUFFICES ASSUME TypeInv, SilverInv, ReadInv, [Next]_vars PROVE ReadInv'
  OBVIOUS
<1>1. CASE Ingest
  BY <1>1, IngestKeepsRead
<1>2. ASSUME NEW w \in Workers, Read(w) PROVE ReadInv'
  <2>1. TurnInv(w)'
    BY <1>2, ReadKeepsTurn
  <2>2. /\ stream' = stream /\ trimmed' = trimmed /\ filled' = filled
        /\ \A v \in Workers \ {w} : /\ pc'[v] = pc[v] /\ batch'[v] = batch[v]
                                    /\ offsets'[v] = offsets[v] /\ seen'[v] = seen[v]
    BY <1>2 DEF Read, bronze, history, TypeInv, TypeOK
  <2>3. QED
    BY <1>2, <2>1, <2>2, OnesTurn
<1>3. ASSUME NEW w \in Workers, Step(w), ~Read(w) PROVE ReadInv'
  BY <1>3, StepKeepsRead, TurnEnds, PublishKeepsRead DEF Step
<1>4. ASSUME NEW w \in Workers, Fault(w) PROVE ReadInv'
  BY <1>4, LifeKeepsRead, StepKeepsRead, TurnEnds DEF Fault
<1>5. CASE UNCHANGED vars
  BY <1>5 DEF ReadInv, TrimInv, TurnInv, BatchOf, Opens, Follows, NextThere, Gone, OffsetsOf,
              SkipsOf, vars, worker, bronze, history
<1>6. QED
  BY <1>1, <1>2, <1>3, <1>4, <1>5 DEF Next

\* From the first entry of a stream that it reads on, a worker passes over
\* none but candles that a backfill pushed out, with MaxLen entries behind
\* them: not by the order of its batch, the entries added while it works, or
\* the one it is served while it waits (stream_offsets in _run_cleaner_loop).
THEOREM NothingPassedOver == Spec => []SkippedOnlyTrimmed
<1>1. TypeInv /\ SilverInv /\ ReadInv /\ [Next]_vars => ReadInv'
  BY NextRead
<1>2. ReadInv => SkippedOnlyTrimmed
  BY DEF ReadInv, TurnInv, SkipsOf, SkippedOnlyTrimmed
<1>3. QED
  BY <1>1, <1>2, InitRead, Invariance, PTL DEF Spec
-----------------------------------------------------------------------------
(***************************************************************************)
(* The loop takes keys as KeyClaims does.  SilverInv knows the records     *)
(* that are being cleaned; here it matters that no backfill has the same   *)
(* key in hand, and that a candle is not cleaned and published both.       *)
(***************************************************************************)
HoldInv ==
    /\ \A w \in Workers : HeldBy(w) # None =>
          HeldBy(w) \in claimed /\ Arrivals(HeldBy(w)) = 0
    /\ \A v, w \in Workers : v # w /\ HeldBy(v) # None => HeldBy(v) # HeldBy(w)
    /\ \A k \in Keys : Arrivals(k) <= 1 /\ (Arrivals(k) > 0 => k \in claimed)

LEMMA ArrivalsType ==
  ASSUME TypeInv, NEW k \in Keys
  PROVE  Arrivals(k) \in Nat
  BY DEF TypeInv, TypeOK, Arrivals

\* The fates, told by where a record is.
LEMMA Fates ==
  ASSUME TypeInv, HoldInv, NEW k \in Keys
  PROVE  /\ k \notin claimed => FateOf(k) = "free" /\ \A w \in Workers : HeldBy(w) # k
         /\ \A w \in Workers : HeldBy(w) = k => FateOf(k) = "taken"
<1>1. k # None /\ Arrivals(k) \in Nat /\ (Arrivals(k) > 0 => k \in claimed)
  BY ArrivalsType, NoneAssumption DEF HoldInv
<1>2. ASSUME k \notin claimed PROVE FateOf(k) = "free" /\ \A w \in Workers : HeldBy(w) # k
  <2>1. Arrivals(k) = 0
    BY <1>1, <1>2
  <2>2. QED
    BY <1>1, <1>2, <2>1 DEF HoldInv, FateOf
<1>3. ASSUME NEW w \in Workers, HeldBy(w) = k PROVE FateOf(k) = "taken"
  <2>1. k \in claimed /\ Arrivals(k) = 0
    BY <1>1, <1>3 DEF HoldInv
  <2>2. QED
    BY <1>3, <2>1 DEF FateOf
<1>4. QED
  BY <1>2, <1>3

\* Whoever has a record in hand keeps it, and nobody else takes one.
LEMMA HoldsOn ==
  ASSUME TypeInv, NEW v \in Workers,
         v \in Holders => pc'[v] = pc[v] /\ batch'[v] = batch[v] /\ hand'[v] = hand[v],
         pc'[v] \in {"clean", "publish"} => v \in Holders,
         \A p \in Positions : stream'[p[1]][p[2]] = stream[p[1]][p[2]]
  PROVE  HeldBy(v)' = HeldBy(v)
<1>1. CASE v \in Holders
  BY <1>1, StaysInHand DEF Holders, KeyOf, HeldBy
<1>2. CASE v \notin Holders
  BY <1>2 DEF Holders, HeldBy
<1>3. QED
  BY <1>1, <1>2

\* A step that takes and settles nothing.
LEMMA QuietStep ==
  ASSUME HoldInv, \A v \in Workers : HeldBy(v)' = HeldBy(v), UNCHANGED <<claimed, silver, filled>>
  PROVE  HoldInv' /\ UNCHANGED Claims!vars
<1>1. \A k \in Keys : Arrivals(k)' = Arrivals(k)
  BY DEF Arrivals
<1>2. \A v \in Workers : Arrivals(HeldBy(v))' = Arrivals(HeldBy(v))
  BY DEF Arrivals
<1>3. \A k \in Keys : FateOf(k)' = FateOf(k)
  BY <1>1 DEF FateOf
<1>4. HoldInv'
  BY <1>1, <1>2 DEF HoldInv
<1>5. QED
  BY <1>3, <1>4 DEF Claims!vars

\* A step that claims a record.
LEMMA TakeStep ==
  ASSUME TypeInv, HoldInv, NEW w \in Workers, NEW k \in Keys,
         HeldBy(w) = None, HeldBy(w)' = k,
         \A v \in Workers \ {w} : HeldBy(v)' = HeldBy(v),
         k \notin claimed, claimed' = claimed \cup {k}, UNCHANGED <<silver, filled>>
  PROVE  HoldInv' /\ Claims!Next
<1> DEFINE F == [j \in Keys |-> FateOf(j)]
           H == [v \in Workers |-> HeldBy(v)]
<1>1. \A j : Arrivals(j)' = Arrivals(j)
  BY DEF Arrivals
<1>2. Arrivals(k) = 0 /\ FateOf(k) = "free" /\ \A v \in Workers : HeldBy(v) # k
  BY Fates, ArrivalsType DEF HoldInv
<1>3. FateOf(k)' = "taken"
  BY <1>1, <1>2 DEF FateOf
<1>4. ASSUME NEW j \in Keys, j # k PROVE FateOf(j)' = FateOf(j)
  <2>1. \A v \in Workers : HeldBy(v)' = j <=> HeldBy(v) = j
    BY <1>4, NoneAssumption
  <2>2. QED
    BY <1>1, <1>4, <2>1 DEF FateOf
<1>5. F' = [F EXCEPT ![k] = "taken"] /\ H' = [H EXCEPT ![w] = k]
  BY <1>3, <1>4
<1>6. Claims!Take(w, k)
  BY <1>2, <1>5 DEF Claims!Take
<1>7. HoldInv'
  <2>1. ASSUME NEW v \in Workers, HeldBy(v)' # None
        PROVE  HeldBy(v)' \in claimed' /\ Arrivals(HeldBy(v))' = 0
    <3>1. CASE v = w
      BY <1>1, <1>2, <3>1
    <3>2. CASE v # w
      <4>1. HeldBy(v)' = HeldBy(v) /\ HeldBy(v) # None
        BY <2>1, <3>2
      <4>2. Arrivals(HeldBy(v))' = Arrivals(HeldBy(v))
        BY <4>1 DEF Arrivals
      <4>3. QED
        BY <4>1, <4>2 DEF HoldInv
    <3>3. QED
      BY <3>1, <3>2
  <2>2. ASSUME NEW u \in Workers, NEW v \in Workers, u # v, HeldBy(u)' # None
        PROVE  HeldBy(u)' # HeldBy(v)'
    BY <1>2, <2>2 DEF HoldInv
  <2>3. QED
    BY <1>1, <2>1, <2>2 DEF HoldInv
<1>8. QED
  BY <1>6, <1>7 DEF Claims!Next

\* A step in which a record leaves the hand, for where it belongs or for good.
LEMMA SettleStep ==
  ASSUME TypeInv, HoldInv, NEW w \in Workers, NEW k \in Keys,
         HeldBy(w) = k, HeldBy(w)' = None,
         \A v \in Workers \ {w} : HeldBy(v)' = HeldBy(v),
         claimed' = claimed, Arrivals(k)' \in {0, 1},
         \A j \in Keys : j # k => Arrivals(j)' = Arrivals(j)
  PROVE  HoldInv' /\ Claims!Next
<1> DEFINE F == [j \in Keys |-> FateOf(j)]
           H == [v \in Workers |-> HeldBy(v)]
<1>1. k # None /\ k \in claimed /\ \A v \in Workers \ {w} : HeldBy(v) # k
  BY NoneAssumption DEF HoldInv
<1>2. \A v \in Workers : HeldBy(v)' # k
  BY <1>1
<1>3. FateOf(k)' \in {"done", "lost"}
  BY <1>1, <1>2 DEF FateOf
<1>4. ASSUME NEW j \in Keys, j # k PROVE FateOf(j)' = FateOf(j)
  <2>1. \A v \in Workers : HeldBy(v)' = j <=> HeldBy(v) = j
    BY <1>4, NoneAssumption
  <2>2. QED
    BY <1>4, <2>1 DEF FateOf
<1>5. F' = [F EXCEPT ![k] = FateOf(k)'] /\ H' = [H EXCEPT ![w] = None]
  BY <1>4
<1>6. PICK outcome \in {"done", "lost"} : outcome = FateOf(k)'
  BY <1>3
<1>7. Claims!Settle(w, outcome)
  BY <1>1, <1>5, <1>6 DEF Claims!Settle
<1>8. HoldInv'
  <2>1. ASSUME NEW v \in Workers, HeldBy(v)' # None
        PROVE  HeldBy(v)' \in claimed' /\ Arrivals(HeldBy(v))' = 0
    <3>1. HeldBy(v)' = HeldBy(v) /\ v # w /\ HeldBy(v) # k
      BY <1>1, <2>1
    <3>2. HeldBy(v) \in claimed /\ Arrivals(HeldBy(v)) = 0
      BY <2>1, <3>1 DEF HoldInv
    <3>3. PICK j \in Keys : j = HeldBy(v)
      BY <3>2 DEF TypeInv, TypeOK
    <3>4. Arrivals(j)' = 0
      BY <3>1, <3>2, <3>3
    <3>5. HeldBy(v)' = j
      BY <3>1, <3>3
    <3>6. QED
      BY <3>2, <3>3, <3>4, <3>5 DEF Arrivals
  <2>2. ASSUME NEW u \in Workers, NEW v \in Workers, u # v, HeldBy(u)' # None
        PROVE  HeldBy(u)' # HeldBy(v)'
    BY <2>2 DEF HoldInv
  <2>3. QED
    BY <1>1, <2>1, <2>2 DEF HoldInv
<1>9. QED
  BY <1>7, <1>8 DEF Claims!Next

\* Any XADD of the WebSocket client.
LEMMA IngestHolds ==
  ASSUME TypeInv, HoldInv, Ingest
  PROVE  HoldInv' /\ UNCHANGED Claims!vars
<1>1. PICK s \in Names : \E e \in EntriesOf(s) : Add(s, e)
  BY IngestAdds
<1>2. PICK e \in EntriesOf(s) : Add(s, e)
  BY <1>1
<1>3. pc' = Served /\ hand' = hand /\ UNCHANGED <<claimed, silver, filled>>
  BY IngestAdds
<1>4. /\ \A p \in Positions : stream'[p[1]][p[2]] = stream[p[1]][p[2]]
      /\ \A v \in Workers : v \notin Blocked => batch'[v] = batch[v]
  BY <1>2, AddKeeps
<1>5. \A v \in Workers :
         /\ v \in Holders => pc'[v] = pc[v] /\ batch'[v] = batch[v] /\ hand'[v] = hand[v]
         /\ pc'[v] \in {"clean", "publish"} => v \in Holders
  BY <1>3, <1>4 DEF Served, Holders, Blocked
<1>6. \A v \in Workers : HeldBy(v)' = HeldBy(v)
  BY <1>4, <1>5, HoldsOn
<1>7. QED
  BY <1>3, <1>6, QuietStep

\* The others, when the streams stay.
LEMMA OthersHold ==
  ASSUME TypeInv, NEW w \in Workers, stream' = stream,
         \A v \in Workers \ {w} : pc'[v] = pc[v] /\ batch'[v] = batch[v] /\ hand'[v] = hand[v]
  PROVE  \A v \in Workers \ {w} : HeldBy(v)' = HeldBy(v)
  BY DEF HeldBy, Entry

\* A turn of a worker that has nothing in hand before it or after it.
LEMMA EmptyStep ==
  ASSUME TypeInv, HoldInv, NEW w \in Workers,
         \/ Read(w) \/ ReadTimeout(w) \/ Leave(w) \/ Fill(w) \/ FillDone(w) \/ Restart(w)
         \/ \E s \in {"trades", "klines"} : Drop(w, s)
  PROVE  HoldInv' /\ UNCHANGED Claims!vars
<1>1. /\ pc[w] \notin {"clean", "publish"}
      /\ pc' \in {[pc EXCEPT ![w] = x] : x \in {"read", "blocked", "row", "stopped", "fill"}}
      /\ batch' = batch \/ \E q : batch' = [batch EXCEPT ![w] = q]
      /\ hand' = hand /\ stream' = stream /\ UNCHANGED <<claimed, silver, filled>>
  BY DEF Read, ReadTimeout, Leave, Fill, FillDone, Restart, Drop, Item, AfterRow, bronze, history
<1>2. pc'[w] \notin {"clean", "publish"} /\ \A v \in Workers \ {w} : pc'[v] = pc[v]
  BY <1>1 DEF TypeInv, TypeOK
<1>3. \A v \in Workers \ {w} : batch'[v] = batch[v] /\ hand'[v] = hand[v]
  BY <1>1 DEF TypeInv, TypeOK
<1>4. HeldBy(w) = None /\ HeldBy(w)' = None
  BY <1>1, <1>2 DEF HeldBy
<1>5. \A v \in Workers : HeldBy(v)' = HeldBy(v)
  BY <1>1, <1>2, <1>3, <1>4, OthersHold
<1>6. QED
  BY <1>1, <1>5, QuietStep

\* SET NX by the cleaner.
LEMMA ClaimTakes ==
  ASSUME TypeInv, HoldInv, NEW w \in Workers, NEW s \in {"trades", "klines"}, Claim(w, s)
  PROVE  HoldInv' /\ Claims!Next
<1>1. /\ pc[w] = "row" /\ Head(batch[w])[1] = s /\ Entry(w) \notin claimed
      /\ claimed' = claimed \cup {Entry(w)}
      /\ pc' = [pc EXCEPT ![w] = "clean"]
      /\ batch' = batch /\ hand' = hand /\ stream' = stream /\ UNCHANGED <<silver, filled>>
  BY DEF Claim, Item, IsDuplicate, ClaimedWith, bronze, history
<1>2. Entry(w) \in Keys
  BY <1>1, InHand, DataEntries DEF Busy
<1>3. pc'[w] = "clean" /\ \A v \in Workers \ {w} : pc'[v] = pc[v]
  BY <1>1 DEF TypeInv, TypeOK
<1>4. HeldBy(w) = None /\ HeldBy(w)' = Entry(w)
  BY <1>1, <1>3 DEF HeldBy, Entry
<1>5. \A v \in Workers \ {w} : HeldBy(v)' = HeldBy(v)
  BY <1>1, <1>3, OthersHold
<1>6. QED
  BY <1>1, <1>2, <1>4, <1>5, TakeStep

\* SET NX by the backfill, under the same key.
LEMMA FillClaimTakes ==
  ASSUME TypeInv, HoldInv, NEW w \in Workers, FillClaim(w)
  PROVE  HoldInv' /\ [Claims!Next]_(Claims!vars)
<1>1. /\ pc[w] = "fill" /\ batch' = batch /\ stream' = stream /\ UNCHANGED <<silver, filled>>
      /\ \E c \in todo[w] :
            IF IsDuplicate(<<"klines", c>>)
            THEN UNCHANGED <<claimed, hand, pc>>
            ELSE /\ claimed' = ClaimedWith(w, <<"klines", c>>)
                 /\ hand' = [hand EXCEPT ![w] = <<"klines", c>>]
                 /\ pc' = [pc EXCEPT ![w] = "publish"]
  BY DEF FillClaim, bronze, history
<1>2. PICK c \in todo[w] :
            IF IsDuplicate(<<"klines", c>>)
            THEN UNCHANGED <<claimed, hand, pc>>
            ELSE /\ claimed' = ClaimedWith(w, <<"klines", c>>)
                 /\ hand' = [hand EXCEPT ![w] = <<"klines", c>>]
                 /\ pc' = [pc EXCEPT ![w] = "publish"]
  BY <1>1
<1> DEFINE k == <<"klines", c>>
<1>3. k \in Keys
  BY DEF TypeInv, TypeOK, Keys
<1>4. CASE IsDuplicate(k)
  <2>1. UNCHANGED <<claimed, hand, pc>>
    BY <1>2, <1>4
  <2>2. \A v \in Workers : HeldBy(v)' = HeldBy(v)
    BY <1>1, <2>1 DEF HeldBy, Entry
  <2>3. QED
    BY <1>1, <2>1, <2>2, QuietStep
<1>5. CASE ~IsDuplicate(k)
  <2>1. /\ k \notin claimed /\ claimed' = claimed \cup {k}
        /\ hand' = [hand EXCEPT ![w] = k]
        /\ pc' = [pc EXCEPT ![w] = "publish"]
    BY <1>2, <1>5 DEF IsDuplicate, ClaimedWith
  <2>2. /\ pc'[w] = "publish" /\ hand'[w] = k
        /\ \A v \in Workers \ {w} : pc'[v] = pc[v] /\ hand'[v] = hand[v]
    BY <2>1 DEF TypeInv, TypeOK
  <2>3. HeldBy(w) = None /\ HeldBy(w)' = k
    BY <1>1, <2>2 DEF HeldBy
  <2>4. \A v \in Workers \ {w} : HeldBy(v)' = HeldBy(v)
    BY <1>1, <2>2, OthersHold
  <2>5. QED
    BY <1>1, <1>3, <2>1, <2>3, <2>4, TakeStep
<1>6. QED
  BY <1>4, <1>5

\* The line in the Silver file.
LEMMA CleanSettles ==
  ASSUME TypeInv, SilverInv, HoldInv, NEW w \in Workers, Clean(w)
  PROVE  HoldInv' /\ Claims!Next
<1>1. /\ pc[w] = "clean"
      /\ silver' = [silver EXCEPT ![Entry(w)] = @ + 1]
      /\ pc' = [pc EXCEPT ![w] = AfterRow(w)]
      /\ batch' = [batch EXCEPT ![w] = Tail(@)]
      /\ stream' = stream /\ claimed' = claimed /\ hand' = hand /\ filled' = filled
  BY DEF Clean, bronze
<1>2. PICK k \in Keys : k = Entry(w) /\ k = HeldBy(w)
  <2>1. Head(batch[w])[1] \in {"trades", "klines"}
    BY <1>1 DEF SilverInv
  <2>2. QED
    BY <1>1, <2>1, InHand, DataEntries DEF Busy, HeldBy
<1>3. pc'[w] \in {"read", "row"} /\ \A v \in Workers \ {w} : pc'[v] = pc[v] /\ batch'[v] = batch[v]
  BY <1>1 DEF TypeInv, TypeOK, AfterRow
<1>4. HeldBy(w)' = None
  BY <1>3 DEF HeldBy
<1>5. \A v \in Workers \ {w} : HeldBy(v)' = HeldBy(v)
  BY <1>1, <1>3, OthersHold
<1>6. Arrivals(k) = 0
  BY <1>2, NoneAssumption DEF HoldInv
<1>7. silver[k] \in Nat /\ silver'[k] = silver[k] + 1 /\ \A j \in Keys : j # k => silver'[j] = silver[j]
  BY <1>1, <1>2 DEF TypeInv, TypeOK
<1>8. Arrivals(k)' = 1
  BY <1>1, <1>6, <1>7 DEF Arrivals
<1>9. \A j \in Keys : j # k => Arrivals(j)' = Arrivals(j)
  BY <1>1, <1>7 DEF Arrivals
<1>10. QED
  BY <1>1, <1>2, <1>4, <1>5, <1>8, <1>9, SettleStep

\* The XADD of a backfill.
LEMMA PublishSettles ==
  ASSUME TypeInv, HoldInv, NEW w \in Workers, FillPublish(w)
  PROVE  HoldInv' /\ Claims!Next
<1>1. /\ pc[w] = "publish" /\ Add("klines", hand[w])
      /\ pc' = [Served EXCEPT ![w] = "fill"]
      /\ hand' = [hand EXCEPT ![w] = None]
      /\ filled' = filled \cup {hand[w][2]}
      /\ claimed' = claimed /\ silver' = silver
  BY DEF FillPublish
<1>2. /\ hand[w] \in {"klines"} \X (1..Candles)
      /\ hand[w] \in EntriesOf("klines") /\ "klines" \in Names
  BY <1>1, DataEntries DEF TypeInv, QueueInv, Names
<1>3. PICK k \in Keys : k = hand[w] /\ k = HeldBy(w) /\ k = <<"klines", k[2]>>
  BY <1>1, <1>2, DataEntries DEF HeldBy
<1>4. /\ \A p \in Positions : stream'[p[1]][p[2]] = stream[p[1]][p[2]]
      /\ \A v \in Workers : v \notin Blocked => batch'[v] = batch[v]
  BY <1>1, <1>2, AddKeeps
<1>5. \A v \in Workers \ {w} :
         /\ v \in Holders => pc'[v] = pc[v] /\ batch'[v] = batch[v] /\ hand'[v] = hand[v]
         /\ pc'[v] \in {"clean", "publish"} => v \in Holders
  <2>1. \A v \in Workers \ {w} : pc'[v] = Served[v] /\ hand'[v] = hand[v]
    BY <1>1 DEF Served, TypeInv, TypeOK
  <2>2. QED
    BY <1>4, <2>1 DEF Served, Holders, Blocked
<1>6. \A v \in Workers \ {w} : HeldBy(v)' = HeldBy(v)
  BY <1>4, <1>5, HoldsOn
<1>7. HeldBy(w)' = None
  <2>1. pc'[w] = "fill"
    BY <1>1 DEF Served
  <2>2. QED
    BY <2>1 DEF HeldBy
<1>8. Arrivals(k) = 0
  BY <1>3, NoneAssumption DEF HoldInv
<1>9. Arrivals(k)' = 1
  <2>1. k[1] = "klines" /\ silver[k] \in Nat
    BY <1>3 DEF TypeInv, TypeOK
  <2>2. silver[k] = 0
    BY <1>8, <2>1 DEF Arrivals
  <2>3. k[2] \in filled'
    BY <1>1, <1>3
  <2>4. QED
    BY <1>1, <2>1, <2>2, <2>3 DEF Arrivals
<1>10. ASSUME NEW j \in Keys, j # k PROVE Arrivals(j)' = Arrivals(j)
  <2>1. j = <<j[1], j[2]>>
    BY DEF Keys
  <2>2. j[1] = "klines" => j[2] # k[2]
    BY <1>3, <1>10, <2>1
  <2>3. j[1] = "klines" => (j[2] \in filled' <=> j[2] \in filled)
    BY <1>1, <1>3, <2>2
  <2>4. QED
    BY <1>1, <2>3 DEF Arrivals
<1>11. QED
  BY <1>1, <1>3, <1>6, <1>7, <1>9, <1>10, SettleStep

\* A worker that dies loses what it has in hand, if it has something, and
\* one whose filter rejects the record gives it up.
LEMMA LoseSettles ==
  ASSUME TypeInv, HoldInv, NEW w \in Workers, Die(w) \/ Reject(w) \/ FillReject(w)
  PROVE  HoldInv' /\ [Claims!Next]_(Claims!vars)
<1>1. /\ pc' \in {[pc EXCEPT ![w] = x] : x \in {"dead", "read", "row", "fill"}}
      /\ batch' = batch \/ \E q : batch' = [batch EXCEPT ![w] = q]
      /\ hand' = hand \/ hand' = [hand EXCEPT ![w] = None]
      /\ stream' = stream /\ UNCHANGED <<claimed, silver, filled>>
  BY DEF Die, Reject, FillReject, AfterRow, bronze, history
<1>2. /\ pc'[w] \notin {"clean", "publish"}
      /\ \A v \in Workers \ {w} : pc'[v] = pc[v] /\ batch'[v] = batch[v] /\ hand'[v] = hand[v]
  BY <1>1 DEF TypeInv, TypeOK
<1>3. HeldBy(w)' = None /\ \A v \in Workers \ {w} : HeldBy(v)' = HeldBy(v)
  BY <1>1, <1>2, OthersHold DEF HeldBy
<1>4. CASE HeldBy(w) = None
  BY <1>1, <1>3, <1>4, QuietStep
<1>5. CASE HeldBy(w) # None
  <2>1. PICK k \in Keys : k = HeldBy(w)
    BY <1>5 DEF HoldInv, TypeInv, TypeOK
  <2>2. \A j : Arrivals(j)' = Arrivals(j)
    BY <1>1 DEF Arrivals
  <2>3. Arrivals(k)' \in {0, 1}
    BY <1>5, <2>1, <2>2 DEF HoldInv
  <2>4. QED
    BY <1>1, <1>3, <2>1, <2>2, <2>3, SettleStep
<1>6. QED
  BY <1>4, <1>5

LEMMA LoopStep ==
  TypeInv /\ SilverInv /\ HoldInv /\ [Next]_vars => HoldInv' /\ [Claims!Next]_(Claims!vars)
<1> SUFFICES ASSUME TypeInv, SilverInv, HoldInv, [Next]_vars
             PROVE  HoldInv' /\ [Claims!Next]_(Claims!vars)
  OBVIOUS
<1>1. CASE Ingest
  BY <1>1, IngestHolds
<1>2. ASSUME NEW w \in Workers, Step(w) PROVE HoldInv' /\ [Claims!Next]_(Claims!vars)
  BY <1>2, EmptyStep, ClaimTakes, FillClaimTakes, CleanSettles, PublishSettles DEF Step
<1>3. ASSUME NEW w \in Workers, Stop(w) PROVE HoldInv' /\ [Claims!Next]_(Claims!vars)
  <2>1. \A v \in Workers : HeldBy(v)' = HeldBy(v)
    BY <1>3 DEF Stop, HeldBy, Entry, bronze
  <2>2. UNCHANGED <<claimed, silver, filled>>
    BY <1>3 DEF Stop, history
  <2>3. QED
    BY <2>1, <2>2, QuietStep
<1>4. ASSUME NEW w \in Workers, Fault(w), ~Stop(w)
      PROVE  HoldInv' /\ [Claims!Next]_(Claims!vars)
  BY <1>4, LoseSettles, EmptyStep DEF Fault
<1>5. CASE UNCHANGED vars
  <2>1. \A v \in Workers : HeldBy(v)' = HeldBy(v)
    BY <1>5 DEF HeldBy, Entry, vars, worker, bronze
  <2>2. UNCHANGED <<claimed, silver, filled>>
    BY <1>5 DEF vars, history
  <2>3. QED
    BY <2>1, <2>2, QuietStep
<1>6. QED
  BY <1>1, <1>2, <1>3, <1>4, <1>5 DEF Next

LEMMA InitHold == Init => HoldInv /\ Claims!Init
<1> SUFFICES ASSUME Init PROVE HoldInv /\ Claims!Init
  OBVIOUS
<1>1. /\ \A w \in Workers : HeldBy(w) = None
      /\ claimed = {}
      /\ \A k \in Keys : Arrivals(k) = 0
  BY DEF Init, HeldBy, Arrivals
<1>2. HoldInv
  BY <1>1 DEF HoldInv
<1>3. \A k \in Keys : FateOf(k) = "free"
  BY <1>1 DEF FateOf
<1>4. QED
  BY <1>1, <1>2, <1>3 DEF Claims!Init

\* The cleaner and the backfills that it runs share the dedup keys: whatever
\* is written again, served to a blocked reader or trimmed, and whoever dies,
\* one worker takes a candle, once, to clean it or to publish it, and what a
\* worker dies over or its filter rejects is lost (process_kline, fetch_klines, _run_cleaner_loop).
THEOREM LoopTakesKeys == Spec => ImplementsKeyClaims
<1>1. TypeInv /\ SilverInv /\ HoldInv /\ [Next]_vars => HoldInv' /\ [Claims!Next]_(Claims!vars)
  BY LoopStep
<1>2. Init => HoldInv /\ Claims!Init
  BY InitHold
<1>3. QED
  BY <1>1, <1>2, Invariance, PTL DEF Spec, ImplementsKeyClaims, Claims!Spec
=============================================================================
