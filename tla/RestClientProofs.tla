-------------------------- MODULE RestClientProofs --------------------------
(***************************************************************************)
(* Theorems about the two parts of rest_client.py: RestSync, for any       *)
(* number of candles, calls, windows, faults and any page size, and        *)
(* TokenBucket, for every capacity, refill rate and number of callers.     *)
(***************************************************************************)
EXTENDS RestSync, TokenBucket, TLAPS, FiniteSetTheorems, WellFoundedInduction

-----------------------------------------------------------------------------
(* The sync: types, and no candle twice.                                   *)

\* What the proof needs of the types: the parts of TypeOK about rows, the
\* row in hand and the two places a candle is written to.
Typed ==
    /\ rows \subseteq Candles
    /\ kline \in Candles \cup {None}
    /\ claimed \subseteq Candles
    /\ delivered \subseteq claimed
    /\ bronze \in [Candles -> Nat]
    /\ raw \in [Candles -> Nat]

\* A candle is written only after it was claimed; the candle in hand was
\* claimed by this call, and is where pc says it is.
ClaimInv ==
    /\ \A c \in Candles : c \notin claimed \/ c \in delivered => bronze[c] = 0 /\ raw[c] = 0
    /\ \A c \in Candles : bronze[c] <= 1 /\ raw[c] <= bronze[c]
    /\ pc \in {"publish", "append"} => kline \in claimed \ delivered
    /\ pc = "publish" => bronze[kline] = 0
    /\ pc = "append" => bronze[kline] = 1 /\ raw[kline] = 0

IInv == Typed /\ ClaimInv

LEMMA IInvInit == Init => IInv
  BY NoneAssumption, LiveAssumption DEF Init, IInv, Typed, ClaimInv, Candles

\* Every step but the three that write or claim leaves candles alone.
LEMMA IInvNext == IInv /\ [Next]_vars => IInv'
<1> SUFFICES ASSUME IInv, [Next]_vars PROVE IInv'
  OBVIOUS
<1> USE DEF IInv, Typed, ClaimInv, counters, page
<1>1. ASSUME NEW w \in Windows, Sync(w) PROVE IInv'
  BY <1>1 DEF Sync
<1>2. CASE NextPage
  BY <1>2 DEF NextPage
<1>3. CASE Reply
  <2>1. rows' \subseteq Candles
    BY <1>3 DEF Reply, Page
  <2>2. pc' \in {"flush", "row"}
    BY <1>3 DEF Reply
  <2>3. QED
    BY <1>3, <2>1, <2>2 DEF Reply
<1>4. CASE Throttled
  BY <1>4 DEF Throttled
<1>5. CASE CooldownOver
  BY <1>5 DEF CooldownOver
<1>6. CASE Timeout
  BY <1>6 DEF Timeout, PcAfterTimeout
<1>7. CASE SkipOpenRow
  BY <1>7 DEF SkipOpenRow
<1>8. CASE SkipDuplicate
  BY <1>8 DEF SkipDuplicate
<1>9. CASE Claim
  <2>1. PICK c \in rows : c \notin claimed /\ kline' = c /\ rows' = rows \ {c}
                          /\ claimed' = claimed \cup {c}
    BY <1>9 DEF Claim, ClaimedWith, IsDuplicate
  <2>2. pc' = "publish" /\ UNCHANGED <<delivered, bronze, raw>>
    BY <1>9 DEF Claim
  <2>3. c \in Candles /\ c \notin delivered /\ bronze[c] = 0 /\ raw[c] = 0
    BY <2>1
  <2>4. Typed'
    BY <2>1, <2>2, <2>3
  <2>5. ClaimInv'
    BY <2>1, <2>2, <2>3
  <2>6. QED
    BY <2>4, <2>5
<1>10. CASE Publish
  <2>1. kline \in Candles /\ bronze[kline] = 0 /\ raw[kline] = 0
        /\ kline \in claimed \ delivered
    BY <1>10 DEF Publish
  <2>2. bronze' = [bronze EXCEPT ![kline] = 1]
    BY <1>10, <2>1 DEF Publish
  <2>3. pc' = "append" /\ UNCHANGED <<rows, kline, claimed, delivered, raw>>
    BY <1>10 DEF Publish
  <2>4. QED
    BY <2>1, <2>2, <2>3
<1>11. CASE AppendRaw
  <2>1. kline \in Candles /\ bronze[kline] = 1 /\ raw[kline] = 0
        /\ kline \in claimed \ delivered
    BY <1>11 DEF AppendRaw
  <2>2. raw' = [raw EXCEPT ![kline] = 1]
    BY <1>11, <2>1 DEF AppendRaw
  <2>3. pc' = "row" /\ kline' = None /\ UNCHANGED <<rows, claimed, delivered, bronze>>
    BY <1>11 DEF AppendRaw
  <2>4. QED
    BY <2>1, <2>2, <2>3
<1>12. CASE PageDone
  BY <1>12 DEF PageDone
<1>13. CASE Return
  BY <1>13 DEF Return
<1>14. CASE Abort
  BY <1>14 DEF Abort
<1>15. CASE Reject
  BY <1>15 DEF Reject
<1>16. CASE UNCHANGED vars
  BY <1>16 DEF vars
<1>17. QED
  BY <1>1, <1>2, <1>3, <1>4, <1>5, <1>6, <1>7, <1>8, <1>9, <1>10, <1>11, <1>12, <1>13,
     <1>14, <1>15, <1>16 DEF Next, Step

-----------------------------------------------------------------------------
(* Types.  What needs an argument is that a page is not longer than PageSize. *)

LEMMA LastOfSome ==
  ASSUME NEW n \in Nat, NEW S, S \subseteq 1..n, S # {}
  PROVE  \E m \in S : \A c \in S : c <= m
<1> DEFINE T == {k \in Nat : n - k \in S}
<1>1. PICK c \in S : TRUE
  OBVIOUS
<1>2. n - c \in T /\ T \subseteq Nat
  BY <1>1
<1>3. PICK k \in T : \A j \in T : ~ (<<j, k>> \in OpToRel(<, Nat))
  BY <1>2, WFMin, NatLessThanWellFounded
<1>4. \A j \in T : ~(j < k)
  BY <1>3 DEF OpToRel
<1>5. n - k \in S
  BY <1>3
<1>6. \A d \in S : d <= n - k
  <2>1. ASSUME NEW d \in S PROVE d <= n - k
    <3>1. n - d \in T /\ d \in 1..n /\ k \in Nat
      <4>1. d \in 1..n /\ k \in Nat
        BY <1>3
      <4>2. n - d \in Nat /\ n - (n - d) = d
        BY <4>1
      <4>3. QED
        BY <4>1, <4>2
    <3>2. ~(n - d < k)
      BY <1>4, <3>1
    <3>3. QED
      BY <3>1, <3>2
  <2>2. QED
    BY <2>1
<1>7. QED
  BY <1>5, <1>6

\* All candles of a page but its last are older than that one, and fewer
\* than PageSize.
LEMMA PageBounded ==
  ASSUME NEW from, NEW to
  PROVE  /\ Page(from, to) \subseteq Candles
         /\ Cardinality(Page(from, to)) \in 0..PageSize
<1> DEFINE open == {c \in Candles : from <= Open(c) /\ Open(c) <= to}
           P == Page(from, to)
<1>1. P = {c \in open : Cardinality({d \in open : d < c}) < PageSize} /\ open \subseteq Candles
  BY DEF Page
<1>2. PageSize \in Nat \ {0} /\ Last \in Nat
  BY BoundsAssumption
<1>3. IsFiniteSet(Candles)
  BY <1>2, FS_Interval DEF Candles
<1>4. IsFiniteSet(open)
  BY <1>1, <1>3, FS_Subset
<1>5. P \subseteq open
  BY <1>1
<1>6. IsFiniteSet(P) /\ Cardinality(P) \in Nat
  <2>1. IsFiniteSet(P)
    BY <1>4, <1>5, FS_Subset
  <2>2. QED
    BY <2>1, FS_CardinalityType
<1> HIDE DEF P, open
<1>7. CASE P = {}
  BY <1>2, <1>7, FS_EmptySet, <1>1, <1>5 DEF P
<1>8. CASE P # {}
  <2>1. P \subseteq 1..Last
    BY <1>1, <1>5 DEF Candles
  <2>2. PICK m \in P : \A c \in P : c <= m
    BY <1>2, <1>8, <2>1, LastOfSome
  <2>3. Cardinality({d \in open : d < m}) < PageSize
    BY <1>1, <2>2
  <2>4. IsFiniteSet({d \in open : d < m})
    <3>1. {d \in open : d < m} \in SUBSET open
      OBVIOUS
    <3>2. QED
      BY <1>4, <3>1, FS_Subset
  <2>5. Cardinality({d \in open : d < m}) \in Nat
    BY <2>4, FS_CardinalityType
  <2>6. P \ {m} \in SUBSET {d \in open : d < m}
    BY <1>5, <2>1, <2>2
  <2>7. Cardinality(P \ {m}) <= Cardinality({d \in open : d < m})
    BY <2>4, <2>6, FS_Subset
  <2>8. Cardinality(P \ {m}) = Cardinality(P) - 1
    BY <1>6, <2>2, FS_RemoveElement
  <2>9. QED
    BY <1>1, <1>2, <1>5, <1>6, <2>3, <2>5, <2>7, <2>8 DEF P
<1>9. QED
  BY <1>7, <1>8

LEMMA TypeInit == Init => TypeOK
<1> SUFFICES ASSUME Init PROVE TypeOK
  OBVIOUS
<1>1. [start |-> 0, end |-> 0] \in Windows
  BY BoundsAssumption DEF Windows, Times
<1>2. QED
  BY <1>1, BoundsAssumption, LiveAssumption DEF Init, TypeOK

LEMMA TypeNext == TypeOK /\ IInv /\ [Next]_vars => TypeOK'
<1> SUFFICES ASSUME TypeOK, IInv, [Next]_vars PROVE TypeOK'
  OBVIOUS
<1> USE BoundsAssumption DEF TypeOK, counters, page
<1>1. ASSUME NEW w \in Windows, Sync(w) PROVE TypeOK'
  <2>1. w.start \in Nat
    BY DEF Windows, Times
  <2>2. QED
    BY <1>1, <2>1 DEF Sync
<1>2. CASE NextPage
  BY <1>2 DEF NextPage
<1>3. CASE Reply
  BY <1>3, PageBounded DEF Reply
<1>4. CASE Throttled
  BY <1>4 DEF Throttled
<1>5. CASE CooldownOver
  BY <1>5 DEF CooldownOver
<1>6. CASE Timeout
  BY <1>6 DEF Timeout, PcAfterTimeout
<1>7. CASE SkipOpenRow
  BY <1>7 DEF SkipOpenRow
<1>8. CASE SkipDuplicate
  BY <1>8 DEF SkipDuplicate
<1>9. CASE Claim
  BY <1>9 DEF Claim, ClaimedWith
<1>10. CASE Publish
  <2>1. kline \in Candles
    BY <1>10 DEF Publish, IInv, Typed, ClaimInv
  <2>2. QED
    BY <1>10, <2>1 DEF Publish
<1>11. CASE AppendRaw
  <2>1. kline \in Candles
    BY <1>11 DEF AppendRaw, IInv, Typed, ClaimInv
  <2>2. Close(kline) \in Nat
    BY <2>1 DEF Candles, Close
  <2>3. QED
    BY <1>11, <2>1, <2>2 DEF AppendRaw
<1>12. CASE PageDone
  <2>1. cursor' \in Nat
    BY <1>12, NoneAssumption DEF PageDone, NextStart
  <2>2. pc' \in {"flush", "page"}
    BY <1>12 DEF PageDone
  <2>3. QED
    BY <1>12, <2>1, <2>2 DEF PageDone
<1>13. CASE Return
  BY <1>13 DEF Return
<1>14. CASE Abort
  BY <1>14 DEF Abort
<1>15. CASE Reject
  BY <1>15 DEF Reject
<1>16. CASE UNCHANGED vars
  BY <1>16 DEF vars
<1>17. QED
  BY <1>1, <1>2, <1>3, <1>4, <1>5, <1>6, <1>7, <1>8, <1>9, <1>10, <1>11, <1>12, <1>13,
     <1>14, <1>15, <1>16 DEF Next, Step

\* Type correctness of sync_klines: among the rest, no page is longer than
\* its limit, so the test for the last page (line 236) sees every short one.
THEOREM TypeCorrect == Spec => []TypeOK
  BY TypeInit, TypeNext, IInvInit, IInvNext, PTL DEF Spec

-----------------------------------------------------------------------------
\* No candle reaches the stream or the raw file twice, and none does that
\* the WebSocket delivered, however calls overlap, repeat or are cut short.
THEOREM PublishedOnce == Spec => []OnceOnly
<1>1. IInv => OnceOnly
  <2> SUFFICES ASSUME IInv, NEW c \in Candles
               PROVE  bronze[c] <= 1 /\ raw[c] <= bronze[c] /\ (c \in delivered => bronze[c] = 0)
    BY DEF OnceOnly
  <2> QED
    BY DEF IInv, ClaimInv
<1>2. QED
  BY <1>1, IInvInit, IInvNext, PTL DEF Spec

-----------------------------------------------------------------------------
(***************************************************************************)
(* Losses.  The candles that a call has claimed and not stored are one in  *)
(* its hands, and one for each call that was cut short and each false      *)
(* positive of the filter.                                                 *)
(***************************************************************************)
Unstored == {c \in claimed \ delivered : raw[c] = 0}

InFlight == IF pc \in {"publish", "append"} THEN 1 ELSE 0

Costs == aborts + rejects

LEMMA UnstoredFinite ==
  ASSUME IInv
  PROVE  IsFiniteSet(Unstored) /\ Cardinality(Unstored) \in Nat
<1>1. IsFiniteSet(Candles)
  BY BoundsAssumption, FS_Interval DEF Candles
<1>2. Unstored \in SUBSET Candles
  BY DEF Unstored, IInv, Typed
<1>3. QED
  BY <1>1, <1>2, FS_Subset, FS_CardinalityType

LEMMA LossNext ==
  TypeOK /\ IInv /\ LossBounded /\ [Next]_vars => LossBounded'
<1> SUFFICES ASSUME TypeOK, IInv, Cardinality(Unstored) <= Costs + InFlight, [Next]_vars
             PROVE  Cardinality(Unstored') <= Costs' + InFlight'
  BY DEF LossBounded, Unstored, InFlight, Costs
<1>0. Costs \in Nat /\ Cardinality(Unstored) \in Nat /\ IsFiniteSet(Unstored)
  BY UnstoredFinite, BoundsAssumption DEF TypeOK, Costs
<1>1. CASE Claim
  <2>1. PICK c \in rows : claimed' = claimed \cup {c} /\ c \notin claimed
    BY <1>1 DEF Claim, ClaimedWith, IsDuplicate
  <2>2. raw[c] = 0 /\ c \notin delivered /\ UNCHANGED <<delivered, raw, Costs>>
    BY <1>1, <2>1 DEF Claim, IInv, Typed, ClaimInv, counters, Costs
  <2>3. Unstored' = Unstored \cup {c}
    BY <2>1, <2>2 DEF Unstored
  <2>4. Cardinality(Unstored \cup {c})
          = IF c \in Unstored THEN Cardinality(Unstored) ELSE Cardinality(Unstored) + 1
    BY <1>0, FS_AddElement
  <2>5. InFlight = 0 /\ InFlight' = 1
    BY <1>1 DEF Claim, InFlight
  <2>6. QED
    BY <1>0, <2>2, <2>3, <2>4, <2>5
<1>2. CASE AppendRaw
  <2>1. kline \in claimed \ delivered /\ kline \in Candles /\ raw[kline] = 0
    BY <1>2 DEF AppendRaw, IInv, Typed, ClaimInv
  <2>2. raw' = [raw EXCEPT ![kline] = 1] /\ UNCHANGED <<claimed, delivered, Costs>>
    BY <1>2, <2>1 DEF AppendRaw, counters, Costs
  <2>3. Unstored' = Unstored \ {kline} /\ kline \in Unstored
    BY <2>1, <2>2 DEF Unstored, IInv, Typed
  <2>4. Cardinality(Unstored') = Cardinality(Unstored) - 1
    BY <1>0, <2>3, FS_RemoveElement
  <2>5. InFlight = 1 /\ InFlight' = 0
    BY <1>2 DEF AppendRaw, InFlight
  <2>6. QED
    BY <1>0, <2>2, <2>4, <2>5
<1>3. CASE Abort \/ Reject
  <2>1. Unstored' = Unstored
    BY <1>3 DEF Abort, Reject, Unstored
  <2>2. Costs' = Costs + 1
    BY <1>3, BoundsAssumption DEF Abort, Reject, Costs, TypeOK
  <2>3. InFlight \in {0, 1} /\ InFlight' = 0
    BY <1>3 DEF Abort, Reject, InFlight
  <2>4. QED
    BY <1>0, <2>1, <2>2, <2>3
<1>4. ASSUME UNCHANGED <<claimed, delivered, raw, aborts, rejects>>, InFlight' = InFlight
      PROVE  Cardinality(Unstored') <= Costs' + InFlight'
  <2>1. Unstored' = Unstored
    BY <1>4 DEF Unstored
  <2>2. Costs' = Costs
    BY <1>4 DEF Costs
  <2>3. QED
    BY <1>4, <2>1, <2>2
<1>5. ASSUME NEW w \in Windows, Sync(w) PROVE Cardinality(Unstored') <= Costs' + InFlight'
  BY <1>4, <1>5 DEF Sync, InFlight
<1>6. CASE NextPage \/ Reply \/ Throttled \/ CooldownOver \/ Timeout
  BY <1>4, <1>6
     DEF NextPage, Reply, Throttled, CooldownOver, Timeout, PcAfterTimeout, InFlight, counters
<1>7. CASE SkipOpenRow \/ SkipDuplicate \/ PageDone \/ Return \/ UNCHANGED vars
  BY <1>4, <1>7 DEF SkipOpenRow, SkipDuplicate, PageDone, Return, vars, InFlight, counters
<1>8. CASE Publish
  BY <1>4, <1>8 DEF Publish, InFlight, counters
<1>9. QED
  BY <1>1, <1>2, <1>3, <1>5, <1>6, <1>7, <1>8 DEF Next, Step

\* A call that raises or dies costs at most the candle it has in hand, and a
\* false positive of the filter the candle it is about
\* (rest_client.py 209-234), however many calls there are.
THEOREM LittleLost == Spec => []LossBounded
<1>1. Init => LossBounded
  <2> SUFFICES ASSUME Init PROVE LossBounded
    OBVIOUS
  <2>1. {c \in claimed \ delivered : raw[c] = 0} = {}
    BY DEF Init
  <2>2. QED
    BY <2>1, FS_EmptySet DEF Init, LossBounded
<1>2. QED
  BY <1>1, LossNext, TypeInit, TypeNext, IInvInit, IInvNext, PTL DEF Spec

-----------------------------------------------------------------------------
(***************************************************************************)
(* Completeness.  A call has seen every candle that opens before its       *)
(* cursor, and in the row loop those of the page it has in hand but for    *)
(* the rows that are left.                                                 *)
(***************************************************************************)
Opening(from, to) == {c \in Candles : from <= Open(c) /\ Open(c) <= to}

Wanted(w) == {c \in Candles : w.start <= Open(c) /\ Close(c) <= w.end}

Asking  == pc \in {"page", "request", "cooldown"}
Storing == pc \in {"publish", "append"}
Looping == pc = "row" \/ Storing

InHand == Page(cursor, window.end)

Seen == {c \in Candles : Open(c) < cursor} \cup (IF Looping THEN InHand \ rows ELSE {})

\* The rows of a page are looked at in their order, and last_close is the
\* end of one of them.
RowsInv ==
    Looping =>
        /\ rows \subseteq InHand
        /\ InHand # {}
        /\ page_len = Cardinality(InHand)
        /\ \A c \in InHand \ rows, d \in rows : c < d
        /\ last_close # None => \E c \in InHand \ rows : last_close = Close(c)
        /\ Storing => kline \in InHand \ rows /\ \A c \in InHand \ rows : c <= kline

\* A candle that the call wants and has seen is claimed.
SeenInv ==
    /\ Asking \/ Looping => Wanted(window) \cap Seen \subseteq claimed /\ window.start <= cursor
    /\ (Asking \/ Looping) /\ OnePage(window) =>
           cursor = window.start \/ Wanted(window) \subseteq claimed
    /\ pc = "flush" /\ (OnePage(window) \/ FirstEver) => Wanted(window) \subseteq claimed

\* The first call finds no claim but its own.
FirstInv ==
    /\ syncs = 0 => pc = "idle" /\ completed = {} /\ claimed = delivered
    /\ FirstEver /\ (Asking \/ Looping) => claimed \subseteq Seen
    /\ FirstEver /\ pc = "row" =>
           \A c \in claimed \cap InHand : last_close # None /\ Close(c) <= last_close

\* Where no call died, what is claimed is published or about to be.
KeptInv ==
    aborts = 0 => \A c \in claimed :
        bronze[c] > 0 \/ c \in delivered \/ (pc = "publish" /\ kline = c)

\* What a completed call wanted is claimed, and not in the hands of this one.
Settled == claimed \ (IF pc = "publish" THEN {kline} ELSE {})

DoneInv ==
    \A w \in completed : OnePage(w) \/ FirstEver => Wanted(w) \subseteq Settled

SyncInv == RowsInv /\ SeenInv /\ FirstInv /\ KeptInv /\ DoneInv

\* Pages hold candles that open where they were asked for, without a gap.
LEMMA PageClosed ==
  ASSUME NEW from \in Nat, NEW to \in Nat
  PROVE  /\ Page(from, to) \subseteq Opening(from, to)
         /\ \A m \in Page(from, to), c \in Candles :
                c <= m /\ from <= Open(c) => c \in Page(from, to)
<1> DEFINE open == Opening(from, to)
<1>1. Page(from, to) = {c \in open : Cardinality({d \in open : d < c}) < PageSize}
  BY DEF Page, Opening
<1>2. Last \in Nat /\ PageSize \in Nat /\ IsFiniteSet(Candles) /\ open \subseteq Candles
  BY BoundsAssumption, FS_Interval DEF Candles, Opening
<1>3. IsFiniteSet(open)
  BY <1>2, FS_Subset
<1>4. ASSUME NEW m \in Page(from, to), NEW c \in Candles, c <= m, from <= Open(c)
      PROVE  c \in Page(from, to)
  <2>1. m \in open /\ Cardinality({d \in open : d < m}) < PageSize
    BY <1>1
  <2>2. c \in open
    BY <1>2, <1>4, <2>1 DEF Opening, Open, Candles
  <2>3. {d \in open : d < c} \in SUBSET {d \in open : d < m}
    BY <1>2, <1>4, <2>1 DEF Candles
  <2>4. {d \in open : d < m} \in SUBSET open
    OBVIOUS
  <2>5. IsFiniteSet({d \in open : d < m})
    BY <1>3, <2>4, FS_Subset
  <2>6. /\ Cardinality({d \in open : d < c}) <= Cardinality({d \in open : d < m})
        /\ IsFiniteSet({d \in open : d < c})
    BY <2>3, <2>5, FS_Subset
  <2>7. Cardinality({d \in open : d < c}) \in Nat /\ Cardinality({d \in open : d < m}) \in Nat
    BY <2>5, <2>6, FS_CardinalityType
  <2> HIDE DEF open
  <2>8. QED
    BY <1>1, <1>2, <2>1, <2>2, <2>6, <2>7
<1>5. QED
  BY <1>1, <1>4

\* A page that is not full holds all there is.
LEMMA ShortPage ==
  ASSUME NEW from \in Nat, NEW to \in Nat, Cardinality(Page(from, to)) < PageSize
  PROVE  Page(from, to) = Opening(from, to)
<1> DEFINE open == Opening(from, to)
           P == Page(from, to)
<1>1. P = {c \in open : Cardinality({d \in open : d < c}) < PageSize}
  BY DEF Page, Opening
<1>2. Last \in Nat /\ PageSize \in Nat /\ IsFiniteSet(Candles) /\ open \subseteq Candles
  BY BoundsAssumption, FS_Interval DEF Candles, Opening
<1>3. IsFiniteSet(P) /\ Cardinality(P) \in Nat /\ Candles \subseteq Nat
  <2>1. P \in SUBSET Candles
    BY <1>1, <1>2
  <2>2. QED
    BY <1>2, <2>1, FS_Subset, FS_CardinalityType DEF Candles
<1>4. SUFFICES ASSUME NEW x \in open \ P PROVE FALSE
  BY <1>1
<1> HIDE DEF open, P
<1>5. PICK m \in open \ P : \A c \in open \ P : m <= c
  <2>1. open \ P \subseteq Nat /\ open \ P # {}
    BY <1>2, <1>3, <1>4
  <2>2. PICK m \in open \ P : \A c \in open \ P : ~(<<c, m>> \in OpToRel(<, Nat))
    BY <2>1, WFMin, NatLessThanWellFounded
  <2>3. \A c \in open \ P : ~(c < m)
    BY <2>1, <2>2 DEF OpToRel
  <2>4. QED
    BY <2>1, <2>3
<1>6. {d \in open : d < m} \in SUBSET P
  <2>1. ASSUME NEW d \in open, d < m PROVE d \in P
    <3>1. d \in Nat /\ m \in Nat
      BY <1>2, <1>3, <1>5
    <3>2. QED
      BY <1>5, <2>1, <3>1
  <2>2. QED
    BY <2>1
<1>7. /\ Cardinality({d \in open : d < m}) <= Cardinality(P)
      /\ IsFiniteSet({d \in open : d < m})
  BY <1>3, <1>6, FS_Subset
<1>8. Cardinality({d \in open : d < m}) \in Nat
  BY <1>7, FS_CardinalityType
<1>9. ~(Cardinality({d \in open : d < m}) < PageSize)
  BY <1>1, <1>5
<1>10. QED
  BY <1>2, <1>3, <1>7, <1>8, <1>9 DEF P

\* One page suffices where no more candles open than it has room for.
LEMMA WholePage ==
  ASSUME NEW w \in Windows, OnePage(w)
  PROVE  Page(w.start, w.end) = Opening(w.start, w.end)
<1> DEFINE open == Opening(w.start, w.end)
<1>1. Page(w.start, w.end) = {c \in open : Cardinality({d \in open : d < c}) < PageSize}
  BY DEF Page, Opening
<1>2. /\ Last \in Nat /\ PageSize \in Nat /\ IsFiniteSet(Candles) /\ open \subseteq Candles
      /\ Cardinality(open) <= PageSize
  BY BoundsAssumption, FS_Interval DEF Candles, Opening, OnePage
<1>3. IsFiniteSet(open) /\ Cardinality(open) \in Nat
  BY <1>2, FS_Subset, FS_CardinalityType
<1> HIDE DEF open
<1>4. ASSUME NEW c \in open PROVE Cardinality({d \in open : d < c}) < PageSize
  <2>1. {d \in open : d < c} \in SUBSET (open \ {c}) /\ IsFiniteSet(open \ {c})
    BY <1>2, <1>3, FS_RemoveElement DEF Candles
  <2>2. Cardinality(open \ {c}) = Cardinality(open) - 1
    BY <1>3, FS_RemoveElement
  <2>3. /\ Cardinality({d \in open : d < c}) <= Cardinality(open \ {c})
        /\ IsFiniteSet({d \in open : d < c})
    BY <2>1, FS_Subset
  <2>4. Cardinality({d \in open : d < c}) \in Nat
    BY <2>3, FS_CardinalityType
  <2>5. QED
    BY <1>2, <1>3, <2>2, <2>3, <2>4
<1>5. QED
  BY <1>1, <1>4 DEF open

LEMMA SyncInit == Init => SyncInv
  BY DEF Init, SyncInv, RowsInv, SeenInv, FirstInv, KeptInv, DoneInv, Asking, Looping, Storing

LEMMA NoReject == TypeOK /\ [Next]_vars /\ rejects' = 0 => rejects = 0 /\ ~Reject
<1> SUFFICES ASSUME TypeOK, [Next]_vars, rejects' = 0 PROVE rejects = 0 /\ ~Reject
  OBVIOUS
<1>1. rejects \in Nat
  BY BoundsAssumption DEF TypeOK
<1>2. rejects' = rejects \/ rejects' = rejects + 1
  BY DEF Next, Sync, Step, NextPage, Reply, Throttled, CooldownOver, Timeout, SkipOpenRow,
         SkipDuplicate, Claim, Publish, AppendRaw, PageDone, Return, Reject, Abort, vars, counters
<1>3. Reject => rejects' = rejects + 1
  BY DEF Reject
<1>4. QED
  BY <1>1, <1>2, <1>3

LEMMA KeptNext == TypeOK /\ IInv /\ KeptInv /\ [Next]_vars /\ rejects' = 0 => KeptInv'
<1> SUFFICES ASSUME TypeOK, IInv, KeptInv, [Next]_vars, rejects' = 0 PROVE KeptInv'
  OBVIOUS
<1>1. ASSUME UNCHANGED <<claimed, bronze, delivered, aborts>>, pc # "publish"
      PROVE  KeptInv'
  BY <1>1 DEF KeptInv
<1>2. ASSUME NEW w \in Windows, Sync(w) PROVE KeptInv'
  BY <1>1, <1>2 DEF Sync
<1>3. CASE NextPage \/ Reply \/ Throttled \/ CooldownOver \/ Timeout
  BY <1>1, <1>3 DEF NextPage, Reply, Throttled, CooldownOver, Timeout, counters
<1>4. CASE SkipOpenRow \/ SkipDuplicate \/ PageDone \/ Return
  BY <1>1, <1>4 DEF SkipOpenRow, SkipDuplicate, PageDone, Return, counters
<1>5. CASE Claim
  BY <1>5 DEF Claim, ClaimedWith, KeptInv, counters
<1>6. CASE Publish
  <2>1. /\ kline \in Candles /\ bronze' = [bronze EXCEPT ![kline] = @ + 1]
        /\ bronze \in [Candles -> Nat] /\ claimed \subseteq Candles
    BY <1>6 DEF Publish, TypeOK, IInv, ClaimInv, Typed
  <2>2. \A c \in Candles : bronze[c] > 0 \/ c = kline => bronze'[c] > 0
    BY <2>1
  <2>3. QED
    BY <1>6, <2>1, <2>2 DEF Publish, KeptInv, counters
<1>7. CASE AppendRaw
  BY <1>1, <1>7 DEF AppendRaw, counters
<1>8. CASE Abort
  BY <1>8, BoundsAssumption DEF Abort, KeptInv, TypeOK
<1>9. CASE UNCHANGED vars
  BY <1>9 DEF vars, KeptInv, counters
<1>10. QED
  BY <1>2, <1>3, <1>4, <1>5, <1>6, <1>7, <1>8, <1>9, NoReject DEF Next, Step

\* What is left of the invariant, of which each step changes a part.
CallInv == RowsInv /\ SeenInv /\ FirstInv /\ DoneInv

\* Outside the row loop the invariant speaks of few variables.
LEMMA DoneKept ==
  ASSUME DoneInv, completed' = completed, FirstEver' => FirstEver, Settled \subseteq Settled'
  PROVE  DoneInv'
  BY DEF DoneInv, OnePage, Wanted

LEMMA CallIdle ==
  ASSUME CallInv, pc' = "idle", UNCHANGED <<claimed, delivered, completed, syncs>>
  PROVE  CallInv'
<1> USE DEF CallInv, Asking, Looping, Storing, FirstEver
<1>1. RowsInv' /\ SeenInv'
  BY DEF RowsInv, SeenInv
<1>2. FirstInv'
  BY DEF FirstInv
<1>3. DoneInv'
  BY DoneKept DEF Settled
<1>4. QED
  BY <1>1, <1>2, <1>3

LEMMA CallAsking ==
  ASSUME CallInv, Asking, Asking',
         UNCHANGED <<window, cursor, claimed, delivered, completed, syncs>>
  PROVE  CallInv'
<1> USE DEF CallInv, Asking, Looping, Storing, FirstEver
<1>1. RowsInv' /\ DoneInv'
  BY DoneKept DEF RowsInv, Settled
<1>2. Seen' = Seen
  BY DEF Seen
<1>3. SeenInv' /\ FirstInv'
  BY <1>2 DEF SeenInv, FirstInv, OnePage
<1>4. QED
  BY <1>1, <1>3

\* A call that stops asking has claimed what it wanted.
LEMMA CallFlushed ==
  ASSUME CallInv, Asking \/ Looping, pc' = "flush",
         UNCHANGED <<window, claimed, delivered, completed, syncs>>,
         OnePage(window) \/ FirstEver => Wanted(window) \subseteq claimed
  PROVE  CallInv'
<1> USE DEF CallInv, Asking, Looping, Storing, FirstEver
<1>1. RowsInv' /\ DoneInv'
  BY DoneKept DEF RowsInv, Settled
<1>2. SeenInv' /\ FirstInv'
  BY DEF SeenInv, FirstInv, OnePage
<1>3. QED
  BY <1>1, <1>2

LEMMA CallSync ==
  ASSUME TypeOK, CallInv, NEW w \in Windows, Sync(w)
  PROVE  CallInv'
<1> USE DEF CallInv, Asking, Looping, Storing, FirstEver
<1>1. /\ pc' = "page" /\ window' = w /\ cursor' = w.start /\ syncs' = syncs + 1
      /\ UNCHANGED <<claimed, delivered, completed>> /\ w.start \in Nat /\ syncs \in Nat
  BY BoundsAssumption DEF Sync, TypeOK, Windows, Times
<1>2. RowsInv'
  BY <1>1 DEF RowsInv
<1>3. SeenInv'
  <2>1. Seen' = {c \in Candles : Open(c) < w.start}
    BY <1>1 DEF Seen
  <2>2. Wanted(w) \cap Seen' = {}
    BY <1>1, <2>1 DEF Wanted, Open, Candles
  <2>3. QED
    BY <1>1, <2>2 DEF SeenInv
<1>4. FirstEver' => syncs = 0 /\ claimed = {} /\ completed = {}
  BY <1>1 DEF FirstInv
<1>5. FirstInv'
  BY <1>1, <1>4 DEF FirstInv
<1>6. DoneInv'
  BY <1>1, <1>4, DoneKept DEF DoneInv, Settled, Sync
<1>7. QED
  BY <1>2, <1>3, <1>5, <1>6

\* The cursor is behind the window, or the window is behind the last row.
LEMMA CallNextPage ==
  ASSUME TypeOK, CallInv, NextPage
  PROVE  CallInv'
<1>1. /\ window \in Windows /\ cursor \in Nat /\ window.end \in Nat /\ Asking
      /\ UNCHANGED <<window, cursor, claimed, delivered, completed, syncs>>
  BY DEF TypeOK, NextPage, Windows, Times, Asking, counters
<1>2. CASE pc' = "request"
  BY <1>1, <1>2, CallAsking DEF Asking
<1>3. CASE pc' = "flush"
  <2>1. window.end < cursor
    BY <1>1, <1>3 DEF NextPage
  <2>2. Wanted(window) \subseteq Seen
    BY <1>1, <2>1 DEF Wanted, Seen, Open, Close, Candles
  <2>3. Wanted(window) \subseteq claimed
    BY <1>1, <2>2 DEF CallInv, SeenInv
  <2>4. QED
    BY <1>1, <1>3, <2>3, CallFlushed
<1>4. QED
  BY <1>2, <1>3 DEF NextPage

LEMMA CallReply ==
  ASSUME TypeOK, CallInv, Reply
  PROVE  CallInv'
<1>1. /\ window \in Windows /\ cursor \in Nat /\ window.end \in Nat /\ window.start \in Nat
      /\ Asking /\ rows' = InHand /\ page_len' = Cardinality(InHand) /\ last_close' = None
      /\ UNCHANGED <<window, cursor, claimed, delivered, completed, syncs>>
      /\ pc' = IF InHand = {} THEN "flush" ELSE "row"
  BY DEF TypeOK, Reply, Windows, Times, Asking, counters, InHand
<1>2. CASE InHand = {}
  <2>1. Opening(cursor, window.end) = {}
    <3>1. Cardinality(InHand) < PageSize
      BY <1>2, FS_EmptySet, BoundsAssumption
    <3>2. QED
      BY <1>1, <1>2, <3>1, ShortPage DEF InHand
  <2>2. Wanted(window) \subseteq Seen
    BY <1>1, <2>1 DEF Wanted, Seen, Opening, Open, Close, Candles
  <2>3. Wanted(window) \subseteq claimed
    BY <1>1, <2>2 DEF CallInv, SeenInv
  <2>4. QED
    BY <1>1, <1>2, <2>3, CallFlushed
<1>3. CASE InHand # {}
  <2> USE DEF CallInv, Asking, Looping, Storing, FirstEver
  <2>1. InHand' = InHand /\ pc' = "row"
    BY <1>1, <1>3 DEF InHand
  <2>2. Seen' = Seen
    BY <1>1, <2>1 DEF Seen
  <2>3. RowsInv'
    BY <1>1, <1>3, <2>1 DEF RowsInv
  <2>4. SeenInv'
    BY <1>1, <2>1, <2>2 DEF SeenInv, OnePage
  <2>5. \A c \in InHand : cursor <= Open(c)
    BY <1>1, PageClosed DEF InHand, Opening
  <2>6. FirstEver => \A c \in claimed : c \notin InHand
    <3> SUFFICES ASSUME FirstEver, NEW c \in claimed, c \in InHand PROVE FALSE
      OBVIOUS
    <3>1. c \in Candles /\ Open(c) < cursor
      BY <1>1 DEF FirstInv, Seen
    <3>2. QED
      BY <1>1, <2>5, <3>1 DEF Open, Candles
  <2>7. FirstInv'
    BY <1>1, <2>1, <2>2, <2>6 DEF FirstInv
  <2>8. DoneInv'
    BY <1>1, <2>1, DoneKept DEF Settled
  <2>9. QED
    BY <2>3, <2>4, <2>7, <2>8
<1>4. QED
  BY <1>2, <1>3

\* The row loop goes through the page from its first candle on; a candle
\* that is not claimed on the way is claimed already or not wanted.
LEMMA CallRow ==
  ASSUME TypeOK, CallInv, pc = "row", NEW c \in rows, NextRow(c),
         rows' = rows \ {c},
         UNCHANGED <<window, cursor, page_len, last_close, delivered, completed, syncs>>,
         \/ /\ pc' = "row" /\ claimed' = claimed
            /\ c \in Wanted(window) => c \in claimed
         \/ /\ pc' = "publish" /\ claimed' = claimed \cup {c} /\ kline' = c
            /\ c \notin claimed
  PROVE  CallInv'
<1> USE DEF CallInv, Asking, Looping, Storing, FirstEver
<1>1. /\ rows \subseteq InHand /\ InHand' = InHand /\ rows \subseteq Candles
      /\ InHand \subseteq Candles /\ Candles \subseteq Int /\ window.end \in Nat /\ cursor \in Nat
  <2>1. cursor \in Nat /\ window.end \in Nat
    BY DEF TypeOK, Windows, Times
  <2>2. QED
    BY <2>1, PageClosed DEF RowsInv, InHand, TypeOK, Opening, Candles
<1>2. InHand \ rows' = (InHand \ rows) \cup {c}
  BY <1>1
<1>3. Seen' = Seen \cup {c}
  BY <1>1, <1>2 DEF Seen
<1>4. /\ \A d \in InHand \ rows : d < c
      /\ \A d \in rows' : c < d
  BY <1>1 DEF RowsInv, NextRow
<1>5. RowsInv'
  <2>1. \A d \in InHand \ rows', e \in rows' : d < e
    BY <1>2, <1>4 DEF RowsInv
  <2>2. last_close # None => \E d \in InHand \ rows' : last_close = Close(d)
    BY <1>2 DEF RowsInv
  <2>3. pc' = "publish" => c \in InHand \ rows' /\ \A d \in InHand \ rows' : d <= c
    BY <1>1, <1>2, <1>4
  <2>4. QED
    BY <1>1, <2>1, <2>2, <2>3 DEF RowsInv
<1>6. SeenInv'
  <2>1. Wanted(window) \cap Seen' \subseteq claimed' /\ claimed \subseteq claimed'
    BY <1>3 DEF SeenInv
  <2>2. QED
    BY <2>1 DEF SeenInv, OnePage, Wanted
<1>7. FirstInv'
  <2>1. FirstEver => claimed' \subseteq Seen'
    BY <1>3 DEF FirstInv
  <2>2. FirstEver /\ pc' = "row" =>
            \A d \in claimed \cap InHand : last_close # None /\ Close(d) <= last_close
    BY DEF FirstInv
  <2>3. QED
    BY <1>1, <2>1, <2>2 DEF FirstInv
<1>8. DoneInv'
  BY DoneKept DEF Settled
<1>9. QED
  BY <1>5, <1>6, <1>7, <1>8

\* The candle in hand is published, and stored after that.
LEMMA CallStore ==
  ASSUME TypeOK, IInv, CallInv, Publish \/ AppendRaw
  PROVE  CallInv'
<1> USE DEF CallInv, Asking, Looping, Storing, FirstEver
<1>1. /\ UNCHANGED <<window, cursor, rows, page_len, claimed, delivered, completed, syncs>>
      /\ InHand' = InHand /\ Seen' = Seen
      /\ window.end \in Nat /\ cursor \in Nat
  BY DEF Publish, AppendRaw, InHand, Seen, page, counters, TypeOK, Windows, Times
<1>2. kline \in InHand \ rows /\ \A c \in InHand \ rows : c <= kline
  BY DEF RowsInv, Publish, AppendRaw
<1>3. SeenInv' /\ DoneInv'
  <2>1. SeenInv'
    BY <1>1 DEF SeenInv, Publish, AppendRaw, OnePage
  <2>2. DoneInv'
    BY <1>1, DoneKept DEF Publish, AppendRaw, Settled
  <2>3. QED
    BY <2>1, <2>2
<1>4. CASE Publish
  <2>1. pc = "publish" /\ pc' = "append" /\ kline' = kline /\ last_close' = last_close
    BY <1>4 DEF Publish, page
  <2>2. RowsInv'
    BY <1>1, <2>1 DEF RowsInv
  <2>3. FirstInv'
    BY <1>1, <2>1 DEF FirstInv
  <2>4. QED
    BY <1>3, <2>2, <2>3
<1>5. CASE AppendRaw
  <2>1. pc = "append" /\ pc' = "row" /\ last_close' = Close(kline)
    BY <1>5 DEF AppendRaw
  <2>2. RowsInv'
    BY <1>1, <1>2, <2>1 DEF RowsInv
  <2>3. InHand \subseteq Opening(cursor, window.end)
    BY <1>1, PageClosed DEF InHand
  <2>4. Close(kline) # None
    <3>1. kline \in Candles
      BY <1>2, <2>3 DEF Opening
    <3>2. Close(kline) \in Nat
      BY <3>1 DEF Close, Candles
    <3>3. QED
      BY <3>2, NoneAssumption
  <2>5. ASSUME FirstEver, NEW c \in claimed \cap InHand PROVE Close(c) <= Close(kline)
    <3>1. c \in Candles /\ kline \in Candles /\ ~(Open(c) < cursor)
      <4>1. c \in Candles /\ kline \in Candles /\ cursor <= Open(c)
        BY <1>2, <2>3, <2>5 DEF Opening
      <4>2. QED
        BY <1>1, <4>1 DEF Open, Candles
    <3>2. c \in InHand \ rows
      BY <2>1, <2>5, <3>1 DEF FirstInv, Seen
    <3>3. QED
      BY <1>2, <3>1, <3>2 DEF Close, Candles
  <2>6. FirstInv'
    BY <1>1, <2>1, <2>4, <2>5 DEF FirstInv
  <2>7. QED
    BY <1>3, <2>2, <2>6
<1>6. QED
  BY <1>4, <1>5

\* The end of a page.  What it held is claimed, and it held all that opens
\* up to its last candle.
LEMMA CallPageDone ==
  ASSUME TypeOK, CallInv, PageDone
  PROVE  CallInv'
<1> DEFINE w == window
<1>1. /\ pc = "row" /\ rows = {} /\ Looping
      /\ UNCHANGED <<window, page_len, last_close, rows, claimed, delivered, completed, syncs>>
      /\ window \in Windows /\ cursor \in Nat /\ window.end \in Nat /\ window.start \in Nat
      /\ w.start <= cursor /\ Last \in Nat
  BY BoundsAssumption
     DEF PageDone, page, counters, TypeOK, Windows, Times, Looping, CallInv, SeenInv
<1>2. /\ InHand # {} /\ InHand \subseteq Opening(cursor, w.end)
      /\ \A m \in InHand, c \in Candles : c <= m /\ cursor <= Open(c) => c \in InHand
      /\ page_len = Cardinality(InHand)
      /\ last_close # None => \E c \in InHand : last_close = Close(c)
  BY <1>1, PageClosed DEF CallInv, RowsInv, InHand
<1>3. Wanted(w) \cap ({c \in Candles : Open(c) < cursor} \cup InHand) \subseteq claimed
  BY <1>1 DEF CallInv, SeenInv, Seen
<1>4. ASSUME InHand = Opening(cursor, w.end) PROVE Wanted(w) \subseteq claimed
  BY <1>1, <1>3, <1>4 DEF Wanted, Opening, Open, Close, Candles
<1>5. ASSUME OnePage(w) PROVE Wanted(w) \subseteq claimed
  <2>1. CASE cursor = w.start
    <3>1. InHand = Opening(cursor, w.end)
      BY <1>1, <1>5, <2>1, WholePage DEF InHand
    <3>2. QED
      BY <3>1, <1>4
  <2>2. QED
    BY <1>1, <1>5, <2>1 DEF CallInv, SeenInv
<1>6. ASSUME last_close # None
      PROVE  \E m \in InHand : /\ NextStart = Open(m) + 2 /\ last_close = Close(m) /\ m \in Candles
                               /\ cursor <= Open(m) /\ cursor < NextStart
  <2>1. PICK m \in InHand : last_close = Close(m)
    BY <1>2, <1>6
  <2>2. m \in Candles /\ cursor <= Open(m)
    BY <1>2 DEF Opening
  <2>3. QED
    BY <1>1, <2>1, <2>2 DEF NextStart, Close, Open, Candles
<1>7. CASE last_close = None
  <2>1. ASSUME FirstEver PROVE Wanted(w) \subseteq claimed
    <3>1. claimed \cap InHand = {}
      BY <1>1, <1>7, <2>1 DEF CallInv, FirstInv
    <3>2. PICK m \in InHand : m \in Candles /\ m \notin Wanted(w)
      BY <1>2, <1>3, <3>1 DEF Opening
    <3>3. w.end < Close(m)
      BY <1>1, <1>2, <3>2 DEF Wanted, Opening, Open, Close, Candles
    <3>4. \A c \in Wanted(w) : c \in Candles /\ (Open(c) < cursor \/ c \in InHand)
      <4> SUFFICES ASSUME NEW c \in Wanted(w), cursor <= Open(c) PROVE c \in InHand
        BY <1>1 DEF Wanted, Open, Candles
      <4>1. c <= m /\ c \in Candles
        BY <1>1, <3>2, <3>3 DEF Wanted, Close, Candles
      <4>2. QED
        BY <1>2, <4>1
    <3>5. QED
      BY <1>3, <3>4
  <2>2. pc' = "flush"
    BY <1>7 DEF PageDone
  <2>3. QED
    BY <1>1, <1>5, <2>1, <2>2, CallFlushed
<1>8. CASE last_close # None
  <2>1. PICK m \in InHand : /\ NextStart = Open(m) + 2 /\ last_close = Close(m) /\ m \in Candles
                            /\ cursor <= Open(m) /\ cursor < NextStart
    BY <1>6, <1>8
  <2>2. cursor' = NextStart /\ pc' = IF page_len < PageSize THEN "flush" ELSE "page"
    <3>1. ~(NextStart <= cursor)
      BY <1>1, <2>1 DEF Open, Candles
    <3>2. QED
      BY <1>8, <3>1 DEF PageDone
  <2>3. CASE page_len < PageSize
    <3>1. Wanted(w) \subseteq claimed
      BY <1>1, <1>2, <1>4, <2>3, ShortPage DEF InHand
    <3>2. QED
      BY <1>1, <2>2, <2>3, <3>1, CallFlushed
  <2>4. CASE ~(page_len < PageSize)
    <3> USE DEF Asking, Looping, Storing, FirstEver
    <3>1. pc' = "page" /\ cursor' = Open(m) + 2
      BY <2>1, <2>2, <2>4
    <3>2. \A c \in Candles : Open(c) < cursor' <=> c <= m
      BY <2>1, <3>1 DEF Open, Candles
    <3>3. Seen' = {c \in Candles : c <= m}
      BY <3>1, <3>2 DEF Seen
    <3>4. \A c \in Candles : c <= m => Open(c) < cursor \/ c \in InHand
      BY <1>1, <1>2 DEF Open, Candles
    <3>5. SeenInv'
      <4>1. Wanted(w) \cap Seen' \subseteq claimed
        BY <1>3, <3>3, <3>4
      <4>2. w.start <= cursor'
        BY <1>1, <2>1, <3>1 DEF Open, Candles
      <4>3. Wanted(window)' = Wanted(w) /\ (OnePage(window)' => OnePage(w))
        BY <1>1 DEF Wanted, OnePage
      <4>4. QED
        BY <1>1, <1>5, <3>1, <4>1, <4>2, <4>3 DEF SeenInv
    <3>6. FirstInv'
      <4>1. ASSUME FirstEver, NEW c \in claimed PROVE c \in Candles /\ c <= m
        <5>1. c \in Candles /\ (Open(c) < cursor \/ c \in InHand)
          <6>1. claimed \subseteq Seen
            BY <1>1, <4>1 DEF CallInv, FirstInv
          <6>2. QED
            BY <1>1, <1>2, <4>1, <6>1 DEF Seen, Opening
        <5>2. CASE Open(c) < cursor
          BY <1>1, <2>1, <5>1, <5>2 DEF Open, Candles
        <5>3. CASE c \in InHand
          <6>1. Close(c) <= last_close /\ last_close = Close(m)
            BY <1>1, <2>1, <4>1, <5>3 DEF CallInv, FirstInv
          <6>2. QED
            BY <2>1, <5>1, <6>1 DEF Close, Candles
        <5>4. QED
          BY <5>1, <5>2, <5>3
      <4>2. QED
        BY <1>1, <3>1, <3>3, <4>1 DEF CallInv, FirstInv
    <3>7. RowsInv' /\ DoneInv'
      BY <1>1, <3>1, DoneKept DEF CallInv, RowsInv, Settled
    <3>8. QED
      BY <3>5, <3>6, <3>7 DEF CallInv
  <2>5. QED
    BY <2>3, <2>4
<1>9. QED
  BY <1>7, <1>8

LEMMA CallReturn ==
  ASSUME CallInv, Return
  PROVE  CallInv'
<1> USE DEF CallInv, Asking, Looping, Storing, FirstEver
<1>1. /\ pc = "flush" /\ pc' = "idle" /\ completed' = completed \cup {window}
      /\ UNCHANGED <<window, claimed, delivered, syncs>>
  BY DEF Return, counters
<1>2. RowsInv' /\ SeenInv' /\ FirstInv'
  BY <1>1 DEF RowsInv, SeenInv, FirstInv
<1>3. DoneInv'
  BY <1>1 DEF SeenInv, DoneInv, Settled, OnePage, Wanted
<1>4. QED
  BY <1>2, <1>3

LEMMA CallNext == TypeOK /\ IInv /\ CallInv /\ [Next]_vars /\ rejects' = 0 => CallInv'
<1> SUFFICES ASSUME TypeOK, IInv, CallInv, [Next]_vars, rejects' = 0 PROVE CallInv'
  OBVIOUS
<1>1. ASSUME NEW w \in Windows, Sync(w) PROVE CallInv'
  BY <1>1, CallSync
<1>2. CASE NextPage
  BY <1>2, CallNextPage
<1>3. CASE Reply
  BY <1>3, CallReply
<1>4. CASE Throttled \/ CooldownOver \/ Timeout
  <2>1. UNCHANGED <<window, cursor, claimed, delivered, completed, syncs>>
    BY <1>4 DEF Throttled, CooldownOver, Timeout, counters
  <2>2. Asking /\ (Asking' \/ pc' = "idle")
    BY <1>4 DEF Throttled, CooldownOver, Timeout, PcAfterTimeout, Asking
  <2>3. QED
    BY <2>1, <2>2, CallAsking, CallIdle
<1>5. CASE SkipOpenRow
  <2>1. PICK c \in rows : NextRow(c) /\ Close(c) > window.end /\ rows' = rows \ {c}
    BY <1>5 DEF SkipOpenRow
  <2>2. c \notin Wanted(window)
    BY <2>1 DEF Wanted, Close, TypeOK, Candles, Windows, Times
  <2>3. /\ pc = "row" /\ pc' = "row"
        /\ UNCHANGED <<window, cursor, page_len, last_close, claimed, delivered, completed, syncs>>
    BY <1>5 DEF SkipOpenRow, counters
  <2>4. QED
    BY <2>1, <2>2, <2>3, CallRow
<1>6. CASE SkipDuplicate
  <2>1. PICK c \in rows : NextRow(c) /\ c \in claimed /\ rows' = rows \ {c}
    BY <1>6 DEF SkipDuplicate, IsDuplicate
  <2>2. /\ pc = "row" /\ pc' = "row"
        /\ UNCHANGED <<window, cursor, page_len, last_close, claimed, delivered, completed, syncs>>
    BY <1>6 DEF SkipDuplicate, counters
  <2>3. QED
    BY <2>1, <2>2, CallRow
<1>7. CASE Claim
  <2>1. PICK c \in rows : /\ NextRow(c) /\ rows' = rows \ {c} /\ kline' = c
                          /\ claimed' = claimed \cup {c} /\ c \notin claimed
    BY <1>7 DEF Claim, ClaimedWith, IsDuplicate
  <2>2. /\ pc = "row" /\ pc' = "publish"
        /\ UNCHANGED <<window, cursor, page_len, last_close, delivered, completed, syncs>>
    BY <1>7 DEF Claim, counters
  <2>3. QED
    BY <2>1, <2>2, CallRow
<1>8. CASE Publish \/ AppendRaw
  BY <1>8, CallStore
<1>9. CASE PageDone
  BY <1>9, CallPageDone
<1>10. CASE Return
  BY <1>10, CallReturn
<1>11. CASE Abort
  BY <1>11, CallIdle DEF Abort
<1>12. CASE UNCHANGED vars
  <2>1. /\ UNCHANGED <<pc, window, cursor, rows, page_len, last_close, kline>>
        /\ UNCHANGED <<claimed, delivered, completed, syncs>>
    BY <1>12 DEF vars, page, counters
  <2>2. QED
    BY <2>1 DEF CallInv, RowsInv, SeenInv, FirstInv, DoneInv, OnePage, FirstEver, Asking,
                Looping, Storing, InHand, Seen, Wanted, Settled
<1>13. QED
  BY <1>1, <1>2, <1>3, <1>4, <1>5, <1>6, <1>7, <1>8, <1>9, <1>10, <1>11, <1>12, NoReject
     DEF Next, Step

\* A sync that returned left no hole in its window, for any page size and
\* any number of candles: where it fits a page or was the first, no call died
\* and the filter rejected nothing (rest_client.py 159-243).
THEOREM Complete == Spec => []SyncComplete
<1>1. IInv /\ (rejects = 0 => SyncInv) => SyncComplete
  <2> SUFFICES ASSUME IInv, SyncInv, aborts = 0, NEW w \in completed, OnePage(w) \/ FirstEver,
                      NEW c \in Candles, w.start <= Open(c), Close(c) <= w.end
               PROVE  bronze[c] > 0 \/ c \in delivered
    BY DEF SyncComplete
  <2>1. c \in Settled
    BY DEF SyncInv, DoneInv, Wanted
  <2>2. QED
    BY <2>1 DEF SyncInv, KeptInv, Settled
<1>2. SyncInv <=> CallInv /\ KeptInv
  BY DEF SyncInv, CallInv
<1>3. TypeOK /\ IInv /\ (rejects = 0 => SyncInv) /\ [Next]_vars => (rejects = 0 => SyncInv)'
  <2> SUFFICES ASSUME TypeOK, IInv, rejects = 0 => SyncInv, [Next]_vars, rejects' = 0
               PROVE  CallInv' /\ KeptInv'
    BY DEF SyncInv, CallInv
  <2>1. QED
    BY <1>2, CallNext, KeptNext, NoReject
<1>4. QED
  BY <1>1, <1>3, SyncInit, TypeInit, TypeNext, IInvInit, IInvNext, PTL DEF Spec

-----------------------------------------------------------------------------
(***************************************************************************)
(* The sync takes keys as KeyClaims does.  A candle is in hand from its    *)
(* claim to its line in the raw file and at no other time, so a step other *)
(* than a claim, an append, a rejection or an abort changes nobody's fate. *)
(***************************************************************************)
HandInv == pc \notin {"publish", "append"} => kline = None

LEMMA HandNext == HandInv /\ [Next]_vars => HandInv'
<1> SUFFICES ASSUME HandInv, [Next]_vars PROVE HandInv'
  OBVIOUS
<1> USE DEF HandInv, counters, page
<1>1. ASSUME NEW w \in Windows, Sync(w) PROVE HandInv'
  BY <1>1 DEF Sync
<1>2. CASE NextPage \/ Reply \/ Throttled \/ CooldownOver \/ Timeout \/ Return
  BY <1>2 DEF NextPage, Reply, Throttled, CooldownOver, Timeout, Return
<1>3. CASE SkipOpenRow \/ SkipDuplicate \/ Claim \/ Publish \/ AppendRaw \/ PageDone
  BY <1>3 DEF SkipOpenRow, SkipDuplicate, Claim, Publish, AppendRaw, PageDone
<1>4. CASE Reject \/ Abort \/ UNCHANGED vars
  BY <1>4 DEF Reject, Abort, vars
<1>5. QED
  BY <1>1, <1>2, <1>3, <1>4 DEF Next, Step

\* The candle in hand leaves it, with a line or without.
LEMMA Settles ==
  ASSUME NEW c \in Candles, c = kline, c \notin delivered, kline' = None,
         UNCHANGED <<claimed, delivered>>, \A d \in Candles \ {c} : raw'[d] = raw[d],
         raw'[c] = 1 \/ (raw'[c] = 0 /\ c \in claimed)
  PROVE  Claims!Next
<1> DEFINE F == [d \in Candles |-> FateOf(d)]
           H == [t \in {"sync"} |-> kline]
<1>1. None \notin Candles
  BY NoneAssumption DEF Candles
<1>2. FateOf(c)' \in {"done", "lost"}
  BY <1>1 DEF FateOf, Arrivals
<1>3. \A d \in Candles : d # c => FateOf(d)' = FateOf(d)
  BY <1>1 DEF FateOf, Arrivals
<1>4. F' = [F EXCEPT ![c] = FateOf(c)'] /\ H' = [H EXCEPT !["sync"] = None]
  BY <1>2, <1>3
<1>5. PICK outcome \in {"done", "lost"} : outcome = FateOf(c)'
  BY <1>2
<1>6. Claims!Settle("sync", outcome)
  BY <1>1, <1>4, <1>5 DEF Claims!Settle
<1>7. QED
  BY <1>6 DEF Claims!Next

\* One fate at most changes, and the hand with it.
LEMMA ClaimStep ==
  ASSUME TypeOK, IInv, HandInv, IInv', HandInv', [Next]_vars
  PROVE  [Claims!Next]_(Claims!vars)
<1> DEFINE F == [c \in Candles |-> FateOf(c)]
           H == [t \in {"sync"} |-> kline]
<1>1. None \notin Candles
  BY NoneAssumption DEF Candles
<1>2. CASE Claim
  <2>1. PICK c \in rows : c \notin claimed /\ kline' = c /\ claimed' = claimed \cup {c}
    BY <1>2 DEF Claim, ClaimedWith, IsDuplicate
  <2>2. c \in Candles /\ kline = None /\ UNCHANGED <<raw, delivered>>
    BY <1>2, <2>1 DEF Claim, HandInv, IInv, Typed
  <2>3. FateOf(c) = "free" /\ FateOf(c)' = "taken"
    BY <1>1, <2>1, <2>2 DEF FateOf, Arrivals, IInv, Typed, ClaimInv
  <2>4. \A d \in Candles : d # c => FateOf(d)' = FateOf(d)
    BY <1>1, <2>1, <2>2 DEF FateOf, Arrivals
  <2>5. F' = [F EXCEPT ![c] = "taken"] /\ H' = [H EXCEPT !["sync"] = c]
    BY <2>1, <2>2, <2>3, <2>4
  <2>6. Claims!Take("sync", c)
    BY <2>2, <2>3, <2>5 DEF Claims!Take
  <2>7. QED
    BY <2>2, <2>6 DEF Claims!Next
<1>3. CASE AppendRaw
  <2>1. PICK c \in Candles : c = kline
    BY <1>3 DEF AppendRaw, IInv, Typed, ClaimInv
  <2>2. /\ raw' = [raw EXCEPT ![c] = 1] /\ c \notin delivered
        /\ kline' = None /\ UNCHANGED <<claimed, delivered>>
    BY <1>3, <2>1 DEF AppendRaw, IInv, Typed, ClaimInv
  <2>3. raw' \in [Candles -> Nat] /\ raw'[c] = 1 /\ \A d \in Candles \ {c} : raw'[d] = raw[d]
    BY <2>2 DEF IInv, Typed
  <2>4. QED
    BY <2>1, <2>2, <2>3, Settles
<1>4. CASE (Abort \/ Reject) /\ kline # None
  <2>1. PICK c \in Candles : c = kline
    BY <1>4 DEF IInv, Typed
  <2>2. c \in claimed /\ c \notin delivered /\ raw[c] = 0
    BY <1>4, <2>1 DEF HandInv, IInv, Typed, ClaimInv
  <2>3. kline' = None /\ UNCHANGED <<raw, claimed, delivered>>
    BY <1>4 DEF Abort, Reject
  <2>4. QED
    BY <2>1, <2>2, <2>3, Settles
<1>5. ASSUME UNCHANGED <<claimed, delivered, raw, kline>> PROVE UNCHANGED Claims!vars
  BY <1>5 DEF Claims!vars, FateOf, Arrivals
<1>6. CASE (Abort \/ Reject) /\ kline = None
  BY <1>5, <1>6 DEF Abort, Reject
<1>7. ASSUME NEW w \in Windows, Sync(w) PROVE UNCHANGED Claims!vars
  BY <1>5, <1>7 DEF Sync
<1>8. CASE NextPage \/ Reply \/ Throttled \/ CooldownOver \/ Timeout \/ Publish
  BY <1>5, <1>8 DEF NextPage, Reply, Throttled, CooldownOver, Timeout, Publish
<1>9. CASE SkipOpenRow \/ SkipDuplicate \/ PageDone \/ Return \/ UNCHANGED vars
  BY <1>5, <1>9 DEF SkipOpenRow, SkipDuplicate, PageDone, Return, vars
<1>10. QED
  BY <1>2, <1>3, <1>4, <1>6, <1>7, <1>8, <1>9 DEF Next, Step

\* A sync is a taker of KeyClaims: it stores the candle it took or loses it
\* for good, one at a time, whatever windows overlap (rest_client.py 209-234).
THEOREM SyncTakesKeys == Spec => ImplementsKeyClaims
<1> DEFINE Inv == TypeOK /\ IInv /\ HandInv
<1>1. Init => Inv /\ Claims!Init
  <2> SUFFICES ASSUME Init PROVE Inv /\ Claims!Init
    OBVIOUS
  <2>1. Inv
    BY TypeInit, IInvInit DEF Init, HandInv
  <2>2. \A c \in Candles : FateOf(c) \in {"free", "done"}
    <3>1. \A c \in Candles : raw[c] = 0 /\ kline = None /\ claimed = delivered
      BY DEF Init
    <3>2. QED
      BY <3>1 DEF FateOf, Arrivals
  <2>3. kline = None
    BY DEF Init
  <2>4. QED
    BY <2>1, <2>2, <2>3 DEF Claims!Init
<1>2. Inv /\ [Next]_vars => Inv'
  BY TypeNext, IInvNext, HandNext
<1>3. Inv /\ Inv' /\ [Next]_vars => [Claims!Next]_(Claims!vars)
  BY ClaimStep
<1>4. QED
  BY <1>1, <1>2, <1>3, PTL DEF Spec, ImplementsKeyClaims, Claims!Spec

-----------------------------------------------------------------------------
(* The token bucket.                                                       *)

\* Products of natural numbers, stated where the provers need them.
LEMMA Product == \A a, b \in Nat : a * b \in Nat
  OBVIOUS

LEMMA ProductMonotone == \A a, b, r \in Nat : a <= b => a * r <= b * r
<1> SUFFICES ASSUME NEW a \in Nat, NEW b \in Nat, NEW r \in Nat, a <= b
             PROVE  a * r <= b * r
  OBVIOUS
<1>1. b * r = a * r + (b - a) * r
  OBVIOUS
<1>2. b - a \in Nat /\ (b - a) * r \in Nat /\ a * r \in Nat
  BY Product
<1> QED
  BY <1>1, <1>2

LEMMA Difference == \A a \in Nat : \A b \in 0..a : a - b \in Nat
  OBVIOUS

\* The smaller of a sum and the capacity.
LEMMA CappedSum ==
    \A t \in 0..Capacity, e \in Nat :
        (IF t + e < Capacity THEN t + e ELSE Capacity) \in t..Capacity
  BY BucketAssumption

\* A sum that stays within its bound when both grow by no more than d.
LEMMA SumBelow ==
    \A r, r2, g, b, d \in Nat : r + g <= b /\ (r2 <= d \/ r2 <= r + d) => r2 + g <= b + d
  OBVIOUS

\* A lazy refill never loses tokens and never exceeds the capacity.
LEMMA RefilledRange ==
    ASSUME BucketTypeOK
    PROVE  /\ Refilled \in tokens..Capacity
           /\ (now - last_refill) * Refill \in Nat
<1>1. (now - last_refill) * Refill \in Nat
  BY Product, BucketAssumption DEF BucketTypeOK
<1> QED
  BY <1>1, BucketAssumption DEF Refilled, BucketTypeOK

\* The same after a step.
LEMMA RefilledRangeNext ==
    ASSUME BucketTypeOK'
    PROVE  Refilled' \in tokens'..Capacity
<1>1. now' \in Nat /\ last_refill' \in 0..now' /\ tokens' \in 0..Capacity
  BY DEF BucketTypeOK
<1>2. now' - last_refill' \in Nat
  BY <1>1, Difference
<1>3. (now' - last_refill') * Refill \in Nat
  BY <1>2, Product, BucketAssumption
<1> QED
  BY <1>1, <1>3, CappedSum DEF Refilled

-----------------------------------------------------------------------------
LEMMA BucketNextType == BucketTypeOK /\ [BucketNext]_bucket_vars => BucketTypeOK'
<1> SUFFICES ASSUME BucketTypeOK, [BucketNext]_bucket_vars PROVE BucketTypeOK'
  OBVIOUS
<1> USE BucketAssumption DEF BucketTypeOK
<1>1. ASSUME NEW c \in Callers, NEW n \in Amounts, Call(c, n) PROVE BucketTypeOK'
  BY <1>1 DEF Call, bucket, observer
<1>2. ASSUME NEW c \in Callers, Try(c) PROVE BucketTypeOK'
  <2>1. Refilled \in 0..Capacity
    BY RefilledRange
  <2>2. CASE Refilled >= needed[c]
    BY <1>2, <2>1, <2>2 DEF Try, LastRefill
  <2>3. CASE ~(Refilled >= needed[c])
    <3>1. PICK pause \in 0..Capacity : wake' = [wake EXCEPT ![c] = now + pause]
      BY <1>2, <2>3 DEF Try
    <3> QED
      BY <1>2, <2>1, <2>3, <3>1 DEF Try, LastRefill
  <2> QED
    BY <2>2, <2>3
<1>3. CASE Reset
  BY <1>3 DEF Reset, caller
<1>4. CASE Tick
  BY <1>4 DEF Tick, caller, bucket, observer
<1>5. CASE Observe
  BY <1>5 DEF Observe, caller, bucket
<1>6. CASE UNCHANGED bucket_vars
  BY <1>6 DEF bucket_vars, caller, bucket, observer
<1> QED
  BY <1>1, <1>2, <1>3, <1>4, <1>5, <1>6 DEF BucketNext

LEMMA BucketInitType == BucketInit => BucketTypeOK
  BY BucketAssumption DEF BucketInit, BucketTypeOK

\* The bucket never holds more than its capacity, and time does not run back.
THEOREM TokensCorrect == BucketSpec => []BucketTypeOK
  BY BucketInitType, BucketNextType, PTL DEF BucketSpec

-----------------------------------------------------------------------------
(***************************************************************************)
(* The rate.  What was granted and what could be granted at once together  *)
(* stay under the bound: a tick adds Refill to both sides, a grant moves   *)
(* tokens from one summand to the other, a reset adds a whole bucket.      *)
(***************************************************************************)
Budget == Capacity * (1 + resets) + (now - since) * Refill

BudgetInv == Refilled + granted <= Budget

\* Both products of the budget are natural numbers, before and after a step.
LEMMA BudgetType ==
    /\ BucketTypeOK => Budget \in Nat /\ (now - since) * Refill \in Nat
    /\ BucketTypeOK' => Budget' \in Nat
<1>1. ASSUME NEW r \in Nat, NEW d \in Nat
      PROVE  Capacity * (1 + r) \in Nat /\ d * Refill \in Nat
  BY Product, BucketAssumption
<1>2. ASSUME BucketTypeOK PROVE Budget \in Nat /\ (now - since) * Refill \in Nat
  <2>1. resets \in Nat /\ now - since \in Nat
    BY <1>2 DEF BucketTypeOK
  <2> QED
    BY <1>1, <2>1 DEF Budget
<1>3. ASSUME BucketTypeOK' PROVE Budget' \in Nat
  <2>1. resets' \in Nat /\ now' \in Nat /\ since' \in 0..now'
    BY <1>3 DEF BucketTypeOK
  <2>2. now' - since' \in Nat
    BY <2>1, Difference
  <2> QED
    BY <1>1, <2>1, <2>2 DEF Budget
<1> QED
  BY <1>2, <1>3

LEMMA NextBudget == BucketTypeOK /\ BudgetInv /\ [BucketNext]_bucket_vars => BudgetInv'
<1> SUFFICES ASSUME BucketTypeOK, BudgetInv, [BucketNext]_bucket_vars PROVE BudgetInv'
  OBVIOUS
<1>0. /\ BucketTypeOK'
      /\ Refilled \in tokens..Capacity /\ Refilled' \in tokens'..Capacity
      /\ Budget \in Nat /\ Budget' \in Nat
  <2>1. BucketTypeOK'
    BY BucketNextType
  <2>2. Refilled' \in tokens'..Capacity
    BY <2>1, RefilledRangeNext
  <2> QED
    BY <2>1, <2>2, RefilledRange, BudgetType
<1>1. ASSUME NEW c \in Callers, NEW n \in Amounts, Call(c, n) PROVE BudgetInv'
  BY <1>1 DEF Call, bucket, observer, BudgetInv, Budget, Refilled
<1>2. ASSUME NEW c \in Callers, Try(c) PROVE BudgetInv'
  <2>1. Budget' = Budget
    BY <1>2 DEF Try, Budget
  <2>2. now' = now /\ last_refill' = now /\ now \in Nat
    BY <1>2 DEF Try, LastRefill, BucketTypeOK
  <2>3. tokens' \in 0..Capacity
    BY <1>0 DEF BucketTypeOK
  <2>4. Refilled' = tokens'
    <3>1. (now' - last_refill') * Refill = 0
      BY <2>2, BucketAssumption
    <3> QED
      BY <2>3, <3>1, BucketAssumption DEF Refilled
  <2>5. tokens' + granted' = Refilled + granted
    <3>1. needed[c] \in Nat /\ granted \in Nat /\ Refilled \in Nat
      BY <1>0, BucketAssumption DEF BucketTypeOK
    <3>2. \/ tokens' = Refilled - needed[c] /\ granted' = granted + needed[c]
          \/ tokens' = Refilled /\ granted' = granted
      BY <1>2 DEF Try
    <3> HIDE DEF Refilled
    <3> QED
      BY <3>1, <3>2
  <2> QED
    BY <2>1, <2>4, <2>5 DEF BudgetInv
<1>3. CASE Reset
  <2>1. Budget' = Budget + Capacity
    BY <1>3, BucketAssumption DEF Reset, Budget, BucketTypeOK
  <2>2. Refilled' <= Capacity /\ granted' = granted
    BY <1>0, <1>3, BucketAssumption DEF Reset, BucketTypeOK
  <2>3. granted \in Nat /\ Refilled \in Nat
    BY <1>0, BucketAssumption DEF BucketTypeOK
  <2>4. Refilled' \in Nat
    BY <1>0, BucketAssumption DEF BucketTypeOK
  <2> QED
    BY <1>0, <2>1, <2>2, <2>3, <2>4, SumBelow, BucketAssumption DEF BudgetInv
<1>4. CASE Tick
  <2>1. (now' - since') * Refill = (now - since) * Refill + Refill
    BY <1>4, BucketAssumption DEF Tick, observer, BucketTypeOK
  <2>2. Budget' = Budget + Refill
    BY <1>4, <2>1, BudgetType, BucketAssumption DEF Tick, observer, Budget, BucketTypeOK
  <2>3. (now' - last_refill') * Refill = (now - last_refill) * Refill + Refill
    BY <1>4, BucketAssumption DEF Tick, bucket, BucketTypeOK
  <2>4. Refilled' <= Refilled + Refill
    BY <1>4, <2>3, RefilledRange, BucketAssumption DEF Tick, bucket, Refilled, BucketTypeOK
  <2>5. granted' = granted /\ granted \in Nat /\ Refilled \in Nat /\ Refilled' \in Nat
    BY <1>0, <1>4, BucketAssumption DEF Tick, observer, BucketTypeOK
  <2> QED
    BY <1>0, <2>2, <2>4, <2>5, SumBelow, BucketAssumption DEF BudgetInv
<1>5. CASE Observe
  <2>1. Budget' = Capacity /\ granted' = 0
    BY <1>5, BucketAssumption DEF Observe, Budget, BucketTypeOK
  <2>2. \A t \in Nat : \A r \in t..Capacity : r + 0 <= Capacity
    BY BucketAssumption
  <2>3. tokens' \in Nat
    BY <1>0 DEF BucketTypeOK
  <2> QED
    BY <1>0, <2>1, <2>2, <2>3 DEF BudgetInv
<1>6. CASE UNCHANGED bucket_vars
  BY <1>6 DEF bucket_vars, caller, bucket, observer, BudgetInv, Budget, Refilled
<1> QED
  BY <1>1, <1>2, <1>3, <1>4, <1>5, <1>6 DEF BucketNext

\* In every window of every length the limiter grants at most one bucket, the
\* refill of the window, and one bucket for each reset (lines 60-87).
THEOREM RateBound == BucketSpec => []GrantsBounded
<1>1. BucketInit => BucketTypeOK /\ BudgetInv
  <2> SUFFICES ASSUME BucketInit PROVE BudgetInv
    BY BucketInitType
  <2>1. Refilled \in tokens..Capacity
    BY BucketInitType, RefilledRange
  <2> QED
    BY <2>1, BucketAssumption DEF BucketInit, BudgetInv, Budget
<1>2. BucketTypeOK /\ BudgetInv /\ [BucketNext]_bucket_vars => (BucketTypeOK /\ BudgetInv)'
  BY BucketNextType, NextBudget
<1>3. BucketTypeOK /\ BudgetInv => GrantsBounded
  <2> SUFFICES ASSUME BucketTypeOK, BudgetInv PROVE GrantsBounded
    OBVIOUS
  <2> QED
    BY RefilledRange, BudgetType DEF BucketTypeOK, BudgetInv, Budget, GrantsBounded
<1> QED
  BY <1>1, <1>2, <1>3, PTL DEF BucketSpec

-----------------------------------------------------------------------------
(***************************************************************************)
(* Sleepers.  What the bucket holds when a caller goes to sleep and what   *)
(* the sleep adds cover its request.  A tick changes neither, a refill     *)
(* moves time from the second to the first, a reset fills the bucket, and  *)
(* a grant to another caller moves tokens into taken.                      *)
(***************************************************************************)
\* With held tokens at time at, the caller's sleep will have been enough.
Covered(c, held, at) ==
    \/ held + taken[c] >= needed[c]
    \/ at <= wake[c] /\ held + taken[c] + (wake[c] - at) * Refill >= needed[c]

SleepInv ==
    \A c \in Callers :
        state[c] = "sleeping" /\ needed[c] <= Capacity => Covered(c, tokens, last_refill)

\* The cover survives a refill.
LEMMA RefillCovers ==
    ASSUME BucketTypeOK, NEW c \in Callers, needed[c] <= Capacity,
           Covered(c, tokens, last_refill)
    PROVE  Covered(c, Refilled, now)
<1> USE BucketAssumption DEF BucketTypeOK
<1>1. /\ needed[c] \in Nat /\ wake[c] \in Nat /\ taken[c] \in Nat /\ tokens \in Nat
      /\ now \in Nat /\ last_refill \in Nat /\ last_refill <= now
  OBVIOUS
<1>2. Refilled \in Nat /\ Refilled >= tokens
  BY RefilledRange
<1>3. CASE tokens + taken[c] >= needed[c]
  BY <1>1, <1>2, <1>3 DEF Covered
<1>4. CASE Refilled = Capacity
  BY <1>1, <1>4 DEF Covered
<1>5. CASE /\ last_refill <= wake[c]
           /\ tokens + taken[c] + (wake[c] - last_refill) * Refill >= needed[c]
           /\ Refilled # Capacity
  <2>1. Refilled = tokens + (now - last_refill) * Refill
    BY <1>5 DEF Refilled
  <2>2. /\ now - last_refill \in Nat /\ wake[c] - last_refill \in Nat
        /\ (now - last_refill) * Refill \in Nat /\ (wake[c] - last_refill) * Refill \in Nat
    BY <1>1, <1>5, Product
  <2>3. CASE now <= wake[c]
    <3>1. (wake[c] - last_refill) * Refill
            = (now - last_refill) * Refill + (wake[c] - now) * Refill
      BY <1>1, <2>3
    <3>2. (wake[c] - now) * Refill \in Nat
      BY <1>1, <2>3, Product
    <3> HIDE DEF Refilled
    <3> QED
      BY <1>1, <1>5, <2>1, <2>2, <2>3, <3>1, <3>2 DEF Covered
  <2>4. CASE wake[c] <= now
    <3>1. (wake[c] - last_refill) * Refill <= (now - last_refill) * Refill
      BY <1>1, <2>2, <2>4, ProductMonotone
    <3> QED
      BY <1>1, <1>5, <2>1, <2>2, <3>1 DEF Covered
  <2> QED
    BY <1>1, <2>3, <2>4
<1> QED
  BY <1>3, <1>4, <1>5 DEF Covered

\* A sleep that is over has refilled what it was to refill.
LEMMA SleepEnough == BucketTypeOK /\ SleepInv => SleepSuffices
<1> SUFFICES ASSUME BucketTypeOK, SleepInv, NEW c \in Callers, Awake(c), needed[c] <= Capacity
             PROVE  Refilled + taken[c] >= needed[c]
  BY DEF SleepSuffices
<1>1. Covered(c, Refilled, now)
  BY RefillCovers DEF SleepInv, Awake
<1>2. now \in Nat /\ wake[c] \in Nat /\ wake[c] <= now /\ taken[c] \in Nat /\ Refilled \in Nat
  BY RefilledRange, BucketAssumption DEF Awake, BucketTypeOK
<1>3. now <= wake[c] => (wake[c] - now) * Refill = 0
  BY <1>2, BucketAssumption
<1> HIDE DEF Refilled
<1> QED
  BY <1>1, <1>2, <1>3 DEF Covered, BucketTypeOK

LEMMA NextSleep == BucketTypeOK /\ SleepInv /\ [BucketNext]_bucket_vars => SleepInv'
<1> SUFFICES ASSUME BucketTypeOK, SleepInv, [BucketNext]_bucket_vars,
                    NEW c \in Callers, state'[c] = "sleeping", needed'[c] <= Capacity
             PROVE  Covered(c, tokens, last_refill)'
  BY DEF SleepInv
<1> USE BucketAssumption DEF BucketTypeOK
<1>1. ASSUME NEW d \in Callers, NEW n \in Amounts, Call(d, n)
      PROVE  Covered(c, tokens, last_refill)'
  <2>1. c # d /\ state[c] = "sleeping" /\ needed'[c] = needed[c]
    BY <1>1 DEF Call
  <2> QED
    BY <1>1, <2>1 DEF Call, bucket, observer, SleepInv, Covered
<1>2. ASSUME NEW d \in Callers, Try(d) PROVE Covered(c, tokens, last_refill)'
  <2>1. /\ now \in Nat /\ needed' = needed /\ needed[c] \in Nat /\ needed[d] \in Nat
        /\ last_refill' = now /\ taken[c] \in Nat /\ wake[c] \in Nat
    BY <1>2 DEF Try, LastRefill
  <2>2. Refilled \in Nat
    BY RefilledRange
  <2>3. CASE c # d
    <3>1. state[c] = "sleeping" /\ wake'[c] = wake[c]
      BY <1>2, <2>3 DEF Try
    <3>2. Covered(c, Refilled, now)
      BY <2>1, <3>1, RefillCovers DEF SleepInv
    <3>3. tokens' + taken'[c] = Refilled + taken[c]
      <4>1. \/ tokens' = Refilled - needed[d] /\ taken'[c] = taken[c] + needed[d]
            \/ tokens' = Refilled /\ taken'[c] = taken[c]
        BY <1>2, <2>3, <3>1 DEF Try
      <4> HIDE DEF Refilled
      <4> QED
        BY <2>1, <2>2, <4>1
    <3> QED
      BY <2>1, <3>1, <3>2, <3>3 DEF Covered
  <2>4. CASE c = d
    <3>1. ~(Refilled >= needed[c])
      BY <1>2, <2>4 DEF Try
    <3>2. PICK pause \in 0..Capacity :
             LongEnough(c, pause) /\ wake' = [wake EXCEPT ![c] = now + pause]
      BY <1>2, <2>4, <3>1 DEF Try
    <3>3. tokens' = Refilled /\ taken'[c] = 0 /\ wake'[c] = now + pause
      BY <1>2, <2>4, <3>1, <3>2 DEF Try
    <3>4. now <= now + pause /\ (now + pause) - now = pause /\ pause * Refill \in Nat
      BY <2>1, <3>2, Product
    <3>5. Refilled + 0 + ((now + pause) - now) * Refill >= needed[c]
      BY <2>1, <2>2, <3>2, <3>4 DEF LongEnough
    <3> HIDE DEF Refilled
    <3> QED
      BY <2>1, <2>2, <3>3, <3>4, <3>5 DEF Covered
  <2> QED
    BY <2>3, <2>4
<1>3. CASE Reset
  <2>1. tokens' = Capacity /\ UNCHANGED caller /\ needed[c] \in Nat /\ taken[c] \in Nat
    BY <1>3 DEF Reset
  <2> QED
    BY <2>1 DEF caller, Covered
<1>4. CASE Tick \/ Observe \/ UNCHANGED bucket_vars
  BY <1>4 DEF Tick, Observe, bucket_vars, caller, bucket, SleepInv, Covered
<1> QED
  BY <1>1, <1>2, <1>3, <1>4 DEF BucketNext

\* A caller that asks for no more than the capacity sleeps at most once for
\* its tokens, but for what the others were granted in its sleep (lines 66-76).
THEOREM OneSleep == BucketSpec => []SleepSuffices
<1>1. BucketInit => BucketTypeOK /\ SleepInv
  BY BucketInitType DEF BucketInit, SleepInv
<1>2. BucketTypeOK /\ SleepInv /\ [BucketNext]_bucket_vars => (BucketTypeOK /\ SleepInv)'
  BY BucketNextType, NextSleep
<1> QED
  BY <1>1, <1>2, SleepEnough, PTL DEF BucketSpec
=============================================================================
