----------------------- MODULE FeaturePipelineProofs -----------------------
(***************************************************************************)
(* Theorems of FeaturePipeline, for any streams, windows, batches, flush   *)
(* limits, restarts and faults.                                            *)
(***************************************************************************)
EXTENDS MCFeaturePipeline, FiniteSetTheorems, SequenceTheorems, WellFoundedInduction, TLAPS

AtRow == {"row", "expire", "store", "ack"}

\* Entries up to a position of each kind.
UpTo(d) == {r \in Rows : r[2] <= d[r[1]]}

Delivered == UpTo(delivered)

\* Where the process is, and what it has in hand there.
PlaceInv ==
    /\ pc \in AtRow => batch # <<>>
    /\ pc \in {"read", "last", "lastWrite", "ended", "down"} => batch = <<>>
    /\ pc \in {"ended", "down"} => buffer = <<>>
    /\ Writing => file[day].state = "torn"
    /\ \A d \in Days : file[d].state = "absent" => file[d].rows = <<>>
    /\ finite /\ pc \in {"read", "flush", "write"} \cup AtRow => idle < IdleRounds
    /\ cut + (IF pc \in Running THEN 1 ELSE 0) <= starts

\* The last n entries of a kind up to a position.
Rest(k, n, d) == [i \in 1..n |-> <<k, d[k] - n + i>>]

\* The batch is the rest of a response.
RestOf(t, c, d) == Rest("trades", t, d) \o Rest("klines", c, d)

\* The entries of such a rest.
Ends(t, c, d) == {r \in UpTo(d) : r[2] > d[r[1]] - (IF r[1] = "trades" THEN t ELSE c)}

BatchInv ==
    \E t, c \in 0..Count :
        t <= delivered["trades"] /\ c <= delivered["klines"] /\ batch = RestOf(t, c, delivered)

\* The group has delivered what is in the streams, in the batch, or stored.
GroupInv ==
    /\ \A k \in Kinds : delivered[k] <= Len(stream[k]) /\ Len(stream[k]) <= MaxLength[k]
    /\ pending \cup offline \subseteq Delivered
    /\ ToSet(batch) \subseteq pending
    /\ BatchInv

TypeInv == TypeOK /\ PlaceInv /\ GroupInv

-----------------------------------------------------------------------------
(* Rows and sequences of rows.                                             *)

LEMMA RowIs ==
  /\ \A r \in Rows : r[1] \in Kinds /\ r[2] \in 1..MaxLength[r[1]] /\ r = <<r[1], r[2]>>
  /\ \A r \in Rows : r[2] \in Nat
  /\ \A k \in Kinds, i \in Nat \ {0} : i <= MaxLength[k] => <<k, i>> \in Rows
  /\ \A k \in Kinds : MaxLength[k] \in Nat
<1>1. \A k \in Kinds : MaxLength[k] \in Nat
  BY BoundsAssumption DEF MaxLength, Kinds
<1>2. \A r \in Rows : r[1] \in Kinds /\ r[2] \in 1..MaxLength[r[1]] /\ r = <<r[1], r[2]>>
  BY DEF Rows
<1> QED
  BY <1>1, <1>2 DEF Rows

LEMMA BoundsAre ==
  /\ Count \in Nat /\ Count >= 1 /\ FlushAt \in Nat /\ FlushAt >= 1
  /\ IdleRounds \in Nat /\ IdleRounds >= 1 /\ MaxStarts \in Nat /\ MaxStarts >= 1
  /\ MaxDays \in Nat /\ MaxDays >= 1 /\ MaxTs \in Nat /\ MaxFaults \in Nat
  /\ \A w \in Sizes : w \in Nat /\ w >= 1
BY BoundsAssumption

\* A sequence and its elements.
LEMMA Elements ==
  ASSUME NEW S, NEW s \in Seq(S)
  PROVE  /\ Len(s) \in Nat /\ DOMAIN s = 1..Len(s)
         /\ ToSet(s) \subseteq S
         /\ \A x : x \in ToSet(s) <=> \E i \in 1..Len(s) : s[i] = x
BY DEF ToSet

LEMMA HeadAndTail ==
  ASSUME NEW S, NEW s \in Seq(S), s # <<>>
  PROVE  /\ Head(s) = s[1] /\ Head(s) \in S /\ Head(s) \in ToSet(s)
         /\ Tail(s) \in Seq(S) /\ Len(Tail(s)) = Len(s) - 1 /\ Len(s) >= 1
         /\ \A i \in 1..Len(Tail(s)) : Tail(s)[i] = s[i + 1]
         /\ ToSet(s) = {Head(s)} \cup ToSet(Tail(s))
<1>1. /\ Head(s) = s[1] /\ Head(s) \in S /\ Len(s) \in Nat /\ Len(s) >= 1
      /\ Tail(s) \in Seq(S) /\ Len(Tail(s)) = Len(s) - 1
      /\ \A i \in 1..Len(Tail(s)) : Tail(s)[i] = s[i + 1]
  OBVIOUS
<1>2. Head(s) \in ToSet(s)
  BY <1>1, Elements
<1>3. ToSet(s) = {Head(s)} \cup ToSet(Tail(s))
  <2>1. ASSUME NEW x \in ToSet(s) PROVE x \in {Head(s)} \cup ToSet(Tail(s))
    <3>1. PICK i \in 1..Len(s) : s[i] = x
      BY <2>1, Elements
    <3>2. CASE i = 1
      BY <1>1, <3>1, <3>2
    <3>3. CASE i # 1
      <4>1. i - 1 \in 1..Len(Tail(s)) /\ Tail(s)[i - 1] = x
        BY <1>1, <3>1, <3>3
      <4>2. x \in ToSet(Tail(s))
        BY <1>1, <4>1, Elements, ZenonT(60)
      <4>3. QED
        BY <4>2
    <3>4. QED
      BY <3>2, <3>3
  <2>2. ASSUME NEW x \in ToSet(Tail(s)) PROVE x \in ToSet(s)
    <3>1. PICK i \in 1..Len(Tail(s)) : Tail(s)[i] = x
      BY <1>1, <2>2, Elements, ZenonT(60)
    <3>2. i + 1 \in 1..Len(s) /\ s[i + 1] = x
      BY <1>1, <3>1
    <3>3. QED
      BY <3>2, Elements
  <2>3. QED
    BY <1>2, <2>1, <2>2
<1>4. QED
  BY <1>1, <1>2, <1>3

LEMMA Appended ==
  ASSUME NEW S, NEW s \in Seq(S), NEW x \in S
  PROVE  /\ Append(s, x) \in Seq(S) /\ Len(Append(s, x)) = Len(s) + 1
         /\ \A i \in 1..Len(s) : Append(s, x)[i] = s[i]
         /\ Append(s, x)[Len(s) + 1] = x
         /\ ToSet(Append(s, x)) = ToSet(s) \cup {x}
<1> DEFINE a == Append(s, x)
<1>1. /\ a \in Seq(S) /\ Len(a) = Len(s) + 1 /\ Len(s) \in Nat
      /\ \A i \in 1..Len(s) : a[i] = s[i]
      /\ a[Len(s) + 1] = x
  OBVIOUS
<1> HIDE DEF a
<1>2. ASSUME NEW y PROVE y \in ToSet(a) <=> y \in ToSet(s) \cup {x}
  <2>1. y \in ToSet(a) <=> \E i \in 1..Len(a) : a[i] = y
    BY <1>1, Elements
  <2>2. y \in ToSet(s) <=> \E i \in 1..Len(s) : s[i] = y
    BY Elements
  <2>3. \A i \in 1..Len(a) : i \in 1..Len(s) \/ i = Len(s) + 1
    BY <1>1
  <2>4. \A i \in 1..Len(s) : i \in 1..Len(a)
    BY <1>1
  <2>5. Len(s) + 1 \in 1..Len(a)
    BY <1>1
  <2>6. QED
    BY <1>1, <2>1, <2>2, <2>3, <2>4, <2>5
<1>3. QED
  BY <1>1, <1>2 DEF a

LEMMA Joined ==
  ASSUME NEW S, NEW a \in Seq(S), NEW b \in Seq(S)
  PROVE  /\ a \o b \in Seq(S) /\ Len(a \o b) = Len(a) + Len(b)
         /\ \A i \in 1..Len(a) : (a \o b)[i] = a[i]
         /\ \A i \in 1..Len(b) : (a \o b)[Len(a) + i] = b[i]
         /\ ToSet(a \o b) = ToSet(a) \cup ToSet(b)
<1> DEFINE s == a \o b
<1>1. /\ s \in Seq(S) /\ Len(s) = Len(a) + Len(b) /\ Len(a) \in Nat /\ Len(b) \in Nat
      /\ \A i \in 1..Len(a) : s[i] = a[i]
      /\ \A i \in 1..Len(b) : s[Len(a) + i] = b[i]
  OBVIOUS
<1> HIDE DEF s
<1>2. ASSUME NEW y PROVE y \in ToSet(s) <=> y \in ToSet(a) \cup ToSet(b)
  <2>1. y \in ToSet(s) <=> \E i \in 1..Len(s) : s[i] = y
    BY <1>1, Elements
  <2>2. /\ y \in ToSet(a) <=> \E i \in 1..Len(a) : a[i] = y
        /\ y \in ToSet(b) <=> \E i \in 1..Len(b) : b[i] = y
    BY Elements
  <2>3. ASSUME NEW i \in 1..Len(s), s[i] = y PROVE y \in ToSet(a) \cup ToSet(b)
    <3>1. CASE i <= Len(a)
      <4>1. i \in 1..Len(a)
        BY <1>1, <2>3, <3>1
      <4>2. a[i] = y
        BY <1>1, <2>3, <4>1
      <4>3. QED
        BY <2>2, <4>1, <4>2
    <3>2. CASE i > Len(a)
      <4> DEFINE j == i - Len(a)
      <4>1. j \in 1..Len(b) /\ Len(a) + j = i
        BY <1>1, <3>2
      <4> HIDE DEF j
      <4>2. s[Len(a) + j] = b[j] /\ s[Len(a) + j] = y
        BY <1>1, <2>3, <4>1
      <4>3. QED
        BY <2>2, <4>1, <4>2
    <3>3. QED
      BY <1>1, <3>1, <3>2
  <2>4. ASSUME NEW i \in 1..Len(a), a[i] = y PROVE y \in ToSet(s)
    <3>1. i \in 1..Len(s) /\ s[i] = y
      BY <1>1, <2>4
    <3>2. QED
      BY <2>1, <3>1
  <2>5. ASSUME NEW i \in 1..Len(b), b[i] = y PROVE y \in ToSet(s)
    <3>1. Len(a) + i \in 1..Len(s) /\ s[Len(a) + i] = y
      BY <1>1, <2>5
    <3>2. QED
      BY <2>1, <3>1
  <2>6. QED
    BY <2>1, <2>2, <2>3, <2>4, <2>5
<1>3. QED
  BY <1>1, <1>2 DEF s

-----------------------------------------------------------------------------
(* The batch.                                                              *)

\* The rest of a kind, and of both.
LEMMA RestIs ==
  ASSUME NEW k \in Kinds, NEW n \in Nat, NEW last \in [Kinds -> Nat],
         n <= last[k], last[k] <= MaxLength[k]
  PROVE  /\ Rest(k, n, last) \in Seq(Rows) /\ Len(Rest(k, n, last)) = n
         /\ \A i \in 1..n : Rest(k, n, last)[i] = <<k, last[k] - n + i>>
         /\ ToSet(Rest(k, n, last)) = {r \in UpTo(last) : r[1] = k /\ r[2] > last[k] - n}
<1> DEFINE s == Rest(k, n, last)
<1>1. \A i \in 1..n : <<k, last[k] - n + i>> \in UpTo(last)
  <2> SUFFICES ASSUME NEW i \in 1..n PROVE <<k, last[k] - n + i>> \in UpTo(last)
    OBVIOUS
  <2>1. last[k] \in Nat /\ MaxLength[k] \in Nat
    BY BoundsAssumption DEF MaxLength, Kinds
  <2>2. last[k] - n + i \in Nat \ {0} /\ last[k] - n + i <= last[k]
    BY <2>1
  <2>3. last[k] - n + i <= MaxLength[k]
    BY <2>1, <2>2
  <2>4. QED
    BY <2>2, <2>3, RowIs DEF UpTo
<1>2. s \in Seq(Rows) /\ Len(s) = n /\ \A i \in 1..n : s[i] = <<k, last[k] - n + i>>
  BY <1>1 DEF Rest, UpTo
<1>3. ASSUME NEW r \in UpTo(last), r[1] = k, r[2] > last[k] - n PROVE r \in ToSet(s)
  <2> DEFINE i == r[2] - (last[k] - n)
  <2>1. r[2] \in Nat /\ r = <<k, r[2]>> /\ r[2] <= last[k] /\ last[k] \in Nat
    BY <1>3, RowIs DEF UpTo
  <2>2. i \in 1..n /\ last[k] - n + i = r[2]
    BY <1>3, <2>1
  <2> HIDE DEF i
  <2>3. s[i] = r
    BY <1>2, <2>1, <2>2
  <2>4. QED
    BY <1>2, <2>2, <2>3, Elements
<1>4. ASSUME NEW r \in ToSet(s) PROVE r \in UpTo(last) /\ r[1] = k /\ r[2] > last[k] - n
  <2>1. PICK i \in 1..n : s[i] = r
    BY <1>2, <1>4, Elements
  <2>2. r = <<k, last[k] - n + i>>
    BY <1>2, <2>1
  <2>3. last[k] \in Nat
    OBVIOUS
  <2>4. QED
    BY <1>1, <2>1, <2>2, <2>3
<1>5. QED
  BY <1>2, <1>3, <1>4

LEMMA SameSeq ==
  ASSUME NEW S, NEW s \in Seq(S), NEW t \in Seq(S), Len(s) = Len(t),
         \A i \in 1..Len(s) : s[i] = t[i]
  PROVE  s = t
OBVIOUS

\* What the two rests of a batch are, and what is left when the first entry
\* of it is gone.
LEMMA Rests ==
  ASSUME NEW last \in [Kinds -> Nat], \A k \in Kinds : last[k] <= MaxLength[k],
         NEW t \in Nat, NEW c \in Nat, t <= last["trades"], c <= last["klines"]
  PROVE  /\ RestOf(t, c, last) \in Seq(Rows) /\ Len(RestOf(t, c, last)) = t + c
         /\ \A i \in 1..t : RestOf(t, c, last)[i] = <<"trades", last["trades"] - t + i>>
         /\ \A i \in 1..c : RestOf(t, c, last)[t + i] = <<"klines", last["klines"] - c + i>>
         /\ ToSet(RestOf(t, c, last)) = Ends(t, c, last)
<1> DEFINE p == Rest("trades", t, last)
           q == Rest("klines", c, last)
           b == RestOf(t, c, last)
<1>1. /\ p \in Seq(Rows) /\ Len(p) = t
      /\ \A i \in 1..t : p[i] = <<"trades", last["trades"] - t + i>>
      /\ ToSet(p) = {r \in UpTo(last) : r[1] = "trades" /\ r[2] > last["trades"] - t}
  BY RestIs DEF Kinds
<1>2. /\ q \in Seq(Rows) /\ Len(q) = c
      /\ \A i \in 1..c : q[i] = <<"klines", last["klines"] - c + i>>
      /\ ToSet(q) = {r \in UpTo(last) : r[1] = "klines" /\ r[2] > last["klines"] - c}
  BY RestIs DEF Kinds
<1>3. b = p \o q /\ p \in Seq(Rows) /\ q \in Seq(Rows)
  BY <1>1, <1>2 DEF RestOf
<1> HIDE DEF p, q, b
<1>4. /\ b \in Seq(Rows) /\ Len(b) = Len(p) + Len(q)
      /\ \A i \in 1..Len(p) : b[i] = p[i]
      /\ \A i \in 1..Len(q) : b[Len(p) + i] = q[i]
      /\ ToSet(b) = ToSet(p) \cup ToSet(q)
  BY <1>3, Joined
<1>5. \A r \in UpTo(last) : r[1] = "trades" \/ r[1] = "klines"
  BY RowIs DEF UpTo, Kinds
<1>6. ToSet(b) = Ends(t, c, last)
  BY <1>1, <1>2, <1>4, <1>5 DEF Ends
<1>7. QED
  BY <1>1, <1>2, <1>4, <1>6 DEF b

LEMMA RestsSeq ==
  ASSUME NEW last \in [Kinds -> Nat], \A k \in Kinds : last[k] <= MaxLength[k],
         NEW t \in Nat, NEW c \in Nat, t <= last["trades"], c <= last["klines"]
  PROVE  /\ RestOf(t, c, last) \in Seq(Rows) /\ Len(RestOf(t, c, last)) = t + c
         /\ \A i \in 1..t : RestOf(t, c, last)[i] = <<"trades", last["trades"] - t + i>>
         /\ \A i \in 1..c : RestOf(t, c, last)[t + i] = <<"klines", last["klines"] - c + i>>
BY Rests, ZenonT(60)

LEMMA TradesTail ==
  ASSUME NEW last \in [Kinds -> Nat], \A k \in Kinds : last[k] <= MaxLength[k],
         NEW u \in Nat, NEW t \in Nat, t = u + 1, NEW c \in Nat,
         t <= last["trades"], c <= last["klines"]
  PROVE  /\ Head(RestOf(t, c, last)) = <<"trades", last["trades"] - u>>
         /\ Tail(RestOf(t, c, last)) = RestOf(u, c, last)
<1> DEFINE b == RestOf(t, c, last)
           d == RestOf(u, c, last)
<1>0. u <= last["trades"] /\ last["trades"] \in Nat
  BY DEF Kinds
<1>1. /\ b \in Seq(Rows) /\ Len(b) = t + c
      /\ \A i \in 1..t : b[i] = <<"trades", last["trades"] - t + i>>
      /\ \A i \in 1..c : b[t + i] = <<"klines", last["klines"] - c + i>>
  BY RestsSeq, ZenonT(60)
<1>2. /\ d \in Seq(Rows) /\ Len(d) = u + c
      /\ \A i \in 1..u : d[i] = <<"trades", last["trades"] - u + i>>
      /\ \A i \in 1..c : d[u + i] = <<"klines", last["klines"] - c + i>>
  BY <1>0, RestsSeq, ZenonT(60)
<1> HIDE DEF b, d
<1>3. b # <<>>
  BY <1>1
<1>4. /\ Tail(b) \in Seq(Rows) /\ Len(Tail(b)) = u + c
      /\ \A i \in 1..(u + c) : Tail(b)[i] = b[i + 1]
      /\ Head(b) = b[1]
  BY <1>1, <1>3, HeadAndTail
<1>5. ASSUME NEW i \in 1..(u + c) PROVE Tail(b)[i] = d[i]
  <2>1. i \in Nat /\ i >= 1
    BY <1>5
  <2>2. CASE i <= u
    <3>1. /\ i \in 1..u /\ i + 1 \in 1..t
          /\ last["trades"] - t + (i + 1) = last["trades"] - u + i
      BY <1>0, <2>1, <2>2
    <3>2. b[i + 1] = <<"trades", last["trades"] - t + (i + 1)>>
      BY <1>1, <3>1
    <3>3. QED
      BY <1>2, <1>4, <1>5, <3>1, <3>2
  <2>3. CASE i > u
    <3>1. PICK j \in 1..c : u + j = i /\ t + j = i + 1
      <4>1. i - u \in 1..c /\ u + (i - u) = i /\ t + (i - u) = i + 1
        BY <1>5, <2>1, <2>3
      <4>2. QED
        BY <4>1
    <3>2. b[t + j] = d[u + j]
      BY <1>1, <1>2, <3>1
    <3>3. QED
      BY <1>4, <1>5, <3>1, <3>2
  <2>4. i <= u \/ i > u
    BY <2>1
  <2>5. QED
    BY <2>2, <2>3, <2>4
<1>6. Tail(b) = d
  BY <1>2, <1>4, <1>5, SameSeq
<1>7. b[1] = <<"trades", last["trades"] - u>>
  <2>1. 1 \in 1..t /\ last["trades"] - t + 1 = last["trades"] - u
    BY <1>0
  <2>2. QED
    BY <1>1, <2>1
<1>8. QED
  BY <1>4, <1>6, <1>7 DEF b, d

LEMMA KlinesTail ==
  ASSUME NEW last \in [Kinds -> Nat], \A k \in Kinds : last[k] <= MaxLength[k],
         NEW u \in Nat, NEW c \in Nat, c = u + 1, c <= last["klines"]
  PROVE  /\ Head(RestOf(0, c, last)) = <<"klines", last["klines"] - u>>
         /\ Tail(RestOf(0, c, last)) = RestOf(0, u, last)
<1> DEFINE b == RestOf(0, c, last)
           d == RestOf(0, u, last)
<1>0. u <= last["klines"] /\ last["klines"] \in Nat /\ 0 \in Nat /\ 0 <= last["trades"]
  BY DEF Kinds
<1>1. /\ b \in Seq(Rows) /\ Len(b) = 0 + c
      /\ \A i \in 1..c : b[0 + i] = <<"klines", last["klines"] - c + i>>
  BY <1>0, RestsSeq, SMTT(30)
<1>2. /\ d \in Seq(Rows) /\ Len(d) = 0 + u
      /\ \A i \in 1..u : d[0 + i] = <<"klines", last["klines"] - u + i>>
  BY <1>0, RestsSeq, ZenonT(60)
<1> HIDE DEF b, d
<1>3. b # <<>>
  BY <1>1
<1>4. /\ Tail(b) \in Seq(Rows) /\ Len(Tail(b)) = u
      /\ \A i \in 1..u : Tail(b)[i] = b[i + 1]
      /\ Head(b) = b[1]
  BY <1>1, <1>3, HeadAndTail
<1>5. ASSUME NEW i \in 1..u PROVE Tail(b)[i] = d[i]
  <2>1. /\ i + 1 \in 1..c /\ 0 + i = i /\ 0 + (i + 1) = i + 1
        /\ last["klines"] - c + (i + 1) = last["klines"] - u + i
    BY <1>0, <1>5
  <2>2. b[0 + (i + 1)] = <<"klines", last["klines"] - c + (i + 1)>>
    BY <1>1, <2>1
  <2>3. d[0 + i] = <<"klines", last["klines"] - u + i>>
    BY <1>2, <1>5
  <2>4. QED
    BY <1>4, <1>5, <2>1, <2>2, <2>3
<1>6. Tail(b) = d
  BY <1>2, <1>4, <1>5, SameSeq, SMTT(30)
<1>7. b[1] = <<"klines", last["klines"] - u>>
  <2>1. 1 \in 1..c /\ 0 + 1 = 1 /\ last["klines"] - c + 1 = last["klines"] - u
    BY <1>0
  <2>2. b[0 + 1] = <<"klines", last["klines"] - c + 1>>
    BY <1>1, <2>1
  <2>3. QED
    BY <2>1, <2>2
<1>8. QED
  BY <1>4, <1>6, <1>7 DEF b, d

\* The first entry of what is left of a response, its kind and its place, and
\* what follows it.
LEMMA RestHead ==
  ASSUME NEW last \in [Kinds -> Nat], \A k \in Kinds : last[k] <= MaxLength[k],
         NEW t \in 0..Count, NEW c \in 0..Count, t <= last["trades"], c <= last["klines"],
         RestOf(t, c, last) # <<>>
  PROVE  \E k \in Kinds, u \in 0..(Count - 1) :
            /\ u < last[k] /\ Head(RestOf(t, c, last)) = <<k, last[k] - u>>
            /\ \/ k = "trades" /\ t = u + 1 /\ Tail(RestOf(t, c, last)) = RestOf(u, c, last)
               \/ /\ k = "klines" /\ t = 0 /\ c = u + 1
                  /\ Tail(RestOf(t, c, last)) = RestOf(0, u, last)
<1>1. t \in Nat /\ c \in Nat /\ Count \in Nat /\ last["trades"] \in Nat /\ last["klines"] \in Nat
  BY BoundsAre DEF Kinds
<1>2. Len(RestOf(t, c, last)) = t + c
  BY <1>1, RestsSeq
<1>3. t + c >= 1
  <2>1. CASE t = 0 /\ c = 0
    <3>1. RestOf(t, c, last) = <<>>
      <4>1. Rest("trades", 0, last) = <<>> /\ Rest("klines", 0, last) = <<>>
        BY DEF Rest
      <4>2. QED
        BY <2>1, <4>1 DEF RestOf
    <3>2. QED
      BY <3>1
  <2>2. QED
    BY <1>1, <2>1
<1>4. CASE t >= 1
  <2>1. PICK u \in Nat : t = u + 1
    BY <1>1, <1>4
  <2>2. u \in 0..(Count - 1) /\ u < last["trades"]
    BY <1>1, <2>1
  <2>3. /\ Head(RestOf(t, c, last)) = <<"trades", last["trades"] - u>>
        /\ Tail(RestOf(t, c, last)) = RestOf(u, c, last)
    BY <1>1, <2>1, TradesTail, ZenonT(60)
  <2>4. QED
    BY <2>1, <2>2, <2>3 DEF Kinds
<1>5. CASE t = 0
  <2>1. PICK u \in Nat : c = u + 1
    BY <1>1, <1>3, <1>5
  <2>2. u \in 0..(Count - 1) /\ u < last["klines"]
    BY <1>1, <2>1
  <2>3. /\ Head(RestOf(t, c, last)) = <<"klines", last["klines"] - u>>
        /\ Tail(RestOf(t, c, last)) = RestOf(0, u, last)
    BY <1>1, <1>5, <2>1, KlinesTail
  <2>4. QED
    BY <1>5, <2>1, <2>2, <2>3 DEF Kinds
<1>6. QED
  BY <1>1, <1>4, <1>5

LEMMA BatchIs ==
  ASSUME TypeInv
  PROVE  /\ delivered \in [Kinds -> Nat] /\ \A k \in Kinds : delivered[k] <= MaxLength[k]
         /\ batch \in Seq(Rows) /\ Len(batch) \in Nat /\ Len(batch) <= 2 * Count
         /\ ToSet(batch) \subseteq Delivered
<1>1. /\ delivered \in [Kinds -> Nat] /\ batch \in Seq(Rows)
      /\ \A k \in Kinds : Len(stream[k]) \in Nat
  BY DEF TypeInv, TypeOK
<1>2. ASSUME NEW k \in Kinds PROVE delivered[k] <= MaxLength[k]
  <2>1. delivered[k] \in Nat /\ Len(stream[k]) \in Nat /\ MaxLength[k] \in Nat
    BY <1>1, RowIs
  <2>2. delivered[k] <= Len(stream[k]) /\ Len(stream[k]) <= MaxLength[k]
    BY DEF TypeInv, GroupInv
  <2>3. QED
    BY <2>1, <2>2
<1>3. PICK t \in 0..Count, c \in 0..Count :
        t <= delivered["trades"] /\ c <= delivered["klines"]
          /\ batch = RestOf(t, c, delivered)
  BY DEF TypeInv, GroupInv, BatchInv
<1>4. Len(batch) = t + c /\ t \in Nat /\ c \in Nat
  <2>1. t \in Nat /\ c \in Nat
    BY BoundsAre
  <2>2. Len(RestOf(t, c, delivered)) = t + c
    BY <1>1, <1>2, <1>3, <2>1, RestsSeq
  <2>3. QED
    BY <1>3, <2>1, <2>2
<1>5. Len(batch) <= 2 * Count /\ Len(batch) \in Nat
  BY <1>3, <1>4, BoundsAre
<1>6. ToSet(batch) \subseteq Delivered
  BY DEF TypeInv, GroupInv
<1>7. QED
  BY <1>1, <1>2, <1>5, <1>6

-----------------------------------------------------------------------------
(* What a file keeps, and what a window keeps.                             *)

Distinct(s) == \A i, j \in 1..Len(s) : s[i] = s[j] => i = j

\* The number of places of a set of places up to one of them numbers them.
LEMMA Ranks ==
  ASSUME NEW n \in Nat, NEW L \in SUBSET (1..n), NEW R \in [L -> Nat],
         \A i \in L : R[i] = Cardinality({j \in L : j <= i})
  PROVE  /\ Cardinality(L) \in Nat
         /\ \A i \in L : R[i] \in 1..Cardinality(L)
         /\ \A m \in 1..Cardinality(L) : \E i \in L : R[i] = m
         /\ \A i, k \in L : R[i] = R[k] => i = k
<1>1. IsFiniteSet(1..n)
  BY FS_Interval
<1>2. IsFiniteSet(L) /\ Cardinality(L) \in Nat
  BY <1>1, FS_Subset, FS_CardinalityType
<1>3. ASSUME NEW i \in L PROVE R[i] \in 1..Cardinality(L)
  <2> DEFINE below == {j \in L : j <= i}
  <2>1. below \in SUBSET L /\ i \in below
    BY <1>3
  <2>2. IsFiniteSet(below) /\ Cardinality(below) <= Cardinality(L) /\ Cardinality(below) \in Nat
    BY <1>2, <2>1, FS_Subset, FS_CardinalityType
  <2>3. Cardinality(below) # 0
    BY <2>1, <2>2, FS_EmptySet
  <2>4. QED
    BY <1>2, <1>3, <2>2, <2>3
<1>4. ASSUME NEW i \in L, NEW k \in L, i < k PROVE R[i] # R[k]
  <2> DEFINE low == {j \in L : j <= i}
             high == {j \in L : j <= k}
  <2>1. low \in SUBSET high /\ k \in high /\ k \notin low /\ high \in SUBSET L
    <3>1. i \in Int /\ k \in Int /\ \A j \in L : j \in Int
      BY <1>4
    <3>2. \A j \in L : j <= i => j <= k
      BY <1>4, <3>1
    <3>3. k <= k /\ ~(k <= i)
      BY <1>4, <3>1
    <3>4. QED
      BY <1>4, <3>2, <3>3
  <2>2. IsFiniteSet(high)
    BY <1>2, <2>1, FS_Subset
  <2>3. Cardinality(high) # Cardinality(low)
    BY <2>1, <2>2, FS_Subset
  <2>4. QED
    BY <1>4, <2>3
<1>5. \A i, k \in L : R[i] = R[k] => i = k
  <2>1. \A i, k \in L : i < k \/ k < i \/ i = k
    OBVIOUS
  <2>2. \A i, k \in L : i < k => R[i] # R[k]
    BY <1>4
  <2>3. QED
    BY <2>1, <2>2
<1>6. R \in Injection(L, 1..Cardinality(L))
  BY <1>3, <1>5 DEF Injection, IsInjective
<1>7. IsFiniteSet(1..Cardinality(L)) /\ Cardinality(1..Cardinality(L)) = Cardinality(L)
  BY <1>2, FS_Interval
<1>8. R \in Surjection(L, 1..Cardinality(L))
  BY <1>6, <1>7, FS_Injection
<1>9. QED
  BY <1>2, <1>3, <1>5, <1>8 DEF Surjection

\* A set of places that is not empty has a last one.
LEMMA LastOfSome ==
  ASSUME NEW n \in Nat, NEW S, S \subseteq 1..n, S # {}
  PROVE  \E m \in S : \A c \in S : c <= m
<1> DEFINE T == {k \in Nat : n - k \in S}
<1>1. PICK c \in S : TRUE
  OBVIOUS
<1>2. n - c \in T /\ T \subseteq Nat
  BY <1>1
<1>3. PICK k \in T : \A j \in T : ~ (<<j, k>> \in OpToRel(<, Nat))
  BY <1>2, WFMin, NatLessThanWellFounded
<1>4. \A j \in T : ~(j < k)
  BY <1>3 DEF OpToRel
<1>5. n - k \in S
  BY <1>3
<1>6. \A d \in S : d <= n - k
  <2>1. ASSUME NEW d \in S PROVE d <= n - k
    <3>1. n - d \in T /\ d \in 1..n /\ k \in Nat
      <4>1. d \in 1..n /\ k \in Nat
        BY <1>3
      <4>2. n - d \in Nat /\ n - (n - d) = d
        BY <4>1
      <4>3. QED
        BY <4>1, <4>2
    <3>2. ~(n - d < k)
      BY <1>4, <3>1
    <3>3. QED
      BY <3>1, <3>2
  <2>2. QED
    BY <2>1
<1>7. QED
  BY <1>5, <1>6

\* What drop_duplicates returns: rows of its input, none twice, and for each
\* row of the input one of the same ts.
LEMMA Deduplicated ==
  ASSUME NEW rows \in Seq(Rows)
  PROVE  /\ DropDuplicates(rows) \in Seq(Rows)
         /\ ToSet(DropDuplicates(rows)) \subseteq ToSet(rows)
         /\ Distinct(DropDuplicates(rows))
         /\ \A r \in ToSet(rows) : \E s \in ToSet(DropDuplicates(rows)) : Ts(s) = Ts(r)
<1> DEFINE n == Len(rows)
           L == {i \in 1..n : IsLast(rows, i)}
           R == [i \in L |-> Cardinality({j \in L : j <= i})]
           c == Cardinality(L)
           At(m) == CHOOSE i \in L : R[i] = m
           d == [m \in 1..c |-> rows[At(m)]]
<1>1. n \in Nat /\ L \in SUBSET (1..n)
  OBVIOUS
<1>2. DropDuplicates(rows) = d
  BY DEF DropDuplicates
<1>3. R \in [L -> Nat]
  <2> SUFFICES ASSUME NEW i \in L PROVE Cardinality({j \in L : j <= i}) \in Nat
    OBVIOUS
  <2>1. {j \in L : j <= i} \in SUBSET (1..n) /\ IsFiniteSet(1..n)
    BY <1>1, FS_Interval
  <2>2. QED
    BY <2>1, FS_Subset, FS_CardinalityType
<1>4. \A i \in L : R[i] = Cardinality({j \in L : j <= i})
  OBVIOUS
<1> HIDE DEF R, L
<1>5. /\ c \in Nat
      /\ \A i \in L : R[i] \in 1..c
      /\ \A m \in 1..c : \E i \in L : R[i] = m
      /\ \A i, k \in L : R[i] = R[k] => i = k
  BY <1>1, <1>3, <1>4, Ranks
<1>6. \A m \in 1..c : At(m) \in L /\ R[At(m)] = m
  BY <1>5
<1>7. \A i, j \in 1..n : j > i /\ IsLast(rows, i) => Ts(rows[j]) # Ts(rows[i])
  BY DEF IsLast
<1>8. \A i, j \in L : Ts(rows[i]) = Ts(rows[j]) => i = j
  <2>1. \A i, j \in L : i < j \/ j < i \/ i = j
    BY <1>1
  <2>2. \A i, j \in L : i < j => Ts(rows[j]) # Ts(rows[i])
    BY <1>1, <1>7 DEF L
  <2>3. QED
    BY <2>1, <2>2
<1>9. ASSUME NEW i \in 1..n PROVE \E j \in L : Ts(rows[j]) = Ts(rows[i])
  <2> DEFINE same == {j \in 1..n : Ts(rows[j]) = Ts(rows[i])}
  <2>1. i \in same /\ same \in SUBSET (1..n)
    BY <1>9
  <2>2. PICK j \in same : \A k \in same : k <= j
    BY <1>1, <2>1, LastOfSome
  <2>3. \A k \in (j + 1)..n : Ts(rows[k]) # Ts(rows[j])
    BY <1>1, <2>1, <2>2
  <2>4. QED
    BY <2>2, <2>3 DEF IsLast, L
<1> HIDE DEF c
<1>10. d \in Seq(Rows) /\ Len(d) = c /\ \A m \in 1..c : d[m] = rows[At(m)]
  <2>1. \A i \in 1..n : rows[i] \in Rows
    OBVIOUS
  <2>2. \A m \in 1..c : rows[At(m)] \in Rows
    BY <1>1, <1>6, <2>1, Zenon
  <2> HIDE DEF At
  <2>3. QED
    BY <1>5, <2>2
<1> HIDE DEF At, d
<1>11. ASSUME NEW x \in ToSet(d) PROVE x \in ToSet(rows)
  <2>1. PICK m \in 1..c : d[m] = x
    BY <1>10, <1>11, Elements
  <2>2. At(m) \in 1..n /\ rows[At(m)] = x
    BY <1>1, <1>6, <1>10, <2>1
  <2>3. QED
    BY <2>2, Elements
<1>12. Distinct(d)
  <2> SUFFICES ASSUME NEW k \in 1..c, NEW m \in 1..c, d[k] = d[m] PROVE k = m
    BY <1>10 DEF Distinct
  <2>1. rows[At(k)] = rows[At(m)]
    BY <1>10
  <2>2. At(k) = At(m)
    BY <1>6, <1>8, <2>1
  <2>3. QED
    BY <1>6, <2>2
<1>13. ASSUME NEW r \in ToSet(rows) PROVE \E s \in ToSet(d) : Ts(s) = Ts(r)
  <2>1. PICK i \in 1..n : rows[i] = r
    BY <1>13, Elements
  <2>2. PICK j \in L : Ts(rows[j]) = Ts(rows[i])
    BY <1>9
  <2>3. R[j] \in 1..c /\ At(R[j]) = j
    BY <1>5, <1>6, <2>2
  <2>4. d[R[j]] = rows[j] /\ Ts(rows[j]) = Ts(r)
    BY <1>10, <2>1, <2>2, <2>3
  <2>5. d[R[j]] \in ToSet(d)
    BY <1>10, <2>3, Elements
  <2>6. QED
    BY <2>4, <2>5
<1>14. QED
  BY <1>2, <1>10, <1>11, <1>12, <1>13

\* A window that takes an entry.
LEMMA SlideIs ==
  ASSUME NEW s \in Seq(Rows), NEW x \in Rows, NEW w \in Sizes
  PROVE  /\ Slide(s, x, w) \in Seq(Rows)
         /\ ToSet(Slide(s, x, w)) \subseteq ToSet(s) \cup {x}
         /\ x \in ToSet(Slide(s, x, w))
<1>0. w \in Nat /\ w >= 1
  BY BoundsAre
<1>1. CASE Len(s) = w
  <2>1. s # <<>>
    BY <1>0, <1>1
  <2>2. Tail(s) \in Seq(Rows) /\ ToSet(Tail(s)) \subseteq ToSet(s)
    BY <2>1, HeadAndTail
  <2>3. Slide(s, x, w) = Append(Tail(s), x)
    BY <1>1 DEF Slide
  <2>4. /\ Append(Tail(s), x) \in Seq(Rows)
        /\ ToSet(Append(Tail(s), x)) = ToSet(Tail(s)) \cup {x}
    <3>1. \A u \in Seq(Rows) :
            Append(u, x) \in Seq(Rows) /\ ToSet(Append(u, x)) = ToSet(u) \cup {x}
      BY Appended
    <3>2. QED
      BY <2>2, <3>1
  <2>5. QED
    BY <2>2, <2>3, <2>4
<1>2. CASE Len(s) # w
  <2>1. Slide(s, x, w) = Append(s, x)
    BY <1>2 DEF Slide
  <2>2. QED
    BY <2>1, Appended
<1>3. QED
  BY <1>1, <1>2

\* The entries a kind hands out.
LEMMA FreshIs ==
  ASSUME TypeInv, NEW k \in Kinds
  PROVE  /\ Len(Fresh(k)) \in 0..Count
         /\ delivered[k] + Len(Fresh(k)) <= Len(stream[k])
         /\ \A d : d[k] = delivered[k] + Len(Fresh(k)) => Fresh(k) = Rest(k, Len(Fresh(k)), d)
<1>1. /\ delivered[k] \in Nat /\ Len(stream[k]) \in Nat /\ delivered[k] <= Len(stream[k])
      /\ Count \in Nat
  BY BoundsAre DEF TypeInv, TypeOK, GroupInv
<1> DEFINE last == IF Len(stream[k]) < delivered[k] + Count
                   THEN Len(stream[k]) ELSE delivered[k] + Count
           n == last - delivered[k]
<1>2. n \in 0..Count /\ delivered[k] + n <= Len(stream[k])
  BY <1>1
<1>3. Fresh(k) = [i \in 1..n |-> <<k, delivered[k] + i>>]
  BY DEF Fresh
<1> HIDE DEF n
<1>4. Len(Fresh(k)) = n
  BY <1>1, <1>2, <1>3
<1>5. ASSUME NEW d, d[k] = delivered[k] + n PROVE Fresh(k) = Rest(k, n, d)
  <2>1. \A i \in 1..n : d[k] - n + i = delivered[k] + i
    BY <1>1, <1>2, <1>5
  <2>2. QED
    BY <1>3, <2>1 DEF Rest
<1>6. QED
  BY <1>2, <1>4, <1>5

\* A response: the entries after the last that were delivered.
LEMMA Delivers ==
  ASSUME TypeInv, Deliver
  PROVE  /\ delivered' \in [Kinds -> Nat]
         /\ \A k \in Kinds : delivered[k] <= delivered'[k] /\ delivered'[k] <= Len(stream[k])
                                /\ delivered'[k] <= delivered[k] + Count
         /\ \A k \in Kinds : delivered'[k] <= MaxLength[k]
         /\ \E t, c \in 0..Count : t <= delivered'["trades"] /\ c <= delivered'["klines"]
                                      /\ Response = RestOf(t, c, delivered')
         /\ Response \in Seq(Rows) /\ Len(Response) \in Nat /\ Len(Response) <= 2 * Count
         /\ Delivered \subseteq UpTo(delivered')
         /\ ToSet(Response) = UpTo(delivered') \ Delivered
<1> DEFINE n(k) == Len(Fresh(k))
           t == n("trades")
           c == n("klines")
<1>1. /\ delivered \in [Kinds -> Nat] /\ Count \in Nat
      /\ \A k \in Kinds : Len(stream[k]) \in Nat /\ MaxLength[k] \in Nat
      /\ \A k \in Kinds : Len(stream[k]) <= MaxLength[k]
  BY BoundsAre, RowIs, SMTT(30) DEF TypeInv, TypeOK, GroupInv
<1>2. \A k \in Kinds : n(k) \in 0..Count /\ n(k) \in Nat /\ delivered[k] + n(k) <= Len(stream[k])
  BY <1>1, FreshIs
<1>3. \A k \in Kinds : delivered'[k] = delivered[k] + n(k)
  BY DEF Deliver
<1>4. delivered' \in [Kinds -> Nat]
  <2>1. \A k \in Kinds : delivered[k] + n(k) \in Nat
    BY <1>1, <1>2
  <2>2. QED
    BY <2>1 DEF Deliver
<1>5. \A k \in Kinds : Fresh(k) = Rest(k, n(k), delivered')
  BY <1>3, FreshIs
<1>6. "trades" \in Kinds /\ "klines" \in Kinds
  BY DEF Kinds
<1> HIDE DEF n
<1>7. ASSUME NEW k \in Kinds
      PROVE  /\ delivered[k] <= delivered'[k] /\ delivered'[k] <= Len(stream[k])
             /\ delivered'[k] <= MaxLength[k] /\ n(k) <= delivered'[k]
             /\ delivered'[k] <= delivered[k] + Count
  <2>1. delivered[k] \in Nat /\ Len(stream[k]) \in Nat /\ MaxLength[k] \in Nat /\ n(k) \in Nat
    BY <1>1, <1>2
  <2>2. n(k) <= Count /\ delivered[k] + n(k) <= Len(stream[k]) /\ Len(stream[k]) <= MaxLength[k]
    BY <1>1, <1>2
  <2>3. QED
    BY <1>1, <1>3, <2>1, <2>2
<1>8. Response = RestOf(t, c, delivered')
  BY <1>5, <1>6 DEF Response, RestOf, n
<1>9. /\ Response \in Seq(Rows) /\ Len(Response) = t + c
      /\ ToSet(Response) = Ends(t, c, delivered')
  <2>1. /\ t \in Nat /\ c \in Nat /\ t <= delivered'["trades"] /\ c <= delivered'["klines"]
        /\ \A k \in Kinds : delivered'[k] <= MaxLength[k]
    BY <1>2, <1>6, <1>7
  <2> HIDE DEF t, c
  <2>2. /\ RestOf(t, c, delivered') \in Seq(Rows) /\ Len(RestOf(t, c, delivered')) = t + c
        /\ ToSet(RestOf(t, c, delivered')) = Ends(t, c, delivered')
    BY <1>4, <2>1, Rests
  <2>3. QED
    BY <1>8, <2>2
<1>10. Delivered \subseteq UpTo(delivered')
  <2> SUFFICES ASSUME NEW r \in Delivered PROVE r \in UpTo(delivered')
    OBVIOUS
  <2>1. r \in Rows /\ r[1] \in Kinds /\ r[2] \in Nat /\ r[2] <= delivered[r[1]]
    BY RowIs DEF Delivered, UpTo
  <2>2. delivered[r[1]] <= delivered'[r[1]] /\ delivered[r[1]] \in Nat /\ delivered'[r[1]] \in Nat
    BY <1>1, <1>4, <1>7, <2>1
  <2>3. r[2] <= delivered'[r[1]]
    BY <2>1, <2>2
  <2>4. QED
    BY <2>1, <2>3 DEF UpTo
<1>11. ASSUME NEW r \in UpTo(delivered') PROVE r \in ToSet(Response) <=> r \notin Delivered
  <2>1. r \in Rows /\ r[1] \in Kinds /\ r[2] \in Nat
    BY <1>11, RowIs DEF UpTo
  <2>2. (IF r[1] = "trades" THEN t ELSE c) = n(r[1])
    BY <2>1 DEF Kinds
  <2>3. r \in ToSet(Response) <=> r[2] > delivered'[r[1]] - n(r[1])
    BY <1>9, <1>11, <2>2 DEF Ends
  <2>4. delivered'[r[1]] - n(r[1]) = delivered[r[1]] /\ delivered[r[1]] \in Nat
    BY <1>1, <1>2, <1>3, <2>1
  <2>5. r \in Delivered <=> r[2] <= delivered[r[1]]
    BY <2>1 DEF Delivered, UpTo
  <2>6. r[2] > delivered[r[1]] <=> ~(r[2] <= delivered[r[1]])
    BY <2>1, <2>4
  <2>7. QED
    BY <2>3, <2>4, <2>5, <2>6
<1>12. ToSet(Response) \subseteq UpTo(delivered')
  BY <1>9 DEF Ends
<1>13. t \in 0..Count /\ c \in 0..Count
  BY <1>2, <1>6
<1>14. Len(Response) \in Nat /\ Len(Response) <= 2 * Count
  BY <1>1, <1>9, <1>13
<1>15. ToSet(Response) = UpTo(delivered') \ Delivered
  BY <1>11, <1>12
<1>16. \E u, v \in 0..Count : u <= delivered'["trades"] /\ v <= delivered'["klines"]
                                /\ Response = RestOf(u, v, delivered')
  BY <1>6, <1>7, <1>8, <1>13
<1>17. QED
  BY <1>4, <1>7, <1>9, <1>10, <1>14, <1>15, <1>16

-----------------------------------------------------------------------------
(* Types.                                                                  *)

\* The group and what it delivered are left alone.
LEMMA GroupSame ==
  ASSUME TypeInv, UNCHANGED <<stream, delivered, pending, offline, batch>>
  PROVE  GroupInv'
BY DEF TypeInv, GroupInv, BatchInv, Delivered, UpTo

LEMMA NothingLeft == \A d : RestOf(0, 0, d) = <<>>
<1> TAKE d
<1>1. Rest("trades", 0, d) = <<>> /\ Rest("klines", 0, d) = <<>>
  BY DEF Rest
<1>2. QED
  BY <1>1 DEF RestOf

\* The batch is dropped.
LEMMA GroupDropped ==
  ASSUME TypeInv, UNCHANGED <<stream, delivered>>, pending' \subseteq pending, batch' = <<>>,
         offline' \subseteq Delivered
  PROVE  GroupInv'
<1>1. BatchInv'
  <2>1. 0 \in 0..Count /\ 0 <= delivered'["trades"] /\ 0 <= delivered'["klines"]
    BY BoundsAre DEF TypeInv, TypeOK, Kinds
  <2>2. batch' = RestOf(0, 0, delivered')
    BY NothingLeft
  <2>3. QED
    BY <2>1, <2>2 DEF BatchInv
<1>2. ToSet(batch') = {}
  BY DEF ToSet
<1>3. QED
  BY <1>1, <1>2 DEF TypeInv, GroupInv, Delivered, UpTo

LEMMA HeadIs ==
  ASSUME TypeInv, pc \in AtRow
  PROVE  /\ batch # <<>> /\ Head(batch) \in Rows /\ Head(batch)[1] \in Kinds
         /\ Head(batch) \in pending /\ Head(batch) \in Delivered
         /\ Tail(batch) \in Seq(Rows)
<1>1. batch \in Seq(Rows) /\ batch # <<>>
  BY DEF TypeInv, TypeOK, PlaceInv
<1>2. Head(batch) \in Rows /\ Head(batch) \in ToSet(batch) /\ Tail(batch) \in Seq(Rows)
  BY <1>1, HeadAndTail
<1>3. QED
  BY <1>1, <1>2, RowIs DEF TypeInv, GroupInv

LEMMA InitType == Init => TypeInv
<1> SUFFICES ASSUME Init PROVE TypeInv
  OBVIOUS
<1>1. TypeOK
  <2>1. /\ stream \in [Kinds -> Seq({NoVector} \cup 1..MaxTs)] /\ delivered \in [Kinds -> Nat]
        /\ pending \subseteq Rows /\ batch \in Seq(Rows) /\ buffer \in Seq(Rows)
        /\ windows \in [Kinds -> [Sizes -> Seq(Rows)]]
    BY DEF Init, Empty
  <2>2. file \in [Days -> [state : {"absent", "good", "torn"}, rows : Seq(Rows)]]
    BY DEF Init, Absent
  <2>3. conn \in {"none", "open", "broken"} /\ tables \in BOOLEAN
    BY DEF Init, Connection
  <2>4. /\ pc \in Running \cup {"ended", "down"} /\ idle \in 0..IdleRounds /\ day \in Days
        /\ starts \in 1..MaxStarts /\ cut \in 0..MaxStarts /\ faults \in 0..MaxFaults
    BY BoundsAre DEF Init, Running, Days
  <2>5. QED
    BY <2>1, <2>2, <2>3, <2>4 DEF Init, TypeOK
<1>2. PlaceInv
  BY BoundsAre DEF Init, PlaceInv, AtRow, Writing, Running, Absent
<1>3. GroupInv
  <2>1. ToSet(batch) = {}
    BY DEF Init, ToSet
  <2>2. BatchInv
    <3>1. 0 \in 0..Count /\ 0 <= delivered["trades"] /\ 0 <= delivered["klines"]
      BY BoundsAre DEF Init, Kinds
    <3>2. batch = RestOf(0, 0, delivered)
      BY NothingLeft DEF Init
    <3>3. QED
      BY <3>1, <3>2 DEF BatchInv
  <2>3. \A k \in Kinds : delivered[k] <= Len(stream[k]) /\ Len(stream[k]) <= MaxLength[k]
    BY RowIs DEF Init
  <2>4. QED
    BY <2>1, <2>2, <2>3 DEF Init, GroupInv
<1>4. QED
  BY <1>1, <1>2, <1>3 DEF TypeInv

\* XREADGROUP raises with a delivery, or with none.
ReadLost ==
    /\ Fault("reply") /\ pc = "read" /\ pc' = (IF finite THEN "last" ELSE "read")
    /\ Response # <<>> /\ Deliver /\ broken' = broken + 1
    /\ UNCHANGED <<world, batch, buffer, windows, conn, idle, stores, rejected, cut, skipped,
                   destroyed, torn>>

ReadIdle ==
    /\ Fault("reply") /\ pc = "read" /\ pc' = (IF finite THEN "last" ELSE "read")
    /\ UNCHANGED <<world, group, batch, buffer, windows, conn, idle, stores, losses>>

LEMMA ReadFailsIs == ReadFails => ReadLost \/ ReadIdle
  BY DEF ReadFails, ReadLost, ReadIdle, losses

LEMMA ReadKeepsType ==
  ASSUME TypeInv, Read \/ ReadLost
  PROVE  TypeInv'
<1>1. /\ Deliver /\ pc = "read" /\ Response # <<>> /\ UNCHANGED <<world, offline>>
      /\ batch = <<>>
  BY DEF Read, ReadLost, stores, TypeInv, PlaceInv
<1>2. /\ delivered' \in [Kinds -> Nat]
      /\ \A k \in Kinds : delivered'[k] <= Len(stream[k])
      /\ \E t, c \in 0..Count : t <= delivered'["trades"] /\ c <= delivered'["klines"]
                                   /\ Response = RestOf(t, c, delivered')
      /\ Response \in Seq(Rows) /\ Delivered \subseteq UpTo(delivered')
      /\ ToSet(Response) = UpTo(delivered') \ Delivered
  BY <1>1, Delivers
<1>3. pending' = pending \cup ToSet(Response)
  BY <1>1 DEF Deliver
<1>4. pending' \subseteq UpTo(delivered') /\ offline' \subseteq UpTo(delivered')
  BY <1>1, <1>2, <1>3 DEF TypeInv, GroupInv
<1>5. pending' \subseteq Rows
  BY <1>4 DEF UpTo
<1>6. \/ batch' = Response
      \/ batch' = <<>>
  BY <1>1 DEF Read, ReadLost
<1>7. batch' \in Seq(Rows) /\ ToSet(batch') \subseteq pending'
  <2>1. CASE batch' = Response
    BY <1>2, <1>3, <2>1
  <2>2. CASE batch' = <<>>
    <3>1. ToSet(batch') = {}
      BY <2>2 DEF ToSet
    <3>2. QED
      BY <2>2, <3>1
  <2>3. QED
    BY <1>6, <2>1, <2>2
<1>8. TypeOK'
  <2>1. delivered' \in [Kinds -> Nat] /\ pending' \subseteq Rows /\ batch' \in Seq(Rows)
    BY <1>2, <1>5, <1>7
  <2>2. /\ pc' \in Running \cup {"ended", "down"} /\ idle' \in 0..IdleRounds /\ broken' \in Nat
        /\ faults' \in 0..MaxFaults
        /\ UNCHANGED <<world, buffer, windows, conn, stores, rejected, cut, skipped,
                      destroyed, torn>>
    BY BoundsAre
       DEF Read, ReadLost, Fault, TypeInv, TypeOK, world, history, losses, Running
  <2>3. QED
    BY <2>1, <2>2 DEF TypeInv, TypeOK, world, stores
<1>9. PlaceInv'
  <2>1. CASE Read
    BY <1>1, <2>1, BoundsAre
       DEF Read, TypeInv, PlaceInv, AtRow, Writing, world, stores, history, losses, Running
  <2>2. CASE ReadLost
    BY <1>1, <2>2
       DEF ReadLost, TypeInv, PlaceInv, AtRow, Writing, world, stores, Running
  <2>3. QED
    BY <2>1, <2>2
<1>10. BatchInv'
  <2>1. CASE batch' = Response
    BY <1>2, <2>1 DEF BatchInv
  <2>2. CASE batch' = <<>>
    <3>1. 0 \in 0..Count /\ 0 <= delivered'["trades"] /\ 0 <= delivered'["klines"]
      BY <1>2, BoundsAre DEF Kinds
    <3>2. batch' = RestOf(0, 0, delivered')
      BY <2>2, NothingLeft
    <3>3. QED
      BY <3>1, <3>2 DEF BatchInv
  <2>3. QED
    BY <1>6, <2>1, <2>2
<1>11. GroupInv'
  <2>1. \A k \in Kinds : delivered'[k] <= Len(stream'[k]) /\ Len(stream'[k]) <= MaxLength[k]
    BY <1>1, <1>2 DEF world, TypeInv, GroupInv
  <2>2. QED
    BY <1>4, <1>7, <1>10, <2>1 DEF GroupInv, Delivered
<1>12. QED
  BY <1>8, <1>9, <1>11 DEF TypeInv

LEMMA ReadNothingKeepsType ==
  ASSUME TypeInv, ReadNothing
  PROVE  TypeInv'
<1>1. /\ UNCHANGED <<world, group, batch, buffer, windows, conn, stores, history>>
      /\ pc = "read" /\ idle' = IdleAfter
      /\ pc' = IF finite /\ idle' >= IdleRounds THEN "last" ELSE "read"
  BY DEF ReadNothing
<1>2. /\ idle' \in 0..IdleRounds
      /\ finite /\ pc' = "read" => idle' < IdleRounds
  BY <1>1, BoundsAre DEF TypeInv, TypeOK, PlaceInv, IdleAfter
<1>3. TypeOK'
  BY <1>1, <1>2 DEF TypeInv, TypeOK, world, group, stores, history, losses, Running
<1>4. PlaceInv'
  BY <1>1, <1>2 DEF TypeInv, PlaceInv, AtRow, Writing, Running, world, stores, history, losses
<1>5. GroupInv'
  BY <1>1, GroupSame DEF world, group, stores
<1>6. QED
  BY <1>3, <1>4, <1>5 DEF TypeInv

LEMMA ReadIdleKeepsType ==
  ASSUME TypeInv, ReadIdle
  PROVE  TypeInv'
<1>1. /\ UNCHANGED <<world, group, batch, buffer, windows, conn, idle, stores, losses>>
      /\ pc = "read" /\ pc' = (IF finite THEN "last" ELSE "read")
      /\ faults < MaxFaults /\ faults' = faults + 1
  BY DEF ReadIdle, Fault
<1>2. faults' \in 0..MaxFaults
  BY <1>1, BoundsAre DEF TypeInv, TypeOK
<1>3. TypeOK'
  BY <1>1, <1>2 DEF TypeInv, TypeOK, world, group, stores, losses, Running
<1>4. PlaceInv'
  BY <1>1 DEF TypeInv, PlaceInv, AtRow, Writing, Running, world, stores, losses
<1>5. GroupInv'
  BY <1>1, GroupSame DEF world, group, stores
<1>6. QED
  BY <1>3, <1>4, <1>5 DEF TypeInv

LEMMA WithoutVectorKeepsType ==
  ASSUME TypeInv, RowWithoutVector
  PROVE  TypeInv'
<1>1. /\ UNCHANGED <<world, group, batch, buffer, windows, conn, idle, stores, history>>
      /\ pc = "row" /\ pc' = "ack"
  BY DEF RowWithoutVector
<1>2. TypeOK'
  BY <1>1 DEF TypeInv, TypeOK, world, group, stores, history, losses, Running
<1>3. PlaceInv'
  BY <1>1 DEF TypeInv, PlaceInv, AtRow, Writing, Running, world, stores, history, losses
<1>4. GroupInv'
  BY <1>1, GroupSame DEF world, group, stores
<1>5. QED
  BY <1>2, <1>3, <1>4 DEF TypeInv

LEMMA RowKeepsType ==
  ASSUME TypeInv, Row
  PROVE  TypeInv'
<1> DEFINE k == Head(batch)[1]
<1>1. /\ pc = "row" /\ pc' \in {"expire", "store"}
      /\ windows' = [windows EXCEPT ![k] = Slid(@, Head(batch))]
      /\ UNCHANGED <<world, group, batch, buffer, conn, idle, file, offline, rejected, cut,
                     skipped, destroyed, broken>>
      /\ online' \in {online, HashSet} /\ torn' \in {torn, TRUE}
      /\ faults' = faults \/ (faults < MaxFaults /\ faults' = faults + 1)
  BY DEF Row, Fault, NoFault
<1>2. Head(batch) \in Rows /\ k \in Kinds
  BY <1>1, HeadIs DEF AtRow
<1>3. windows' \in [Kinds -> [Sizes -> Seq(Rows)]]
  <2>1. windows[k] \in [Sizes -> Seq(Rows)]
    BY <1>2 DEF TypeInv, TypeOK
  <2>2. Slid(windows[k], Head(batch)) \in [Sizes -> Seq(Rows)]
    BY <1>2, <2>1, SlideIs DEF Slid
  <2>3. QED
    BY <1>1, <1>2, <2>2 DEF TypeInv, TypeOK
<1>4. faults' \in 0..MaxFaults
  BY <1>1, BoundsAre DEF TypeInv, TypeOK
<1>5. online' \in {"absent", "expiring", "lasting"} /\ torn' \in BOOLEAN
  BY <1>1 DEF TypeInv, TypeOK, HashSet
<1>6. TypeOK'
  BY <1>1, <1>3, <1>4, <1>5 DEF TypeInv, TypeOK, world, group, Running
<1>7. PlaceInv'
  BY <1>1 DEF TypeInv, PlaceInv, AtRow, Writing, Running, world
<1>8. GroupInv'
  BY <1>1, GroupSame DEF world, group
<1>9. QED
  BY <1>6, <1>7, <1>8 DEF TypeInv

LEMMA ExpireKeepsType ==
  ASSUME TypeInv, Expire
  PROVE  TypeInv'
<1>1. /\ pc = "expire" /\ pc' = "store"
      /\ UNCHANGED <<world, group, batch, buffer, windows, conn, idle, file, offline,
                     rejected, cut, skipped, destroyed, broken>>
      /\ online' \in {online, HashExpiry} /\ torn' \in {torn, FALSE}
      /\ faults' = faults \/ (faults < MaxFaults /\ faults' = faults + 1)
  BY DEF Expire, Fault, NoFault
<1>2. faults' \in 0..MaxFaults
  BY <1>1, BoundsAre DEF TypeInv, TypeOK
<1>3. online' \in {"absent", "expiring", "lasting"} /\ torn' \in BOOLEAN
  BY <1>1 DEF TypeInv, TypeOK, HashExpiry
<1>4. TypeOK'
  BY <1>1, <1>2, <1>3 DEF TypeInv, TypeOK, world, group, Running
<1>5. PlaceInv'
  BY <1>1 DEF TypeInv, PlaceInv, AtRow, Writing, Running, world
<1>6. GroupInv'
  BY <1>1, GroupSame DEF world, group
<1>7. QED
  BY <1>4, <1>5, <1>6 DEF TypeInv

\* What write_offline leaves in PostgreSQL, and in the list of what it refused.
LEMMA OfflineKeeps ==
  ASSUME TypeInv, Store \/ StoreRefused \/ StoreSkipped
  PROVE  /\ pc = "store" /\ Buffered
         /\ \/ offline' = Inserted(Head(batch)) /\ rejected' = rejected
            \/ offline' = offline /\ rejected' = rejected \cup {Head(batch)}
         /\ conn' \in {conn, "open"}
         /\ faults' = faults \/ (faults < MaxFaults /\ faults' = faults + 1)
BY DEF Store, StoreRefused, StoreSkipped, Refused, Fault, NoFault

LEMMA InsertedIs ==
  ASSUME TypeInv, pc \in AtRow
  PROVE  /\ Inserted(Head(batch)) \subseteq Delivered
         /\ Inserted(Head(batch)) \subseteq Rows
         /\ offline \subseteq Inserted(Head(batch))
BY HeadIs DEF TypeInv, TypeOK, GroupInv, Inserted

LEMMA StoreKeepsType ==
  ASSUME TypeInv, Store \/ StoreRefused \/ StoreSkipped
  PROVE  TypeInv'
<1>1. /\ pc = "store" /\ Buffered
      /\ \/ offline' = Inserted(Head(batch)) /\ rejected' = rejected
         \/ offline' = offline /\ rejected' = rejected \cup {Head(batch)}
      /\ conn' \in {conn, "open"}
      /\ faults' = faults \/ (faults < MaxFaults /\ faults' = faults + 1)
  BY OfflineKeeps
<1>2. /\ buffer' = Append(buffer, Head(batch)) /\ pc' = "ack"
      /\ UNCHANGED <<world, group, batch, windows, idle, file, online, cut, skipped,
                     destroyed, broken, torn>>
  BY <1>1 DEF Buffered
<1>3. batch # <<>> /\ Head(batch) \in Rows /\ Head(batch) \in Delivered
  BY <1>1, HeadIs DEF AtRow
<1>4. buffer' \in Seq(Rows)
  BY <1>2, <1>3 DEF TypeInv, TypeOK
<1>5. /\ offline' \subseteq Rows /\ offline' \subseteq Delivered /\ rejected' \subseteq Rows
  BY <1>1, <1>3, InsertedIs DEF AtRow, TypeInv, TypeOK, GroupInv
<1>6. faults' \in 0..MaxFaults /\ conn' \in {"none", "open", "broken"}
  BY <1>1, BoundsAre DEF TypeInv, TypeOK
<1>7. TypeOK'
  BY <1>2, <1>4, <1>5, <1>6 DEF TypeInv, TypeOK, world, group, Running
<1>8. PlaceInv'
  BY <1>1, <1>2 DEF TypeInv, PlaceInv, AtRow, Writing, Running, world
<1>9. GroupInv'
  BY <1>2, <1>5 DEF TypeInv, GroupInv, BatchInv, Delivered, UpTo, world, group
<1>10. QED
  BY <1>7, <1>8, <1>9 DEF TypeInv

LEMMA RaiseKeepsType ==
  ASSUME TypeInv, pc \in AtRow \cup {"flush", "last"}, Raise, delivered' = delivered,
         pending' \subseteq pending, offline' \subseteq Rows, offline' \subseteq Delivered,
         conn' \in {"none", "open", "broken"}, faults' \in 0..MaxFaults
  PROVE  TypeInv'
<1>1. /\ batch' = <<>>
      /\ pc' = (IF finite THEN "ended" ELSE "read")
      /\ buffer' = (IF finite THEN <<>> ELSE buffer)
      /\ IF finite THEN cut' = cut + 1 /\ skipped' = skipped
         ELSE skipped' = skipped + 1 /\ cut' = cut
      /\ broken' \in {broken, broken + 1}
      /\ UNCHANGED <<world, windows, idle, file, online, rejected, destroyed, torn>>
  BY DEF Raise, Cut, Skipped, Broken
<1>2. cut + 1 <= starts /\ starts \in Nat /\ starts <= MaxStarts /\ cut \in Nat
  BY BoundsAre DEF TypeInv, TypeOK, PlaceInv, AtRow, Running
<1>3. cut' \in 0..MaxStarts /\ skipped' \in Nat /\ broken' \in Nat
  BY <1>1, <1>2, BoundsAre DEF TypeInv, TypeOK
<1>4. pending' \subseteq Rows
  BY DEF TypeInv, TypeOK
<1>5. TypeOK'
  BY <1>1, <1>3, <1>4 DEF TypeInv, TypeOK, world, Running
<1>6. cut' + (IF pc' \in Running THEN 1 ELSE 0) <= starts'
  BY <1>1, <1>2 DEF world, Running
<1>7. finite' /\ pc' = "read" => FALSE
  BY <1>1 DEF world
<1>8. PlaceInv'
  BY <1>1, <1>6, <1>7 DEF TypeInv, PlaceInv, AtRow, Writing, world
<1>9. GroupInv'
  BY <1>1, GroupDropped DEF world
<1>10. QED
  BY <1>5, <1>8, <1>9 DEF TypeInv

\* The steps that raise.
Raises == StoreRaises \/ AckFails \/ FlushRaises

LEMMA RaisesAre ==
  ASSUME TypeInv, Raises
  PROVE  /\ Raise /\ delivered' = delivered
         /\ \/ pc \in {"store", "ack"} /\ batch # <<>>
            \/ pc \in {"flush", "last"} /\ pending' = pending
         /\ \/ pending' = pending
            \/ AckFails /\ pc = "ack" /\ pending' = pending \ {Head(batch)}
         /\ offline' = offline \/ (pc = "store" /\ offline' = Inserted(Head(batch)))
         /\ conn' \in {conn, "broken"}
         /\ faults' = faults \/ (faults < MaxFaults /\ faults' = faults + 1)
<1>1. CASE StoreRaises
  BY <1>1 DEF StoreRaises, Fault, NoFault, group, TypeInv, PlaceInv, AtRow
<1>2. CASE AckFails
  BY <1>2 DEF AckFails, Unacknowledged, Fault, TypeInv, PlaceInv, AtRow
<1>3. CASE FlushRaises
  BY <1>3 DEF FlushRaises, Flushing, Fault, group
<1>4. QED
  BY <1>1, <1>2, <1>3 DEF Raises

LEMMA RaisesKeepType ==
  ASSUME TypeInv, Raises
  PROVE  TypeInv'
<1>1. /\ Raise /\ delivered' = delivered /\ pending' \subseteq pending
      /\ pc \in AtRow \cup {"flush", "last"}
      /\ offline' = offline \/ (pc \in AtRow /\ offline' = Inserted(Head(batch)))
      /\ conn' \in {conn, "broken"}
      /\ faults' = faults \/ (faults < MaxFaults /\ faults' = faults + 1)
  BY RaisesAre DEF AtRow
<1>2. offline' \subseteq Rows /\ offline' \subseteq Delivered
  BY <1>1, InsertedIs DEF TypeInv, TypeOK, GroupInv
<1>3. conn' \in {"none", "open", "broken"} /\ faults' \in 0..MaxFaults
  BY <1>1, BoundsAre DEF TypeInv, TypeOK
<1>4. QED
  BY <1>1, <1>2, <1>3, RaiseKeepsType

\* The rest of a batch without its first entry.
LEMMA TailIs ==
  ASSUME TypeInv, batch # <<>>
  PROVE  /\ \E t, c \in 0..Count :
               t <= delivered["trades"] /\ c <= delivered["klines"]
                 /\ Tail(batch) = RestOf(t, c, delivered)
         /\ Tail(batch) \in Seq(Rows) /\ Len(Tail(batch)) = Len(batch) - 1
         /\ ToSet(Tail(batch)) = ToSet(batch) \ {Head(batch)}
<1>1. /\ delivered \in [Kinds -> Nat] /\ \A k \in Kinds : delivered[k] <= MaxLength[k]
      /\ batch \in Seq(Rows)
  BY BatchIs
<1>2. PICK t \in 0..Count, c \in 0..Count :
        t <= delivered["trades"] /\ c <= delivered["klines"]
          /\ batch = RestOf(t, c, delivered)
  BY DEF TypeInv, GroupInv, BatchInv
<1>3. PICK k \in Kinds, u \in 0..(Count - 1) :
        /\ u < delivered[k] /\ Head(batch) = <<k, delivered[k] - u>>
        /\ \/ k = "trades" /\ t = u + 1 /\ Tail(batch) = RestOf(u, c, delivered)
           \/ k = "klines" /\ t = 0 /\ c = u + 1 /\ Tail(batch) = RestOf(0, u, delivered)
  <2>1. RestOf(t, c, delivered) # <<>>
    BY <1>2
  <2>2. \E k \in Kinds, u \in 0..(Count - 1) :
          /\ u < delivered[k] /\ Head(RestOf(t, c, delivered)) = <<k, delivered[k] - u>>
          /\ \/ k = "trades" /\ t = u + 1
                /\ Tail(RestOf(t, c, delivered)) = RestOf(u, c, delivered)
             \/ k = "klines" /\ t = 0 /\ c = u + 1
                /\ Tail(RestOf(t, c, delivered)) = RestOf(0, u, delivered)
    BY <1>1, <1>2, <2>1, RestHead
  <2>3. QED
    BY <1>2, <2>2
<1>4. /\ u \in Nat /\ u \in 0..Count /\ 0 \in 0..Count
      /\ delivered[k] \in Nat /\ t \in Nat /\ c \in Nat
  BY <1>1, <1>3, BoundsAre
<1>5. PICK t2 \in 0..Count, c2 \in 0..Count :
         /\ t2 <= delivered["trades"] /\ c2 <= delivered["klines"]
         /\ Tail(batch) = RestOf(t2, c2, delivered)
         /\ \/ k = "trades" /\ t = u + 1 /\ t2 = u /\ c2 = c
            \/ k = "klines" /\ t = 0 /\ c = u + 1 /\ t2 = 0 /\ c2 = u
  <2>1. CASE k = "trades"
    BY <1>2, <1>3, <1>4, <2>1
  <2>2. CASE k = "klines"
    <3>1. 0 <= delivered["trades"] /\ u <= delivered["klines"]
      BY <1>1, <1>3, <1>4, <2>2 DEF Kinds
    <3>2. QED
      BY <1>3, <1>4, <2>2, <3>1
  <2>3. QED
    BY <2>1, <2>2 DEF Kinds
<1>6. Tail(batch) \in Seq(Rows) /\ Len(Tail(batch)) = Len(batch) - 1
  BY <1>1, HeadAndTail
<1>7. ToSet(batch) = Ends(t, c, delivered)
  BY <1>1, <1>2, <1>4, Rests
<1>8. ToSet(Tail(batch)) = Ends(t2, c2, delivered)
  <2>1. t2 \in Nat /\ c2 \in Nat
    BY <1>5, BoundsAre
  <2>2. t2 <= delivered["trades"] /\ c2 <= delivered["klines"]
    BY <1>5
  <2>3. ToSet(RestOf(t2, c2, delivered)) =
           Ends(t2, c2, delivered)
    BY <1>1, <2>1, <2>2, Rests
  <2>4. Tail(batch) = RestOf(t2, c2, delivered)
    BY <1>5
  <2>5. QED
    BY <2>3, <2>4
<1>9. ASSUME NEW r \in UpTo(delivered)
      PROVE  r \in ToSet(Tail(batch)) <=> r \in ToSet(batch) /\ r # Head(batch)
  <2>1. r[1] \in Kinds /\ r[2] \in Nat /\ r = <<r[1], r[2]>> /\ delivered[r[1]] \in Nat
    BY <1>1, <1>9, RowIs DEF UpTo
  <2>2. r = Head(batch) <=> r[1] = k /\ r[2] = delivered[k] - u
    <3>1. \A a, b, x, y : <<a, b>> = <<x, y>> <=> a = x /\ b = y
      OBVIOUS
    <3>2. Head(batch) = <<k, delivered[k] - u>>
      BY <1>3
    <3>3. <<r[1], r[2]>> = <<k, delivered[k] - u>> <=> r[1] = k /\ r[2] = delivered[k] - u
      BY <3>1
    <3>4. QED
      BY <2>1, <3>2, <3>3
  <2>3. r \in ToSet(batch) <=> r[2] > delivered[r[1]] - (IF r[1] = "trades" THEN t ELSE c)
    BY <1>7, <1>9 DEF Ends
  <2>4. r \in ToSet(Tail(batch)) <=> r[2] > delivered[r[1]] - (IF r[1] = "trades" THEN t2 ELSE c2)
    BY <1>8, <1>9 DEF Ends
  <2>5. CASE r[1] = k
    <3>1. (IF r[1] = "trades" THEN t ELSE c) = u + 1 /\ (IF r[1] = "trades" THEN t2 ELSE c2) = u
      BY <1>5, <2>5
    <3>2. r[2] > delivered[k] - u <=> r[2] > delivered[k] - (u + 1) /\ r[2] # delivered[k] - u
      BY <1>4, <2>1, <2>5
    <3>3. QED
      BY <2>2, <2>3, <2>4, <2>5, <3>1, <3>2
  <2>6. CASE r[1] # k
    <3>1. CASE r[1] = "trades"
      <4>1. t = 0 /\ t2 = 0
        BY <1>5, <2>6, <3>1
      <4>2. QED
        BY <2>2, <2>3, <2>4, <2>6, <3>1, <4>1
    <3>2. CASE r[1] # "trades"
      <4>1. c = c2
        BY <1>5, <2>1, <2>6, <3>2 DEF Kinds
      <4>2. QED
        BY <2>2, <2>3, <2>4, <2>6, <3>2, <4>1
    <3>3. QED
      BY <3>1, <3>2
  <2>7. QED
    BY <2>5, <2>6
<1>10. ToSet(batch) \subseteq UpTo(delivered) /\ ToSet(Tail(batch)) \subseteq UpTo(delivered)
  BY <1>7, <1>8 DEF Ends
<1>11. ToSet(Tail(batch)) = ToSet(batch) \ {Head(batch)}
  BY <1>9, <1>10
<1>12. QED
  BY <1>5, <1>6, <1>11

LEMMA AckKeepsType ==
  ASSUME TypeInv, Ack
  PROVE  TypeInv'
<1>1. /\ pc = "ack" /\ pending' = pending \ {Head(batch)} /\ batch' = Tail(batch)
      /\ pc' = AfterRow
      /\ UNCHANGED <<world, delivered, buffer, windows, conn, idle, stores, history>>
  BY DEF Ack, Unacknowledged
<1>2. batch # <<>> /\ batch \in Seq(Rows) /\ Len(batch) \in Nat
  BY <1>1 DEF TypeInv, TypeOK, PlaceInv, AtRow
<1>3. /\ \E t, c \in 0..Count :
            t <= delivered["trades"] /\ c <= delivered["klines"]
              /\ Tail(batch) = RestOf(t, c, delivered)
      /\ Tail(batch) \in Seq(Rows) /\ Len(Tail(batch)) = Len(batch) - 1
      /\ ToSet(Tail(batch)) = ToSet(batch) \ {Head(batch)}
  BY <1>2, TailIs
<1>4. /\ pc' \in {"flush", "read", "row"}
      /\ pc' = "read" => Len(batch) = 1
      /\ pc' = "row" => Len(batch) # 1
  BY <1>1 DEF AfterRow
<1>5. pc' = "read" => batch' = <<>>
  BY <1>1, <1>3, <1>4
<1>6. pc' = "row" => batch' # <<>>
  <2>1. ASSUME batch' = <<>> PROVE Len(batch) = 1
    <3>1. Tail(batch) = <<>>
      BY <1>1, <2>1
    <3>2. Len(Tail(batch)) = 0
      BY <3>1
    <3>3. QED
      BY <1>2, <1>3, <3>2
  <2>2. QED
    BY <1>4, <2>1
<1>7. TypeOK'
  BY <1>1, <1>3, <1>4 DEF TypeInv, TypeOK, world, stores, history, losses, Running
<1>8. PlaceInv'
  BY <1>1, <1>4, <1>5, <1>6
     DEF TypeInv, PlaceInv, AtRow, Writing, Running, world, stores, history, losses
<1>9. GroupInv'
  <2>1. BatchInv'
    BY <1>1, <1>3 DEF BatchInv
  <2>2. QED
    BY <1>1, <1>3, <2>1 DEF TypeInv, GroupInv, Delivered, UpTo, world, stores
<1>10. QED
  BY <1>7, <1>8, <1>9 DEF TypeInv

\* Where a flush goes on.
LEMMA AfterFlushIs ==
  ASSUME TypeInv, Flushing \/ Writing
  PROVE  /\ AfterFlush \in {"ended", "read", "row"}
         /\ AfterFlush = "ended" <=> pc \in {"last", "lastWrite"}
         /\ AfterFlush = "row" => batch # <<>>
         /\ AfterFlush \in {"read", "ended"} => batch = <<>>
         /\ pc \in Running
BY DEF TypeInv, PlaceInv, Flushing, Writing, AfterFlush, Running

LEMMA FileRowsIs ==
  ASSUME TypeInv
  PROVE  /\ FileRows \in Seq(Rows)
         /\ ToSet(FileRows) \subseteq ToSet(file[day].rows) \cup ToSet(buffer)
<1>1. file[day].rows \in Seq(Rows) /\ buffer \in Seq(Rows)
  BY DEF TypeInv, TypeOK
<1>2. /\ file[day].rows \o buffer \in Seq(Rows)
      /\ ToSet(file[day].rows \o buffer) = ToSet(file[day].rows) \cup ToSet(buffer)
  BY <1>1, Joined
<1>3. /\ DropDuplicates(file[day].rows \o buffer) \in Seq(Rows)
      /\ ToSet(DropDuplicates(file[day].rows \o buffer)) \subseteq ToSet(file[day].rows \o buffer)
  BY <1>2, Deduplicated
<1>4. QED
  BY <1>1, <1>2, <1>3 DEF FileRows

LEMMA BeginWriteKeepsType ==
  ASSUME TypeInv, BeginWrite
  PROVE  TypeInv'
<1>1. /\ Flushing /\ file' = [file EXCEPT ![day] = [state |-> "torn", rows |-> FileRows]]
      /\ pc' = IF pc = "last" THEN "lastWrite" ELSE "write"
      /\ UNCHANGED <<world, group, batch, buffer, windows, conn, idle, offline, online, history>>
  BY DEF BeginWrite
<1>2. day \in Days /\ FileRows \in Seq(Rows)
  BY FileRowsIs DEF TypeInv, TypeOK
<1>3. file' \in [Days -> [state : {"absent", "good", "torn"}, rows : Seq(Rows)]]
  BY <1>1, <1>2 DEF TypeInv, TypeOK
<1>4. TypeOK'
  BY <1>1, <1>3 DEF TypeInv, TypeOK, world, group, history, losses, Running
<1>5. file'[day].state = "torn" /\ \A d \in Days \ {day} : file'[d] = file[d]
  BY <1>1, <1>2 DEF TypeInv, TypeOK
<1>6. PlaceInv'
  BY <1>1, <1>5
     DEF TypeInv, PlaceInv, AtRow, Writing, Flushing, Running, world, history, losses
<1>7. GroupInv'
  BY <1>1, GroupSame DEF world, group
<1>8. QED
  BY <1>4, <1>6, <1>7 DEF TypeInv

LEMMA EndWriteKeepsType ==
  ASSUME TypeInv, EndWrite
  PROVE  TypeInv'
<1>1. /\ Writing /\ file' = [file EXCEPT ![day] = [state |-> "good", rows |-> @.rows]]
      /\ buffer' = <<>> /\ pc' = AfterFlush
      /\ UNCHANGED <<world, group, batch, windows, conn, idle, offline, online, history>>
  BY DEF EndWrite, BufferAfterWrite
<1>2. day \in Days /\ file[day].rows \in Seq(Rows)
  BY DEF TypeInv, TypeOK
<1>3. file' \in [Days -> [state : {"absent", "good", "torn"}, rows : Seq(Rows)]]
  BY <1>1, <1>2 DEF TypeInv, TypeOK
<1>4. /\ pc' \in {"ended", "read", "row"} /\ pc \in Running
      /\ pc' = "ended" <=> pc \in {"last", "lastWrite"}
      /\ pc' = "row" => batch # <<>>
      /\ pc' \in {"read", "ended"} => batch = <<>>
  BY <1>1, AfterFlushIs
<1>5. TypeOK'
  BY <1>1, <1>3, <1>4 DEF TypeInv, TypeOK, world, group, history, losses, Running
<1>6. file'[day].state = "good" /\ \A d \in Days \ {day} : file'[d] = file[d]
  BY <1>1, <1>2 DEF TypeInv, TypeOK
<1>7. PlaceInv'
  <2>1. \A d \in Days : file'[d].state = "absent" => file'[d].rows = <<>>
    BY <1>6 DEF TypeInv, PlaceInv
  <2>2. finite' /\ pc' \in {"read", "row"} => idle' < IdleRounds
    BY <1>1, <1>4 DEF TypeInv, PlaceInv, Writing, world
  <2>3. cut' + (IF pc' \in Running THEN 1 ELSE 0) <= starts'
    BY <1>1, <1>4, BoundsAre DEF TypeInv, TypeOK, PlaceInv, Running, world, history, losses
  <2>4. QED
    BY <1>1, <1>4, <2>1, <2>2, <2>3 DEF PlaceInv, AtRow, Writing
<1>8. GroupInv'
  BY <1>1, GroupSame DEF world, group
<1>9. QED
  BY <1>5, <1>7, <1>8 DEF TypeInv

\* A flush that fails.
LEMMA FailedIs ==
  ASSUME TypeInv, FlushFails \/ WriteFails
  PROVE  /\ Flushing \/ Writing
         /\ Unflushed
         /\ \/ Flushing /\ file' = file /\ destroyed' = destroyed
            \/ /\ Writing /\ destroyed' = destroyed \cup {day}
               /\ \E left \in {Absent, file[day]} : file' = [file EXCEPT ![day] = left]
         /\ faults' = faults \/ (faults < MaxFaults /\ faults' = faults + 1)
BY DEF FlushFails, WriteFails, Fault, NoFault

LEMMA FailsKeepType ==
  ASSUME TypeInv, FlushFails \/ WriteFails
  PROVE  TypeInv'
<1>1. /\ Flushing \/ Writing
      /\ \/ Flushing /\ file' = file /\ destroyed' = destroyed
         \/ /\ Writing /\ destroyed' = destroyed \cup {day}
            /\ \E left \in {Absent, file[day]} : file' = [file EXCEPT ![day] = left]
      /\ faults' = faults \/ (faults < MaxFaults /\ faults' = faults + 1)
  BY FailedIs
<1>2. /\ pc' = AfterFlush
      /\ buffer' = (IF AfterFlush = "ended" THEN <<>> ELSE buffer)
      /\ IF AfterFlush = "ended" THEN cut' = cut + 1 /\ skipped' = skipped
         ELSE skipped' = skipped + 1 /\ cut' = cut
      /\ UNCHANGED <<world, group, batch, windows, conn, idle, offline, online, rejected,
                     broken, torn>>
  BY FailedIs DEF Unflushed, Cut, Skipped
<1>3. /\ pc' \in {"ended", "read", "row"} /\ pc \in Running
      /\ pc' = "ended" <=> pc \in {"last", "lastWrite"}
      /\ pc' = "row" => batch # <<>>
      /\ pc' \in {"read", "ended"} => batch = <<>>
  BY <1>1, <1>2, AfterFlushIs
<1>4. day \in Days /\ file \in [Days -> [state : {"absent", "good", "torn"}, rows : Seq(Rows)]]
  BY DEF TypeInv, TypeOK
<1>5. /\ file' \in [Days -> [state : {"absent", "good", "torn"}, rows : Seq(Rows)]]
      /\ file'[day] \in {Absent, file[day]} /\ \A d \in Days \ {day} : file'[d] = file[d]
  <2>1. Absent \in [state : {"absent", "good", "torn"}, rows : Seq(Rows)]
    BY DEF Absent
  <2>2. CASE file' = file
    BY <1>4, <2>2
  <2>3. CASE \E left \in {Absent, file[day]} : file' = [file EXCEPT ![day] = left]
    BY <1>4, <2>1, <2>3
  <2>4. QED
    BY <1>1, <2>2, <2>3
<1>6. cut + 1 <= starts /\ starts \in Nat /\ starts <= MaxStarts /\ cut \in Nat /\ skipped \in Nat
  BY <1>3, BoundsAre DEF TypeInv, TypeOK, PlaceInv
<1>7. /\ cut' \in 0..MaxStarts /\ skipped' \in Nat
      /\ cut' + (IF pc' \in Running THEN 1 ELSE 0) <= starts
  BY <1>2, <1>3, <1>6, BoundsAre DEF Running
<1>8. faults' \in 0..MaxFaults /\ destroyed' \subseteq Days /\ buffer' \in Seq(Rows)
  BY <1>1, <1>2, <1>4, BoundsAre DEF TypeInv, TypeOK
<1>9. TypeOK'
  BY <1>2, <1>3, <1>5, <1>7, <1>8 DEF TypeInv, TypeOK, world, group, Running
<1>10. \A d \in Days : file'[d].state = "absent" => file'[d].rows = <<>>
  <2> SUFFICES ASSUME NEW d \in Days, file'[d].state = "absent" PROVE file'[d].rows = <<>>
    OBVIOUS
  <2>1. file[d].state = "absent" => file[d].rows = <<>>
    BY DEF TypeInv, PlaceInv
  <2>2. Absent.rows = <<>>
    BY DEF Absent
  <2>3. file'[d] = Absent \/ file'[d] = file[d]
    BY <1>5
  <2>4. QED
    BY <2>1, <2>2, <2>3
<1>11. pc' = "ended" => buffer' = <<>>
  BY <1>2
<1>12. finite /\ pc \in {"read", "flush", "write"} \cup AtRow => idle < IdleRounds
  BY DEF TypeInv, PlaceInv
<1>13. finite' /\ pc' \in {"read", "row"} => idle' < IdleRounds
  BY <1>1, <1>2, <1>3, <1>12 DEF Flushing, Writing, world
<1>14. PlaceInv'
  BY <1>2, <1>3, <1>7, <1>10, <1>11, <1>13 DEF PlaceInv, AtRow, Writing, world
<1>15. GroupInv'
  BY <1>2, GroupSame DEF world, group
<1>16. QED
  BY <1>9, <1>14, <1>15 DEF TypeInv

LEMMA CrashKeepsType ==
  ASSUME TypeInv, Crash
  PROVE  TypeInv'
<1>1. /\ pc \in Running /\ pc' = "down" /\ batch' = <<>> /\ buffer' = <<>>
      /\ cut' = cut + 1 /\ skipped' = skipped
      /\ destroyed' \in {destroyed, destroyed \cup {day}}
      /\ broken' \in {broken, broken + 1}
      /\ UNCHANGED <<world, group, windows, conn, idle, stores, rejected, torn>>
      /\ faults < MaxFaults /\ faults' = faults + 1
  BY DEF Crash, Cut, Broken, Fault
<1>2. cut + 1 <= starts /\ starts \in Nat /\ starts <= MaxStarts /\ cut \in Nat
  BY <1>1, BoundsAre DEF TypeInv, TypeOK, PlaceInv
<1>3. /\ cut' \in 0..MaxStarts /\ faults' \in 0..MaxFaults /\ broken' \in Nat
      /\ destroyed' \subseteq Days
  BY <1>1, <1>2, BoundsAre DEF TypeInv, TypeOK
<1>4. TypeOK'
  BY <1>1, <1>3 DEF TypeInv, TypeOK, world, group, stores
<1>5. PlaceInv'
  BY <1>1, <1>2 DEF TypeInv, PlaceInv, AtRow, Writing, Running, world, stores
<1>6. GroupInv'
  <2>1. offline' \subseteq Delivered
    BY <1>1 DEF TypeInv, GroupInv, stores
  <2>2. QED
    BY <1>1, <2>1, GroupDropped DEF world, group
<1>7. QED
  BY <1>4, <1>5, <1>6 DEF TypeInv

LEMMA StartKeepsType ==
  ASSUME TypeInv, Start
  PROVE  TypeInv'
<1>1. /\ pc \in {"ended", "down"} /\ starts < MaxStarts /\ starts' = starts + 1
      /\ pc' = "read" /\ idle' = 0 /\ finite' \in BOOLEAN
      /\ windows' = [k \in Kinds |-> Empty(Sizes)] /\ conn' \in Connection
      /\ UNCHANGED <<stream, day, tables, group, batch, buffer, stores, history>>
  BY DEF Start
<1>2. /\ windows' \in [Kinds -> [Sizes -> Seq(Rows)]] /\ idle' \in 0..IdleRounds
      /\ idle' < IdleRounds
  BY <1>1, BoundsAre DEF Empty
<1>3. conn' \in {"none", "open", "broken"}
  BY <1>1 DEF Connection
<1>4. starts' \in 1..MaxStarts /\ cut' + 1 <= starts'
  BY <1>1, BoundsAre DEF TypeInv, TypeOK, PlaceInv, Running, history, losses
<1>5. TypeOK'
  BY <1>1, <1>2, <1>3, <1>4 DEF TypeInv, TypeOK, Running, group, stores, history, losses
<1>6. PlaceInv'
  BY <1>1, <1>2, <1>4 DEF TypeInv, PlaceInv, AtRow, Writing, Running, stores
<1>7. GroupInv'
  BY <1>1, GroupSame DEF group, stores
<1>8. QED
  BY <1>5, <1>6, <1>7 DEF TypeInv

LEMMA ProduceKeepsType ==
  ASSUME TypeInv, Produce
  PROVE  TypeInv'
<1>1. PICK k \in Kinds, t \in {NoVector} \cup 1..MaxTs :
        /\ Len(stream[k]) < MaxLength[k]
        /\ stream' = [stream EXCEPT ![k] = Append(@, t)]
  BY DEF Produce
<1>2. UNCHANGED <<group, process, day, tables, stores, starts, finite, history>>
  BY DEF Produce
<1>3. stream \in [Kinds -> Seq({NoVector} \cup 1..MaxTs)]
  BY DEF TypeInv, TypeOK
<1>4. Append(stream[k], t) \in Seq({NoVector} \cup 1..MaxTs) /\ Len(Append(stream[k], t)) = Len(stream[k]) + 1
  BY <1>3
<1>5. /\ stream' \in [Kinds -> Seq({NoVector} \cup 1..MaxTs)]
      /\ stream'[k] = Append(stream[k], t)
      /\ \A j \in Kinds \ {k} : stream'[j] = stream[j]
  BY <1>1, <1>3, <1>4
<1>6. ASSUME NEW j \in Kinds
      PROVE  delivered[j] <= Len(stream'[j]) /\ Len(stream'[j]) <= MaxLength[j]
  <2>1. /\ delivered[j] \in Nat /\ Len(stream[j]) \in Nat /\ MaxLength[j] \in Nat
        /\ delivered[j] <= Len(stream[j]) /\ Len(stream[j]) <= MaxLength[j]
    BY <1>3, RowIs DEF TypeInv, TypeOK, GroupInv
  <2>2. CASE j = k
    BY <1>1, <1>4, <1>5, <2>1, <2>2
  <2>3. CASE j # k
    BY <1>5, <2>1, <2>3
  <2>4. QED
    BY <2>2, <2>3
<1>7. TypeOK'
  BY <1>2, <1>5 DEF TypeInv, TypeOK, group, process, stores, history, losses
<1>8. PlaceInv'
  BY <1>2 DEF TypeInv, PlaceInv, Writing, process, stores, history, losses
<1>9. GroupInv'
  BY <1>2, <1>6 DEF TypeInv, GroupInv, BatchInv, Delivered, UpTo, group, process, stores
<1>10. QED
  BY <1>7, <1>8, <1>9 DEF TypeInv

\* The other steps: where the process is and the world around it.
LEMMA OthersKeepType ==
  ASSUME TypeInv, NothingToFlush \/ Midnight \/ HashExpires \/ UNCHANGED vars
  PROVE  TypeInv'
<1>1. /\ UNCHANGED <<stream, delivered, pending, batch, buffer, windows, conn, idle, file,
                     tables, offline, starts, finite, history>>
      /\ \/ pc' = pc
         \/ pc = "last" /\ buffer = <<>> /\ pc' = "ended"
      /\ \/ day' = day
         \/ Flushing /\ pc' = pc /\ day < MaxDays /\ day' = day + 1
      /\ online' \in {online, "absent"}
  BY DEF NothingToFlush, Midnight, HashExpires, world, group, process, stores, vars
<1>2. day' \in Days
  BY <1>1, BoundsAre DEF TypeInv, TypeOK, Days
<1>3. TypeOK'
  BY <1>1, <1>2 DEF TypeInv, TypeOK, Running, history, losses
<1>4. PlaceInv'
  <2>1. PlaceInv /\ cut \in Nat /\ starts \in Nat
    BY BoundsAre DEF TypeInv, TypeOK
  <2>2. /\ cut' = cut
        /\ Writing' => Writing /\ day' = day
        /\ UNCHANGED <<batch, buffer, idle, file, starts, finite>>
    BY <1>1 DEF Writing, Flushing, history, losses
  <2>3. CASE pc' = pc
    BY <2>1, <2>2, <2>3 DEF PlaceInv, AtRow
  <2>4. CASE pc = "last" /\ buffer = <<>> /\ pc' = "ended"
    BY <2>1, <2>2, <2>4 DEF PlaceInv, AtRow, Running
  <2>5. QED
    BY <1>1, <2>3, <2>4
<1>5. GroupInv'
  BY <1>1, GroupSame
<1>6. QED
  BY <1>3, <1>4, <1>5 DEF TypeInv

LEMMA NextType == TypeInv /\ [Next]_vars => TypeInv'
<1> SUFFICES ASSUME TypeInv, [Next]_vars PROVE TypeInv'
  OBVIOUS
<1>1. CASE Read \/ ReadFails
  BY <1>1, ReadFailsIs, ReadKeepsType, ReadIdleKeepsType
<1>2. CASE ReadNothing
  BY <1>2, ReadNothingKeepsType
<1>3. CASE Row \/ RowWithoutVector
  BY <1>3, RowKeepsType, WithoutVectorKeepsType
<1>4. CASE Expire
  BY <1>4, ExpireKeepsType
<1>5. CASE Store \/ StoreRefused \/ StoreSkipped
  BY <1>5, StoreKeepsType
<1>6. CASE Raises
  BY <1>6, RaisesKeepType
<1>7. CASE Ack
  BY <1>7, AckKeepsType
<1>8. CASE BeginWrite
  BY <1>8, BeginWriteKeepsType
<1>9. CASE EndWrite
  BY <1>9, EndWriteKeepsType
<1>10. CASE FlushFails \/ WriteFails
  BY <1>10, FailsKeepType
<1>11. CASE Crash
  BY <1>11, CrashKeepsType
<1>12. CASE Start
  BY <1>12, StartKeepsType
<1>13. CASE Produce
  BY <1>13, ProduceKeepsType
<1>14. CASE NothingToFlush \/ Midnight \/ HashExpires \/ UNCHANGED vars
  BY <1>14, OthersKeepType
<1>15. QED
  BY <1>1, <1>2, <1>3, <1>4, <1>5, <1>6, <1>7, <1>8, <1>9, <1>10, <1>11, <1>12, <1>13, <1>14
     DEF Next, Consumer, Raises

LEMMA TypeInvariance == Spec => []TypeInv
  BY InitType, NextType, PTL DEF Spec

\* Every variable keeps its type: no more rows than entries, no more processes
\* cut off than were started.
THEOREM TypeCorrect == Spec => []TypeOK
<1>1. TypeInv => TypeOK
  BY DEF TypeInv
<1>2. QED
  BY <1>1, TypeInvariance, PTL

-----------------------------------------------------------------------------
(* The latest features.                                                    *)

\* Only HSET makes a lasting hash, and EXPIRE takes that back: features that
\* do not expire are those of a last write that broke off in between.
THEOREM LatestExpires == Spec => []OnlineExpires
<1>1. Init => OnlineExpires
  BY DEF Init, OnlineExpires
<1>2. OnlineExpires /\ [Next]_vars => OnlineExpires'
  <2> SUFFICES ASSUME OnlineExpires, [Next]_vars PROVE OnlineExpires'
    OBVIOUS
  <2>1. CASE Row
    BY <2>1 DEF Row, HashSet, OnlineExpires
  <2>2. CASE Expire
    BY <2>2 DEF Expire, HashExpiry, OnlineExpires
  <2>3. CASE HashExpires
    BY <2>3 DEF HashExpires, OnlineExpires
  <2>4. CASE Read \/ ReadNothing \/ ReadFails \/ RowWithoutVector \/ Start \/ Produce \/ Midnight
               \/ NothingToFlush \/ Crash \/ Ack \/ BeginWrite \/ EndWrite \/ UNCHANGED vars
    BY <2>4 DEF Read, ReadNothing, ReadFails, RowWithoutVector, Start, Produce, Midnight,
                NothingToFlush, Crash, Ack, BeginWrite, EndWrite, vars, stores, history, losses,
                OnlineExpires
  <2>5. CASE Store \/ StoreRefused \/ StoreSkipped
    BY <2>5 DEF Store, StoreRefused, StoreSkipped, Buffered, OnlineExpires
  <2>6. CASE StoreRaises \/ AckFails \/ FlushRaises \/ FlushFails \/ WriteFails
    BY <2>6 DEF StoreRaises, AckFails, FlushRaises, Raise, FlushFails, WriteFails, Unflushed,
                OnlineExpires
  <2>7. QED
    BY <2>1, <2>2, <2>3, <2>4, <2>5, <2>6 DEF Next, Consumer
<1>3. QED
  BY <1>1, <1>2, PTL DEF Spec

-----------------------------------------------------------------------------
(* Entries that are in nobody's hands.                                     *)

LEMMA FiniteRows == IsFiniteSet(Rows)
<1>1. IsFiniteSet(Kinds)
  <2>1. Kinds = {"trades"} \cup {"klines"}
    BY DEF Kinds
  <2>2. QED
    BY <2>1, FS_Singleton, FS_AddElement
<1> DEFINE most == IF MaxTrades < MaxCandles THEN MaxCandles ELSE MaxTrades
<1>2. most \in Nat /\ \A k \in Kinds : MaxLength[k] <= most
  BY BoundsAssumption DEF MaxLength, Kinds
<1> HIDE DEF most
<1>3. IsFiniteSet(1..most)
  BY <1>2, FS_Interval
<1>4. IsFiniteSet(Kinds \X (1..most))
  BY <1>1, <1>3, FS_Product
<1>5. ASSUME NEW r \in Rows PROVE r \in Kinds \X (1..most)
  <2>1. r[1] \in Kinds /\ r[2] \in 1..MaxLength[r[1]] /\ r = <<r[1], r[2]>>
    BY <1>5, RowIs
  <2>2. r[2] \in 1..most
    BY <1>2, <2>1, RowIs
  <2>3. QED
    BY <2>1, <2>2
<1>6. QED
  BY <1>4, <1>5, FS_Subset

\* No set of rows has more than its elements, and none less than none.
LEMMA RowsCount ==
  ASSUME NEW S \in SUBSET Rows
  PROVE  /\ IsFiniteSet(S) /\ Cardinality(S) \in Nat
         /\ \A T \in SUBSET S : Cardinality(T) <= Cardinality(S)
         /\ \A T \in SUBSET Rows : Cardinality(S \cup T) <= Cardinality(S) + Cardinality(T)
<1>1. IsFiniteSet(S) /\ Cardinality(S) \in Nat
  BY FiniteRows, FS_Subset, FS_CardinalityType
<1>2. \A T \in SUBSET S : Cardinality(T) <= Cardinality(S)
  BY <1>1, FS_Subset
<1>3. ASSUME NEW T \in SUBSET Rows
      PROVE  Cardinality(S \cup T) <= Cardinality(S) + Cardinality(T)
  <2>1. IsFiniteSet(T) /\ Cardinality(T) \in Nat /\ Cardinality(S \cap T) \in Nat
    BY FiniteRows, FS_Subset, FS_CardinalityType
  <2>2. Cardinality(S \cup T) = Cardinality(S) + Cardinality(T) - Cardinality(S \cap T)
    BY <1>1, <2>1, FS_Union
  <2>3. QED
    BY <1>1, <2>1, <2>2
<1>4. QED
  BY <1>1, <1>2, <1>3

LEMMA ElementsCount ==
  ASSUME NEW s \in Seq(Rows)
  PROVE  Cardinality(ToSet(s)) \in Nat /\ Cardinality(ToSet(s)) <= Len(s)
<1> DEFINE f == [i \in 1..Len(s) |-> s[i]]
<1>1. Len(s) \in Nat /\ \A x : x \in ToSet(s) <=> \E i \in 1..Len(s) : s[i] = x
  BY Elements
<1>2. f \in Surjection(1..Len(s), ToSet(s))
  BY <1>1 DEF Surjection
<1>3. IsFiniteSet(1..Len(s)) /\ Cardinality(1..Len(s)) = Len(s)
  BY <1>1, FS_Interval
<1>4. IsFiniteSet(ToSet(s)) /\ Cardinality(ToSet(s)) <= Len(s)
  BY <1>2, <1>3, FS_Surjection
<1>5. QED
  BY <1>4, FS_CardinalityType

Stranded == pending \ ToSet(batch)

LEMMA NextStranded ==
  TypeInv /\ StrandedBounded /\ [Next]_vars => StrandedBounded'
<1> SUFFICES ASSUME TypeInv, StrandedBounded, [Next]_vars PROVE StrandedBounded'
  OBVIOUS
<1>0. /\ pending \in SUBSET Rows /\ Stranded \in SUBSET Rows /\ broken \in Nat /\ Count \in Nat
      /\ batch \in Seq(Rows) /\ Len(batch) \in Nat /\ Len(batch) <= 2 * Count
      /\ ToSet(batch) \in SUBSET Rows
  BY BatchIs, BoundsAre, Elements DEF TypeInv, TypeOK, Stranded
<1>1. Cardinality(Stranded) \in Nat /\ Cardinality(Stranded) <= broken * 2 * Count
  BY <1>0, RowsCount DEF StrandedBounded, Stranded
<1>2. \A b \in Nat : b * 2 * Count \in Nat /\ (b + 1) * 2 * Count = b * 2 * Count + 2 * Count
  BY <1>0
<1>3. ASSUME Stranded' \subseteq Stranded, broken' = broken PROVE StrandedBounded'
  <2>1. Cardinality(Stranded') <= Cardinality(Stranded)
    BY <1>0, <1>3, RowsCount
  <2>2. Cardinality(Stranded') \in Nat
    BY <1>0, <1>3, RowsCount
  <2>3. QED
    BY <1>1, <1>2, <1>3, <2>1, <2>2, <1>0 DEF StrandedBounded, Stranded
<1>4. ASSUME NEW s \in Seq(Rows), Len(s) <= 2 * Count, Stranded' \subseteq Stranded \cup ToSet(s),
             broken' = broken + 1
      PROVE  StrandedBounded'
  <2>1. ToSet(s) \in SUBSET Rows /\ Cardinality(ToSet(s)) \in Nat
        /\ Cardinality(ToSet(s)) <= 2 * Count
    <3>1. Len(s) \in Nat /\ Cardinality(ToSet(s)) <= Len(s) /\ Cardinality(ToSet(s)) \in Nat
      BY <1>4, ElementsCount
    <3>2. ToSet(s) \in SUBSET Rows
      BY <1>4, Elements
    <3>3. QED
      BY <1>0, <1>4, <3>1, <3>2
  <2>2. Cardinality(Stranded \cup ToSet(s)) <= Cardinality(Stranded) + Cardinality(ToSet(s))
    BY <1>0, <2>1, RowsCount
  <2>3. Stranded \cup ToSet(s) \in SUBSET Rows
    BY <1>0, <2>1
  <2>4. /\ Cardinality(Stranded') <= Cardinality(Stranded \cup ToSet(s))
        /\ Cardinality(Stranded') \in Nat /\ Cardinality(Stranded \cup ToSet(s)) \in Nat
    BY <1>4, <2>3, RowsCount
  <2>5. Cardinality(Stranded') <= broken' * 2 * Count
    BY <1>0, <1>1, <1>2, <1>4, <2>1, <2>2, <2>4
  <2>6. QED
    BY <2>5 DEF StrandedBounded, Stranded
<1>5. CASE Read
  <2>1. batch = <<>> /\ pending' = pending \cup ToSet(Response) /\ batch' = Response
        /\ broken' = broken
    BY <1>5 DEF Read, Deliver, TypeInv, PlaceInv, history, losses
  <2>2. ToSet(batch) = {}
    BY <2>1 DEF ToSet
  <2>3. Stranded' \subseteq Stranded
    BY <2>1, <2>2 DEF Stranded
  <2>4. QED
    BY <1>3, <2>1, <2>3
<1>6. CASE ReadLost
  <2>1. Deliver /\ pending' = pending \cup ToSet(Response) /\ batch = <<>> /\ broken' = broken + 1
    BY <1>6 DEF ReadLost, Deliver, TypeInv, PlaceInv
  <2>2. Response \in Seq(Rows) /\ Len(Response) <= 2 * Count
    BY <2>1, Delivers
  <2>3. ToSet(batch) = {}
    BY <2>1 DEF ToSet
  <2>4. Stranded' \subseteq Stranded \cup ToSet(Response)
    BY <2>1, <2>3 DEF Stranded
  <2>5. QED
    BY <1>4, <2>1, <2>2, <2>4
<1>7. CASE Ack
  <2>1. batch # <<>> /\ pending' = pending \ {Head(batch)} /\ batch' = Tail(batch)
        /\ broken' = broken
    BY <1>7 DEF Ack, Unacknowledged, TypeInv, PlaceInv, AtRow, history, losses
  <2>2. ToSet(Tail(batch)) = ToSet(batch) \ {Head(batch)}
    BY <2>1, TailIs
  <2>3. Stranded' \subseteq Stranded
    BY <2>1, <2>2 DEF Stranded
  <2>4. QED
    BY <1>3, <2>1, <2>3
<1>8. CASE Raises \/ Crash
  <2>1. /\ pending' \subseteq pending
        /\ \/ broken' = broken + 1
           \/ broken' = broken /\ batch = <<>> /\ batch' = <<>>
    BY <1>8, RaisesAre DEF Raise, Broken, Crash, group
  <2>2. CASE broken' = broken + 1
    <3>1. Stranded' \subseteq Stranded \cup ToSet(batch)
      BY <2>1 DEF Stranded
    <3>2. QED
      BY <1>0, <1>4, <2>2, <3>1
  <2>3. CASE broken' = broken /\ batch = <<>> /\ batch' = <<>>
    BY <1>3, <2>1, <2>3 DEF Stranded
  <2>4. QED
    BY <2>1, <2>2, <2>3
<1>9. CASE ReadNothing \/ ReadIdle \/ Row \/ RowWithoutVector \/ Expire
             \/ Store \/ StoreRefused \/ StoreSkipped \/ BeginWrite \/ EndWrite \/ FlushFails \/ WriteFails \/ NothingToFlush
             \/ Start \/ Produce \/ Midnight \/ HashExpires \/ UNCHANGED vars
  <2>1. pending' = pending /\ batch' = batch /\ broken' = broken
    BY <1>9 DEF ReadNothing, ReadIdle, Row, RowWithoutVector, Expire, Store, StoreRefused,
                StoreSkipped, Buffered, BeginWrite, EndWrite, FlushFails, WriteFails, Unflushed, NothingToFlush, Start,
                Produce, Midnight, HashExpires, vars, group, process, history, losses
  <2>2. QED
    BY <1>3, <2>1 DEF Stranded
<1>10. QED
  BY <1>5, <1>6, <1>7, <1>8, <1>9, ReadFailsIs DEF Next, Consumer, Raises

\* An entry that is delivered and in nobody's hands is the rest of a response
\* that was broken off, whatever raised, was killed or lost.
THEOREM FewStranded == Spec => []StrandedBounded
<1>1. Init => StrandedBounded
  <2>1. \A S : {} \ S = {}
    OBVIOUS
  <2>2. ASSUME Init PROVE pending \ ToSet(batch) = {} /\ broken = 0
    BY <2>1, <2>2 DEF Init
  <2>3. ASSUME Init PROVE StrandedBounded
    BY <2>2, <2>3, FS_EmptySet, BoundsAre DEF StrandedBounded
  <2>4. QED
    BY <2>3
<1>2. QED
  BY <1>1, NextStranded, TypeInvariance, PTL DEF Spec

-----------------------------------------------------------------------------
(* What PostgreSQL has.                                                    *)

\* What has been acknowledged is stored or refused, and when XACK is next, so
\* is the row at hand, if there is one.
StoredInv ==
    /\ AckedStored
    /\ pc = "ack" /\ HasVector(Head(batch)) => HasKey(Head(batch)) \/ Head(batch) \in rejected

\* The ts of what was delivered does not change.
LEMMA TsStays ==
  ASSUME TypeInv, [Next]_vars, NEW r \in UpTo(delivered)
  PROVE  Ts(r)' = Ts(r)
<1>1. r[1] \in Kinds /\ r[2] \in 1..Len(stream[r[1]])
  <2>1. /\ r[1] \in Kinds /\ r[2] \in Nat /\ r[2] >= 1 /\ r[2] <= delivered[r[1]]
        /\ MaxLength[r[1]] \in Nat
    BY RowIs DEF UpTo
  <2>2. delivered[r[1]] \in Nat /\ Len(stream[r[1]]) \in Nat /\ delivered[r[1]] <= Len(stream[r[1]])
    BY <2>1 DEF TypeInv, TypeOK, GroupInv
  <2>3. QED
    BY <2>1, <2>2
<1>2. CASE stream' = stream
  BY <1>2 DEF Ts
<1>3. CASE Produce
  <2>1. PICK k \in Kinds, t \in {NoVector} \cup 1..MaxTs : stream' = [stream EXCEPT ![k] = Append(@, t)]
    BY <1>3 DEF Produce
  <2>2. stream \in [Kinds -> Seq({NoVector} \cup 1..MaxTs)]
    BY DEF TypeInv, TypeOK
  <2>3. CASE r[1] = k
    <3>1. stream'[k] = Append(stream[k], t) /\ stream[k] \in Seq({NoVector} \cup 1..MaxTs)
      BY <2>1, <2>2
    <3>2. \A i \in 1..Len(stream[k]) : Append(stream[k], t)[i] = stream[k][i]
      BY <3>1, Appended
    <3>3. QED
      BY <1>1, <2>3, <3>1, <3>2 DEF Ts
  <2>4. CASE r[1] # k
    BY <1>1, <2>1, <2>2, <2>4 DEF Ts
  <2>5. QED
    BY <2>3, <2>4
<1>4. CASE ~Produce
  <2>1. CASE UNCHANGED vars
    BY <1>2, <2>1 DEF vars, world
  <2>2. CASE Consumer
    BY <1>2, <2>2 DEF Consumer, Read, ReadNothing, ReadFails, Row, RowWithoutVector, Expire, Store,
       StoreRefused, StoreSkipped, Buffered, StoreRaises, AckFails, FlushRaises, Raise, Ack,
       BeginWrite, EndWrite, FlushFails, WriteFails, Unflushed, NothingToFlush, world
  <2>3. CASE Crash \/ Start \/ Midnight \/ HashExpires
    BY <1>2, <2>3 DEF Crash, Start, Midnight, HashExpires, world
  <2>4. QED
    BY <1>4, <2>1, <2>2, <2>3 DEF Next
<1>5. QED
  BY <1>3, <1>4

LEMMA TsKept ==
  ASSUME TypeInv, [Next]_vars
  PROVE  \A r \in Delivered : Ts(r)' = Ts(r)
BY TsStays DEF Delivered

LEMMA VectorKept ==
  ASSUME TypeInv, [Next]_vars
  PROVE  \A r \in Delivered : HasVector(r)' <=> HasVector(r)
BY TsKept DEF HasVector

\* What PostgreSQL has, it keeps.
LEMMA KeyKept ==
  ASSUME TypeInv, [Next]_vars, offline \subseteq offline', NEW r \in Delivered, HasKey(r)
  PROVE  HasKey(r)'
<1>1. PICK s \in offline : s[1] = r[1] /\ Ts(s) = Ts(r)
  BY DEF HasKey
<1>2. s \in Delivered /\ s \in offline'
  BY <1>1 DEF TypeInv, GroupInv
<1>3. Ts(s)' = Ts(r)'
  BY <1>1, <1>2, TsKept
<1>4. QED
  BY <1>1, <1>2, <1>3 DEF HasKey

LEMMA AckedIs == AckedRows = {r \in Delivered \ pending : HasVector(r)}
  BY DEF AckedRows, Delivered, UpTo

\* No step but XACK acknowledges an entry.
LEMMA NewlyAcked ==
  ASSUME TypeInv, [Next]_vars
  PROVE  /\ offline \subseteq offline' /\ rejected \subseteq rejected'
         /\ \A r \in AckedRows' : \/ r \in AckedRows
                                  \/ /\ Ack \/ AckFails
                                     /\ r = Head(batch) /\ r \in Delivered /\ HasVector(r)
<1>a. AckedRows' = {r \in UpTo(delivered') \ pending' : HasVector(r)'}
  BY DEF AckedRows, UpTo
<1>b. ASSUME NEW r \in AckedRows', r \in Delivered PROVE HasVector(r)
  BY <1>a, <1>b, VectorKept
<1>c. ASSUME NEW r \in AckedRows', r \in Delivered, r \notin pending PROVE r \in AckedRows
  BY <1>b, <1>c, AckedIs
<1>1. CASE Read \/ ReadLost
  <2>1. Deliver /\ UNCHANGED <<offline, rejected>>
    BY <1>1 DEF Read, ReadLost, stores, history, losses
  <2>2. ToSet(Response) = UpTo(delivered') \ Delivered /\ Delivered \subseteq UpTo(delivered')
    BY <2>1, Delivers
  <2>3. pending' = pending \cup ToSet(Response)
    BY <2>1 DEF Deliver
  <2>4. \A r \in AckedRows' : r \in Delivered /\ r \notin pending
    BY <1>a, <2>2, <2>3
  <2>5. QED
    BY <1>c, <2>1, <2>4
<1>2. CASE Ack \/ Raises
  <2>1. /\ delivered' = delivered
        /\ \/ pending' = pending
           \/ (Ack \/ AckFails) /\ pending' = pending \ {Head(batch)}
    BY <1>2, RaisesAre DEF Ack, Unacknowledged
  <2>2. offline \subseteq offline' /\ rejected \subseteq rejected'
    <3>1. CASE Ack
      BY <3>1 DEF Ack, stores, history, losses
    <3>2. CASE Raises
      <4>1. offline' = offline \/ offline' = Inserted(Head(batch))
        BY <3>2, RaisesAre
      <4>2. rejected' = rejected
        BY <3>2, RaisesAre DEF Raise
      <4>3. QED
        BY <4>1, <4>2 DEF Inserted
    <3>3. QED
      BY <1>2, <3>1, <3>2
  <2>3. ASSUME NEW r \in AckedRows', r \notin AckedRows
        PROVE  (Ack \/ AckFails) /\ r = Head(batch) /\ r \in Delivered /\ HasVector(r)
    <3>1. r \in Delivered /\ r \notin pending'
      BY <1>a, <2>1, <2>3 DEF Delivered
    <3>2. r \in pending
      BY <1>c, <2>3, <3>1
    <3>3. QED
      BY <1>b, <2>1, <2>3, <3>1, <3>2
  <2>4. QED
    BY <2>2, <2>3
<1>3. CASE ~(Read \/ ReadLost \/ Ack \/ Raises)
  <2>1. UNCHANGED <<delivered, pending>>
    BY <1>3, ReadFailsIs DEF Next, Consumer, ReadNothing, ReadIdle, Row, RowWithoutVector, Expire,
       Store, StoreRefused, StoreSkipped, Buffered, Raises, BeginWrite, EndWrite, FlushFails,
       WriteFails, Unflushed, NothingToFlush, Crash, Start, Produce, Midnight, HashExpires, vars,
       group
  <2>2. offline \subseteq offline' /\ rejected \subseteq rejected'
    <3>1. CASE Store \/ StoreRefused \/ StoreSkipped
      <4>1. \/ offline' = Inserted(Head(batch)) /\ rejected' = rejected
            \/ offline' = offline /\ rejected' = rejected \cup {Head(batch)}
        BY <3>1, OfflineKeeps
      <4>2. QED
        BY <4>1 DEF Inserted
    <3>2. CASE ~(Store \/ StoreRefused \/ StoreSkipped)
      <4>1. offline' = offline /\ rejected' = rejected
        BY <1>3, <3>2, ReadFailsIs DEF Next, Consumer, ReadNothing, ReadIdle, Row,
           RowWithoutVector, Expire, Raises, BeginWrite, EndWrite, FlushFails, WriteFails,
           Unflushed, NothingToFlush, Crash, Start, Produce, Midnight, HashExpires, vars, stores,
           history, losses
      <4>2. QED
        BY <4>1
    <3>3. QED
      BY <3>1, <3>2
  <2>3. \A r \in AckedRows' : r \in Delivered /\ r \notin pending
    BY <1>a, <2>1 DEF Delivered
  <2>4. QED
    BY <1>c, <2>2, <2>3
<1>4. QED
  BY <1>1, <1>2, <1>3

\* A row that was dealt with stays so.
LEMMA StoredStays ==
  ASSUME TypeInv, [Next]_vars, NEW r \in Delivered, HasKey(r) \/ r \in rejected
  PROVE  HasKey(r)' \/ r \in rejected'
<1>1. offline \subseteq offline' /\ rejected \subseteq rejected'
  BY NewlyAcked
<1>2. QED
  BY <1>1, KeyKept

LEMMA NextStored == TypeInv /\ StoredInv /\ [Next]_vars => StoredInv'
<1> SUFFICES ASSUME TypeInv, StoredInv, [Next]_vars PROVE StoredInv'
  OBVIOUS
<1>1. AckedStored'
  <2> SUFFICES ASSUME NEW r \in AckedRows' PROVE HasKey(r)' \/ r \in rejected'
    BY DEF AckedStored
  <2>1. CASE r \in AckedRows
    <3>1. r \in Delivered /\ (HasKey(r) \/ r \in rejected)
      BY <2>1, AckedIs DEF StoredInv, AckedStored
    <3>2. QED
      BY <3>1, StoredStays
  <2>2. CASE r \notin AckedRows
    <3>1. (Ack \/ AckFails) /\ r = Head(batch) /\ r \in Delivered /\ HasVector(r)
      BY <2>2, NewlyAcked
    <3>2. pc = "ack"
      BY <3>1 DEF Ack, AckFails
    <3>3. HasKey(r) \/ r \in rejected
      BY <3>1, <3>2 DEF StoredInv
    <3>4. QED
      BY <3>1, <3>3, StoredStays
  <2>3. QED
    BY <2>1, <2>2
<1>2. pc' = "ack" /\ HasVector(Head(batch))' => HasKey(Head(batch))' \/ (Head(batch) \in rejected)'
  <2> SUFFICES ASSUME pc' = "ack", HasVector(Head(batch))'
               PROVE  HasKey(Head(batch))' \/ (Head(batch) \in rejected)'
    OBVIOUS
  <2>1. CASE Store \/ StoreRefused \/ StoreSkipped
    <3>1. /\ pc = "store"
          /\ \/ offline' = Inserted(Head(batch)) /\ rejected' = rejected
             \/ offline' = offline /\ rejected' = rejected \cup {Head(batch)}
      BY <2>1, OfflineKeeps
    <3>2. batch' = batch /\ stream' = stream
      BY <2>1, OfflineKeeps DEF Buffered, world
    <3>3. CASE offline' = offline /\ rejected' = rejected \cup {Head(batch)}
      BY <3>2, <3>3
    <3>4. CASE offline' = Inserted(Head(batch))
      <4>1. CASE HasKey(Head(batch))
        <5>1. offline' = offline
          BY <3>4, <4>1 DEF Inserted
        <5>2. QED
          BY <3>2, <4>1, <5>1 DEF HasKey, Ts
      <4>2. CASE ~HasKey(Head(batch))
        <5>1. Head(batch) \in offline'
          BY <3>4, <4>2 DEF Inserted
        <5>2. QED
          BY <3>2, <5>1 DEF HasKey, Ts
      <4>3. QED
        BY <4>1, <4>2
    <3>5. QED
      BY <3>1, <3>3, <3>4
  <2>2. CASE RowWithoutVector
    <3>1. batch' = batch /\ stream' = stream /\ ~HasVector(Head(batch))
      BY <2>2 DEF RowWithoutVector, world
    <3>2. QED
      BY <3>1 DEF HasVector, Ts
  <2>3. CASE ~(Store \/ StoreRefused \/ StoreSkipped \/ RowWithoutVector)
    <3>1. pc = "ack" /\ batch' = batch
      BY <2>3 DEF Next, Consumer, Read, ReadNothing, ReadFails, Row, Expire, StoreRaises, AckFails,
         FlushRaises, Raise, Ack, AfterRow, BeginWrite, EndWrite, FlushFails, WriteFails, Unflushed,
         AfterFlush, NothingToFlush, Crash, Start, Produce, Midnight, HashExpires, Flushing, vars,
         process
    <3>2. PICK h \in Delivered : h = Head(batch)
      BY <3>1, HeadIs DEF AtRow
    <3>3. HasVector(h)
      <4>1. HasVector(h)'
        BY <3>1, <3>2 DEF HasVector, Ts
      <4>2. QED
        BY <3>2, <4>1, VectorKept
    <3>4. HasKey(h) \/ h \in rejected
      BY <3>1, <3>2, <3>3 DEF StoredInv
    <3>5. HasKey(h)' \/ h \in rejected'
      BY <3>4, StoredStays
    <3>6. h = Head(batch')
      BY <3>1, <3>2
    <3>7. QED
      BY <3>5, <3>6 DEF HasKey, Ts
  <2>4. QED
    BY <2>1, <2>2, <2>3
<1>3. QED
  BY <1>1, <1>2 DEF StoredInv

\* XACK comes after write_offline: an acknowledged entry that has a vector is in
\* PostgreSQL, or a row of its key is, or it was refused, whatever fails or is
\* killed.
THEOREM AckedIsStored == Spec => []AckedStored
<1>1. Init => StoredInv
  <2>1. ASSUME Init PROVE StoredInv
    <3>1. AckedRows = {}
      BY <2>1, AckedIs, RowIs DEF Init, Delivered, UpTo
    <3>2. QED
      BY <2>1, <3>1 DEF Init, StoredInv, AckedStored
  <2>2. QED
    BY <2>1
<1>2. StoredInv => AckedStored
  BY DEF StoredInv
<1>3. QED
  BY <1>1, <1>2, NextStored, TypeInvariance, PTL DEF Spec

-----------------------------------------------------------------------------
(* Rows in memory and in files.                                            *)

NotBuffered == IF pc = "ack" THEN Tail(batch) ELSE batch

\* Entries whose rows have been in the buffer, or never will be.
Handled == Delivered \ ToSet(NotBuffered)

\* A file that is good, or will be when the write ends.
Whole(d) == file[d].state = "good" \/ (d = day /\ Writing)

FileInv ==
    /\ Distinct(buffer)
    /\ ToSet(buffer) \subseteq Handled
    /\ \A d \in Days :
          /\ ToSet(file[d].rows) \subseteq Handled
          /\ Whole(d) => Distinct(file[d].rows)
          /\ file[d].state = "good" => ToSet(file[d].rows) \cap ToSet(buffer) = {}
          /\ \A e \in Days \ {d} :
                Whole(d) /\ Whole(e) => ToSet(file[d].rows) \cap ToSet(file[e].rows) = {}

LEMMA DistinctCount ==
  ASSUME NEW s \in Seq(Rows), Distinct(s)
  PROVE  Len(s) = Cardinality(ToSet(s))
<1> DEFINE f == [i \in 1..Len(s) |-> s[i]]
<1>1. Len(s) \in Nat /\ \A x : x \in ToSet(s) <=> \E i \in 1..Len(s) : s[i] = x
  BY Elements
<1>2. f \in Surjection(1..Len(s), ToSet(s))
  BY <1>1 DEF Surjection
<1>3. f \in Injection(1..Len(s), ToSet(s))
  BY <1>1 DEF Injection, IsInjective, Distinct
<1>4. IsFiniteSet(1..Len(s)) /\ Cardinality(1..Len(s)) = Len(s)
  BY <1>1, FS_Interval, SMTT(30)
<1>5. QED
  BY <1>2, <1>3, <1>4, FS_Surjection

\* No entry is taken out of Handled.
LEMMA HandledGrows ==
  ASSUME TypeInv, [Next]_vars
  PROVE  /\ Handled \subseteq Handled'
         /\ Store \/ StoreRefused \/ StoreSkipped =>
               Head(batch) \in Handled' /\ Head(batch) \notin Handled
<1>1. CASE Read \/ ReadLost
  <2>1. Deliver /\ pc = "read" /\ batch = <<>> /\ pc' # "ack" /\ batch' \in {Response, <<>>}
    BY <1>1 DEF Read, ReadLost, TypeInv, PlaceInv
  <2>2. ToSet(Response) = UpTo(delivered') \ Delivered /\ Delivered \subseteq UpTo(delivered')
    BY <2>1, Delivers
  <2>3. Handled = Delivered
    <3>1. ToSet(batch) = {}
      BY <2>1 DEF ToSet
    <3>2. QED
      BY <2>1, <3>1 DEF Handled, NotBuffered
  <2>4. Handled' = UpTo(delivered') \ ToSet(batch')
    BY <2>1 DEF Handled, NotBuffered, Delivered
  <2>5. Handled \subseteq Handled'
    <3>1. batch' = <<>> => ToSet(batch') = {}
      BY DEF ToSet
    <3>2. QED
      BY <2>1, <2>2, <2>3, <2>4, <3>1
  <2>6. ~(Store \/ StoreRefused \/ StoreSkipped)
    BY <2>1 DEF Store, StoreRefused, StoreSkipped
  <2>7. QED
    BY <2>5, <2>6
<1>2. CASE Store \/ StoreRefused \/ StoreSkipped
  <2>1. /\ pc = "store" /\ pc' = "ack" /\ batch' = batch /\ delivered' = delivered
    BY <1>2, OfflineKeeps DEF Buffered, group
  <2>2. ToSet(Tail(batch)) = ToSet(batch) \ {Head(batch)} /\ Head(batch) \in ToSet(batch)
        /\ Head(batch) \in Delivered
    BY <2>1, HeadIs, TailIs, HeadAndTail DEF AtRow, TypeInv, TypeOK
  <2>3. Handled = Delivered \ ToSet(batch) /\ Handled' = Delivered \ ToSet(Tail(batch))
    BY <2>1 DEF Handled, NotBuffered, Delivered
  <2>4. QED
    BY <2>2, <2>3
<1>3. CASE ~(Store \/ StoreRefused \/ StoreSkipped)
  <2>1. CASE Raises \/ Crash
    <3>1. batch' = <<>> /\ pc' # "ack" /\ delivered' = delivered
      BY <2>1, RaisesAre DEF Raise, Crash, group
    <3>2. Handled' = Delivered
      <4>1. ToSet(batch') = {}
        BY <3>1 DEF ToSet
      <4>2. QED
        BY <3>1, <4>1 DEF Handled, NotBuffered, Delivered
    <3>3. QED
      BY <1>3, <3>2 DEF Handled
  <2>2. CASE Ack
    <3>1. pc = "ack" /\ pc' # "ack" /\ batch' = Tail(batch) /\ delivered' = delivered
      BY <2>2 DEF Ack, AfterRow
    <3>2. Handled' = Handled
      BY <3>1 DEF Handled, NotBuffered, Delivered
    <3>3. QED
      BY <1>3, <3>2
  <2>3. CASE RowWithoutVector
    <3>1. pc = "row" /\ pc' = "ack" /\ batch' = batch /\ delivered' = delivered
      BY <2>3 DEF RowWithoutVector, group
    <3>2. ToSet(Tail(batch)) \subseteq ToSet(batch)
      BY <3>1, HeadIs, TailIs DEF AtRow
    <3>3. Handled = Delivered \ ToSet(batch) /\ Handled' = Delivered \ ToSet(Tail(batch))
      BY <3>1 DEF Handled, NotBuffered, Delivered
    <3>4. QED
      BY <1>3, <3>2, <3>3
  <2>4. CASE ~(Raises \/ Crash \/ Ack \/ Read \/ ReadLost \/ RowWithoutVector)
    <3>1. batch' = batch /\ delivered' = delivered /\ (pc' = "ack" <=> pc = "ack")
      BY <1>3, <2>4, ReadFailsIs DEF Next, Consumer, Raises, ReadNothing, ReadIdle, Row, Expire,
         BeginWrite, EndWrite, FlushFails, WriteFails, Unflushed, AfterFlush, Flushing, Writing,
         NothingToFlush, Start, Produce, Midnight, HashExpires, vars, group, process
    <3>2. Handled' = Handled
      BY <3>1 DEF Handled, NotBuffered, Delivered
    <3>3. QED
      BY <1>3, <3>2
  <2>5. QED
    BY <1>1, <2>1, <2>2, <2>3, <2>4
<1>4. QED
  BY <1>2, <1>3

\* Nothing is written: the buffer is kept or dropped.
LEMMA FilesSame ==
  ASSUME TypeInv, FileInv, Handled \subseteq Handled', buffer' \in {buffer, <<>>},
         \A d \in Days : file'[d].rows = file[d].rows /\ (Whole(d)' => Whole(d)),
         \A d \in Days : file'[d].state = "good" =>
                              file[d].state = "good" \/ buffer' = <<>>
  PROVE  FileInv'
<1>1. Distinct(buffer') /\ ToSet(buffer') \subseteq ToSet(buffer)
      /\ (buffer' = <<>> => ToSet(buffer') = {})
  <2>1. buffer' = <<>> => ToSet(buffer') = {} /\ Distinct(buffer')
    BY DEF ToSet, Distinct
  <2>2. QED
    BY <2>1 DEF FileInv
<1>2. ToSet(buffer') \subseteq Handled'
  BY <1>1 DEF FileInv
<1>3. ASSUME NEW d \in Days
      PROVE  /\ ToSet(file'[d].rows) \subseteq Handled'
             /\ Whole(d)' => Distinct(file'[d].rows)
             /\ file'[d].state = "good" => ToSet(file'[d].rows) \cap ToSet(buffer') = {}
             /\ \A e \in Days \ {d} :
                   Whole(d)' /\ Whole(e)' => ToSet(file'[d].rows) \cap ToSet(file'[e].rows) = {}
  BY <1>1, <1>3 DEF FileInv
<1>4. QED
  BY <1>1, <1>2, <1>3 DEF FileInv

LEMMA NextFile == TypeInv /\ FileInv /\ [Next]_vars => FileInv'
<1> SUFFICES ASSUME TypeInv, FileInv, [Next]_vars PROVE FileInv'
  OBVIOUS
<1>0. /\ Handled \subseteq Handled' /\ day \in Days /\ buffer \in Seq(Rows)
      /\ file \in [Days -> [state : {"absent", "good", "torn"}, rows : Seq(Rows)]]
  BY HandledGrows DEF TypeInv, TypeOK
<1>1. CASE Store \/ StoreRefused \/ StoreSkipped
  <2>1. /\ buffer' = Append(buffer, Head(batch)) /\ pc = "store" /\ pc' = "ack"
        /\ file' = file /\ day' = day
    BY <1>1, OfflineKeeps DEF Buffered, world
  <2>2. /\ Head(batch) \in Handled' /\ Head(batch) \notin Handled /\ Head(batch) \in Rows
    BY <1>1, <2>1, HandledGrows, HeadIs DEF AtRow
  <2>3. /\ Len(buffer') = Len(buffer) + 1 /\ Len(buffer) \in Nat
        /\ \A i \in 1..Len(buffer) : buffer'[i] = buffer[i] /\ buffer[i] \in ToSet(buffer)
        /\ buffer'[Len(buffer) + 1] = Head(batch)
        /\ ToSet(buffer') = ToSet(buffer) \cup {Head(batch)}
    BY <1>0, <2>1, <2>2, Appended, Elements
  <2>4. Head(batch) \notin ToSet(buffer) /\ ToSet(buffer') \subseteq Handled'
    BY <1>0, <2>2, <2>3 DEF FileInv
  <2>5. Distinct(buffer')
    <3>1. \A i \in 1..Len(buffer') : i \in 1..Len(buffer) \/ i = Len(buffer) + 1
      BY <2>3
    <3>2. \A i \in 1..Len(buffer) : buffer'[i] # Head(batch)
      BY <2>3, <2>4
    <3>3. \A i, j \in 1..Len(buffer) : buffer'[i] = buffer'[j] => i = j
      BY <2>3 DEF FileInv, Distinct
    <3>4. QED
      BY <2>3, <3>1, <3>2, <3>3 DEF Distinct
  <2>6. \A d \in Days : Whole(d)' => Whole(d)
    BY <2>1 DEF Whole, Writing
  <2>7. \A d \in Days : Head(batch) \notin ToSet(file[d].rows)
    BY <2>2 DEF FileInv
  <2>8. ASSUME NEW d \in Days
        PROVE  /\ ToSet(file'[d].rows) \subseteq Handled'
               /\ Whole(d)' => Distinct(file'[d].rows)
               /\ file'[d].state = "good" => ToSet(file'[d].rows) \cap ToSet(buffer') = {}
               /\ \A e \in Days \ {d} :
                     Whole(d)' /\ Whole(e)' => ToSet(file'[d].rows) \cap ToSet(file'[e].rows) = {}
    BY <1>0, <2>1, <2>3, <2>6, <2>7, ZenonT(60) DEF FileInv
  <2>9. QED
    BY <2>4, <2>5, <2>8 DEF FileInv
<1>2. CASE BeginWrite
  <2>1. /\ Flushing /\ file' = [file EXCEPT ![day] = [state |-> "torn", rows |-> FileRows]]
        /\ pc' \in {"lastWrite", "write"} /\ buffer' = buffer /\ day' = day
        /\ file[day].state # "torn"
    BY <1>2 DEF BeginWrite, world
  <2>2. /\ file'[day].state = "torn" /\ file'[day].rows = FileRows
        /\ \A d \in Days \ {day} : file'[d] = file[d]
    BY <1>0, <2>1
  <2>3. /\ ToSet(FileRows) \subseteq ToSet(file[day].rows) \cup ToSet(buffer)
        /\ Distinct(FileRows)
    <3>1. ToSet(FileRows) \subseteq ToSet(file[day].rows) \cup ToSet(buffer)
      BY FileRowsIs
    <3>2. file[day].rows \in Seq(Rows)
      BY <1>0
    <3>3. file[day].rows \o buffer \in Seq(Rows)
      BY <1>0, <3>2
    <3>4. Distinct(DropDuplicates(file[day].rows \o buffer))
      BY <3>3, Deduplicated
    <3>5. QED
      BY <3>1, <3>4 DEF FileRows, FileInv
  <2>4. ASSUME file[day].state = "absent" PROVE ToSet(file[day].rows) = {}
    <3>1. file[day].rows = <<>>
      BY <1>0, <2>4 DEF TypeInv, PlaceInv
    <3>2. QED
      BY <3>1 DEF ToSet
  <2>5. file[day].state \in {"good", "absent"}
    BY <1>0, <2>1
  <2>6. \A e \in Days \ {day} : file[e].state = "good" =>
           ToSet(FileRows) \cap ToSet(file[e].rows) = {}
    <3> SUFFICES ASSUME NEW e \in Days \ {day}, file[e].state = "good"
                 PROVE  ToSet(FileRows) \cap ToSet(file[e].rows) = {}
      OBVIOUS
    <3>1. ToSet(file[e].rows) \cap ToSet(buffer) = {}
      BY DEF FileInv
    <3>2. ToSet(file[day].rows) \cap ToSet(file[e].rows) = {}
      BY <1>0, <2>4, <2>5 DEF FileInv, Whole
    <3>3. QED
      BY <2>3, <3>1, <3>2
  <2>7. ~Writing
    BY <2>1 DEF Flushing, Writing
  <2>8. \A d \in Days : Whole(d)' => d = day \/ file[d].state = "good"
    BY <2>1, <2>2 DEF Whole
  <2>9. ToSet(FileRows) \subseteq Handled'
    BY <1>0, <2>3 DEF FileInv
  <2>10. ASSUME NEW d \in Days
         PROVE  /\ ToSet(file'[d].rows) \subseteq Handled'
                /\ Whole(d)' => Distinct(file'[d].rows)
                /\ file'[d].state = "good" => ToSet(file'[d].rows) \cap ToSet(buffer') = {}
                /\ \A e \in Days \ {d} :
                      Whole(d)' /\ Whole(e)' =>
                          ToSet(file'[d].rows) \cap ToSet(file'[e].rows) = {}
    <3>1. CASE d = day
      BY <2>2, <2>3, <2>6, <2>8, <2>9, <3>1
    <3>2. CASE d # day
      <4>1. file'[d] = file[d] /\ ToSet(file[d].rows) \subseteq Handled'
        BY <1>0, <2>2, <3>2 DEF FileInv
      <4>2. Whole(d)' => file[d].state = "good"
        BY <2>8, <3>2
      <4>3. Whole(d)' => Distinct(file[d].rows)
        BY <4>2 DEF FileInv, Whole
      <4>4. file[d].state = "good" => ToSet(file[d].rows) \cap ToSet(buffer') = {}
        BY <2>1 DEF FileInv
      <4>5. ASSUME NEW e \in Days \ {d}, Whole(d)', Whole(e)'
            PROVE  ToSet(file'[d].rows) \cap ToSet(file'[e].rows) = {}
        <5>1. CASE e = day
          BY <2>2, <2>6, <4>1, <4>2, <4>5, <5>1, <3>2
        <5>2. CASE e # day
          <6>1. file[d].state = "good" /\ file[e].state = "good" /\ file'[e] = file[e]
            BY <2>2, <2>8, <3>2, <4>5, <5>2
          <6>2. QED
            BY <4>1, <4>5, <6>1 DEF FileInv, Whole
        <5>3. QED
          BY <5>1, <5>2
      <4>6. QED
        BY <4>1, <4>3, <4>4, <4>5
    <3>3. QED
      BY <3>1, <3>2
  <2>11. QED
    BY <1>0, <2>1, <2>10 DEF FileInv
<1>3. CASE EndWrite
  <2>1. /\ Writing /\ file' = [file EXCEPT ![day] = [state |-> "good", rows |-> @.rows]]
        /\ buffer' = <<>> /\ pc' = AfterFlush
    BY <1>3 DEF EndWrite, BufferAfterWrite
  <2>2. ~Writing'
    BY <2>1 DEF AfterFlush, Writing
  <2>3. /\ file'[day].rows = file[day].rows
        /\ \A d \in Days \ {day} : file'[d] = file[d]
    BY <1>0, <2>1
  <2>4. \A d \in Days : file'[d].rows = file[d].rows /\ (Whole(d)' => Whole(d))
    BY <2>1, <2>2, <2>3 DEF Whole
  <2>5. QED
    BY <1>0, <2>1, <2>4, FilesSame
<1>4. CASE FlushFails \/ WriteFails
  <2>1. /\ pc' = AfterFlush /\ buffer' \in {buffer, <<>>}
        /\ \/ file' = file
           \/ Writing /\ \E left \in {Absent, file[day]} : file' = [file EXCEPT ![day] = left]
    BY <1>4, FailedIs DEF Unflushed
  <2>2. ~Writing'
    BY <2>1 DEF AfterFlush, Writing
  <2>3. \/ file' = file
        \/ Writing /\ file' = [file EXCEPT ![day] = Absent]
    BY <1>0, <2>1
  <2>4. CASE file' = file
    <3>1. \A d \in Days : file'[d].rows = file[d].rows /\ (Whole(d)' => Whole(d))
      BY <2>2, <2>4 DEF Whole
    <3>2. QED
      BY <1>0, <2>1, <2>4, <3>1, FilesSame
  <2>5. CASE Writing /\ file' = [file EXCEPT ![day] = Absent]
    <3>1. /\ file'[day].rows = <<>> /\ file'[day].state = "absent"
          /\ \A d \in Days \ {day} : file'[d] = file[d]
      BY <1>0, <2>5 DEF Absent
    <3>2. \A d \in Days : Whole(d)' => d # day /\ file[d].state = "good"
      BY <2>2, <3>1 DEF Whole
    <3>3. Distinct(buffer') /\ ToSet(buffer') \subseteq ToSet(buffer)
      <4>1. buffer' = <<>> => ToSet(buffer') = {} /\ Distinct(buffer')
        BY DEF ToSet, Distinct
      <4>2. QED
        BY <2>1, <4>1 DEF FileInv
    <3>4. ASSUME NEW d \in Days
          PROVE  /\ ToSet(file'[d].rows) \subseteq Handled'
                 /\ Whole(d)' => Distinct(file'[d].rows)
                 /\ file'[d].state = "good" => ToSet(file'[d].rows) \cap ToSet(buffer') = {}
                 /\ \A e \in Days \ {d} :
                       Whole(d)' /\ Whole(e)' =>
                           ToSet(file'[d].rows) \cap ToSet(file'[e].rows) = {}
      <4>1. CASE d = day
        <5>1. ToSet(file'[day].rows) = {}
          BY <3>1 DEF ToSet
        <5>2. QED
          BY <3>1, <3>2, <4>1, <5>1
      <4>2. CASE d # day
        BY <1>0, <3>1, <3>2, <3>3, <4>2 DEF FileInv, Whole
      <4>3. QED
        BY <4>1, <4>2
    <3>5. ToSet(buffer') \subseteq Handled'
      BY <1>0, <3>3 DEF FileInv
    <3>6. QED
      BY <3>3, <3>4, <3>5 DEF FileInv
  <2>6. QED
    BY <2>3, <2>4, <2>5
<1>5. CASE ~(Store \/ StoreRefused \/ StoreSkipped \/ BeginWrite \/ EndWrite \/ FlushFails
               \/ WriteFails)
  <2>1. /\ file' = file /\ buffer' \in {buffer, <<>>}
        /\ Writing' => Writing /\ day' = day
    BY <1>5 DEF Next, Consumer, Read, ReadNothing, ReadFails, Row, RowWithoutVector, Expire,
       StoreRaises, AckFails, FlushRaises, Raise, Ack, AfterRow, NothingToFlush, Crash, Start,
       Produce, Midnight, HashExpires, Flushing, Writing, vars, process, stores, world
  <2>2. \A d \in Days : file'[d].rows = file[d].rows /\ (Whole(d)' => Whole(d))
    BY <2>1 DEF Whole
  <2>3. QED
    BY <1>0, <2>1, <2>2, FilesSame
<1>6. QED
  BY <1>1, <1>2, <1>3, <1>4, <1>5

LEMMA InitFile == Init => FileInv
<1> SUFFICES ASSUME Init PROVE FileInv
  OBVIOUS
<1>1. buffer = <<>> /\ ~Writing /\ \A d \in Days : file[d] = Absent
  BY DEF Init, Writing
<1>2. Absent.rows = <<>> /\ Absent.state = "absent"
  BY DEF Absent
<1>3. \A d \in Days : ~Whole(d) /\ file[d].rows = <<>> /\ file[d].state # "good"
  BY <1>1, <1>2 DEF Whole
<1>4. QED
  <2>1. ToSet(buffer) = {} /\ Distinct(buffer)
    BY <1>1 DEF ToSet, Distinct
  <2>2. \A d \in Days : ToSet(file[d].rows) = {}
    BY <1>3 DEF ToSet
  <2>3. QED
    BY <1>3, <2>1, <2>2 DEF FileInv

\* A row is in memory once or in one file once, however often flushes fail
\* and processes are killed.
THEOREM NoRowIsTwice == Spec => []NoRowTwice
<1>1. TypeInv /\ FileInv => NoRowTwice
  <2> SUFFICES ASSUME TypeInv, FileInv PROVE NoRowTwice
    OBVIOUS
  <2>1. Len(buffer) = Cardinality(ToSet(buffer))
    BY DistinctCount DEF FileInv, TypeInv, TypeOK
  <2>2. \A d \in Days : file[d].state = "good" =>
          Len(file[d].rows) = Cardinality(ToSet(file[d].rows))
    BY DistinctCount DEF FileInv, TypeInv, TypeOK, Whole
  <2>3. QED
    BY <2>1, <2>2 DEF NoRowTwice, FileInv, Whole
<1>2. QED
  BY <1>1, InitFile, NextFile, TypeInvariance, PTL DEF Spec

-----------------------------------------------------------------------------
(* Windows.                                                                *)

AtUpdated == {"expire", "store", "ack"}

\* Entries of the batch that no window has taken and one may take.
NotSlid == IF pc \in AtUpdated THEN Tail(batch) ELSE batch

\* A window has delivered entries of its kind, and none that is to come.
WindowInv ==
    /\ \A k \in Kinds, w \in Sizes : \A s \in ToSet(windows[k][w]) :
          s \in Delivered /\ s[1] = k /\ \A r \in ToSet(NotSlid) : r[1] = k => r[2] > s[2]
    /\ pc \in AtUpdated /\ HasVector(Head(batch)) =>
          \A w \in Sizes : Head(batch) \in ToSet(windows[Head(batch)[1]][w])
    /\ WindowsWhole

InOrder(s) == \A i \in 2..Len(s) : s[i - 1][2] < s[i][2]

\* A window that takes a later entry keeps its order, and has what it had from
\* its new first entry on.
LEMMA SlideOrdered ==
  ASSUME NEW s \in Seq(Rows), NEW x \in Rows, NEW w \in Sizes, Len(s) <= w, InOrder(s),
         \A y \in ToSet(s) : y[2] < x[2]
  PROVE  /\ Slide(s, x, w) \in Seq(Rows) /\ Slide(s, x, w) # <<>> /\ Len(Slide(s, x, w)) <= w
         /\ InOrder(Slide(s, x, w))
         /\ \/ Head(Slide(s, x, w)) = x
            \/ s # <<>> /\ Head(Slide(s, x, w)) \in ToSet(s)
                 /\ Head(s)[2] <= Head(Slide(s, x, w))[2]
         /\ \A y \in ToSet(s) : y[2] >= Head(Slide(s, x, w))[2] => y \in ToSet(Slide(s, x, w))
<1>0. w \in Nat /\ w >= 1 /\ Len(s) \in Nat /\ x[2] \in Nat /\ \A r \in Rows : r[2] \in Nat
  BY BoundsAre, RowIs
<1>1. ASSUME NEW a \in Seq(Rows), InOrder(a), \A y \in ToSet(a) : y[2] < x[2]
      PROVE  /\ Append(a, x) \in Seq(Rows) /\ Append(a, x) # <<>>
             /\ Len(Append(a, x)) = Len(a) + 1
             /\ InOrder(Append(a, x))
             /\ a = <<>> => Head(Append(a, x)) = x
             /\ a # <<>> => Head(Append(a, x)) = Head(a) /\ Head(a) \in ToSet(a)
  <2> DEFINE b == Append(a, x)
  <2>1. /\ b \in Seq(Rows) /\ Len(b) = Len(a) + 1 /\ Len(a) \in Nat
        /\ \A i \in 1..Len(a) : b[i] = a[i]
        /\ b[Len(a) + 1] = x
    BY <1>1, Appended
  <2> HIDE DEF b
  <2>2. b # <<>> /\ Head(b) = b[1]
    BY <2>1
  <2>3. \A i \in 1..Len(a) : a[i] \in ToSet(a)
    BY <1>1, Elements
  <2>4. InOrder(b)
    <3> SUFFICES ASSUME NEW i \in 2..Len(b) PROVE b[i - 1][2] < b[i][2]
      BY DEF InOrder
    <3>1. i - 1 \in 1..Len(a) /\ b[i - 1] = a[i - 1]
      BY <2>1
    <3>2. CASE i = Len(a) + 1
      BY <1>1, <2>1, <2>3, <3>1, <3>2
    <3>3. CASE i # Len(a) + 1
      <4>1. i \in 2..Len(a) /\ i \in 1..Len(a)
        BY <2>1, <3>3
      <4>2. b[i] = a[i] /\ a[i - 1][2] < a[i][2]
        BY <1>1, <2>1, <4>1 DEF InOrder
      <4>3. QED
        BY <3>1, <4>2
    <3>4. QED
      BY <3>2, <3>3
  <2>5. CASE a = <<>>
    <3>1. Len(a) = 0
      BY <2>5
    <3>2. QED
      BY <2>1, <2>2, <2>4, <2>5, <3>1 DEF b
  <2>6. CASE a # <<>>
    <3>1. Len(a) >= 1 /\ Head(a) = a[1] /\ Head(a) \in ToSet(a)
      BY <1>1, <2>6, HeadAndTail
    <3>2. b[1] = a[1]
      BY <2>1, <3>1
    <3>3. QED
      BY <2>1, <2>2, <2>4, <2>6, <3>1, <3>2 DEF b
  <2>7. QED
    BY <2>5, <2>6
<1>2. CASE Len(s) # w
  <2>1. Slide(s, x, w) = Append(s, x) /\ Len(s) + 1 <= w
    BY <1>0, <1>2 DEF Slide
  <2>2. ToSet(s) \subseteq ToSet(Append(s, x))
    BY Appended
  <2>3. CASE s = <<>>
    BY <1>1, <2>1, <2>2, <2>3
  <2>4. CASE s # <<>>
    <3>1. Head(s) \in ToSet(s) /\ Head(Append(s, x)) = Head(s) /\ Head(s) \in Rows
      BY <1>1, <2>4, HeadAndTail
    <3>2. Head(s)[2] <= Head(Append(s, x))[2]
      BY <1>0, <3>1
    <3>3. QED
      BY <1>1, <2>1, <2>2, <2>4, <3>1, <3>2
  <2>5. QED
    BY <2>3, <2>4
<1>3. CASE Len(s) = w
  <2>1. s # <<>>
    BY <1>0, <1>3
  <2>2. /\ Slide(s, x, w) = Append(Tail(s), x)
        /\ Tail(s) \in Seq(Rows) /\ Len(Tail(s)) + 1 = w
        /\ \A i \in 1..Len(Tail(s)) : Tail(s)[i] = s[i + 1]
        /\ ToSet(s) = {Head(s)} \cup ToSet(Tail(s)) /\ Head(s) = s[1] /\ Head(s) \in Rows
    BY <1>0, <1>3, <2>1, HeadAndTail DEF Slide
  <2> DEFINE a == Tail(s)
  <2> HIDE DEF a
  <2>3. a \in Seq(Rows) /\ Len(a) \in Nat /\ Len(a) + 1 = w /\ ToSet(s) = {Head(s)} \cup ToSet(a)
        /\ Slide(s, x, w) = Append(a, x)
    BY <2>2 DEF a
  <2>4. InOrder(a)
    <3> SUFFICES ASSUME NEW i \in 2..Len(a) PROVE a[i - 1][2] < a[i][2]
      BY DEF InOrder
    <3>1. i \in 1..Len(a) /\ i - 1 \in 1..Len(a) /\ i + 1 \in 2..Len(s) /\ (i - 1) + 1 = i
          /\ (i + 1) - 1 = i
      BY <1>3, <2>3
    <3>2. a[i] = s[i + 1] /\ a[i - 1] = s[i]
      BY <2>2, <3>1 DEF a
    <3>3. s[i][2] < s[i + 1][2]
      BY <3>1 DEF InOrder
    <3>4. QED
      BY <3>2, <3>3
  <2>5. \A y \in ToSet(a) : y[2] < x[2]
    BY <2>3
  <2>6. ToSet(Append(a, x)) = ToSet(a) \cup {x}
    BY <2>3, Appended
  <2>7. CASE a = <<>>
    <3>1. ToSet(a) = {}
      BY <2>7 DEF ToSet
    <3>2. Head(Append(a, x)) = x /\ Append(a, x) \in Seq(Rows) /\ Append(a, x) # <<>>
          /\ Len(Append(a, x)) = w /\ InOrder(Append(a, x))
      BY <1>1, <2>3, <2>4, <2>5, <2>7
    <3>3. \A y \in ToSet(s) : ~(y[2] >= x[2])
      BY <1>0, Elements
    <3>4. QED
      BY <1>0, <2>3, <3>2, <3>3
  <2>8. CASE a # <<>>
    <3>1. /\ Head(Append(a, x)) = Head(a) /\ Head(a) \in ToSet(a) /\ Append(a, x) \in Seq(Rows)
          /\ Append(a, x) # <<>> /\ Len(Append(a, x)) = w /\ InOrder(Append(a, x))
      BY <1>1, <2>3, <2>4, <2>5, <2>8
    <3>2. Head(s)[2] < Head(a)[2]
      <4>1. Len(a) >= 1 /\ Head(a) = a[1]
        BY <2>3, <2>8, HeadAndTail
      <4>2. a[1] = s[2] /\ 2 \in 2..Len(s) /\ 2 - 1 = 1
        BY <1>3, <2>2, <2>3, <4>1 DEF a
      <4>3. s[1][2] < s[2][2]
        BY <4>2 DEF InOrder
      <4>4. QED
        BY <2>2, <4>1, <4>2, <4>3
    <3>3. Head(a) \in Rows /\ Head(s) \in Rows
      BY <2>2, <2>3, <2>8, HeadAndTail
    <3>4. Head(s)[2] <= Head(a)[2] /\ ~(Head(s)[2] >= Head(a)[2])
      BY <1>0, <3>2, <3>3
    <3>5. \A y \in ToSet(s) : y[2] >= Head(a)[2] => y \in ToSet(a)
      BY <2>3, <3>4
    <3>6. QED
      BY <1>0, <2>1, <2>3, <2>6, <3>1, <3>4, <3>5
  <2>9. QED
    BY <2>7, <2>8
<1>4. QED
  BY <1>2, <1>3

\* The batch has the delivered entries of the kind of its first one, from
\* that one on.
LEMMA HeadFirst ==
  ASSUME TypeInv, batch # <<>>
  PROVE  /\ Head(batch) \in ToSet(batch) /\ Head(batch) \in Delivered
         /\ Head(batch)[1] \in Kinds /\ Head(batch)[2] \in Nat
         /\ \A r \in Delivered : r[1] = Head(batch)[1] =>
               (r \in ToSet(batch) <=> r[2] >= Head(batch)[2])
<1>1. /\ delivered \in [Kinds -> Nat] /\ \A k \in Kinds : delivered[k] <= MaxLength[k]
      /\ batch \in Seq(Rows)
  BY BatchIs
<1>2. PICK t \in 0..Count, c \in 0..Count :
        t <= delivered["trades"] /\ c <= delivered["klines"]
          /\ batch = RestOf(t, c, delivered)
  BY DEF TypeInv, GroupInv, BatchInv
<1>3. PICK k \in Kinds, u \in 0..(Count - 1) :
        /\ u < delivered[k] /\ Head(batch) = <<k, delivered[k] - u>>
        /\ \/ k = "trades" /\ t = u + 1
           \/ k = "klines" /\ t = 0 /\ c = u + 1
  <2>1. RestOf(t, c, delivered) # <<>>
    BY <1>2
  <2>2. \E k \in Kinds, u \in 0..(Count - 1) :
          /\ u < delivered[k] /\ Head(RestOf(t, c, delivered)) = <<k, delivered[k] - u>>
          /\ \/ k = "trades" /\ t = u + 1
                /\ Tail(RestOf(t, c, delivered)) = RestOf(u, c, delivered)
             \/ k = "klines" /\ t = 0 /\ c = u + 1
                /\ Tail(RestOf(t, c, delivered)) = RestOf(0, u, delivered)
    BY <1>1, <1>2, <2>1, RestHead
  <2>3. QED
    BY <1>2, <2>2
<1>4. u \in Nat /\ t \in Nat /\ c \in Nat /\ delivered[k] \in Nat
  BY <1>1, <1>3, BoundsAre
<1>5. ToSet(batch) = Ends(t, c, delivered)
  BY <1>1, <1>2, <1>4, Rests
<1>6. Head(batch) \in ToSet(batch) /\ Head(batch) \in Rows
  BY <1>1, HeadAndTail
<1>7. Head(batch)[1] = k /\ Head(batch)[2] = delivered[k] - u
  BY <1>3
<1>8. ASSUME NEW r \in Delivered, r[1] = k
      PROVE  r \in ToSet(batch) <=> r[2] >= Head(batch)[2]
  <2>1. r \in UpTo(delivered) /\ r[2] \in Nat
    BY <1>8, RowIs DEF Delivered, UpTo
  <2>2. (IF r[1] = "trades" THEN t ELSE c) = u + 1
    BY <1>3, <1>8
  <2>3. r \in ToSet(batch) <=> r[2] > delivered[k] - (u + 1)
    BY <1>5, <1>8, <2>1, <2>2 DEF Ends
  <2>4. r[2] > delivered[k] - (u + 1) <=> r[2] >= delivered[k] - u
    BY <1>4, <2>1
  <2>5. QED
    BY <1>7, <2>3, <2>4
<1>9. Head(batch) \in Delivered
  BY <1>6 DEF TypeInv, GroupInv
<1>10. QED
  BY <1>6, <1>7, <1>8, <1>9, RowIs

\* No window moves.
LEMMA WindowsSame ==
  ASSUME TypeInv, WindowInv, [Next]_vars, windows' = windows, Delivered \subseteq Delivered',
         \A r \in ToSet(NotSlid') : \A s \in Delivered :
            r[1] = s[1] => r \in ToSet(NotSlid) \/ r[2] > s[2],
         pc' \in AtUpdated => \/ pc \in AtUpdated /\ batch' = batch
                             \/ ~HasVector(Head(batch))'
  PROVE  WindowInv'
<1>1. ASSUME NEW k \in Kinds, NEW w \in Sizes, NEW s \in ToSet(windows'[k][w])
      PROVE  s \in Delivered' /\ s[1] = k /\ \A r \in ToSet(NotSlid') : r[1] = k => r[2] > s[2]
  <2>1. s \in ToSet(windows[k][w])
    BY <1>1
  <2>2. s \in Delivered /\ s[1] = k /\ \A r \in ToSet(NotSlid) : r[1] = k => r[2] > s[2]
    BY <2>1 DEF WindowInv
  <2>3. QED
    BY <2>2
<1>2. pc' \in AtUpdated /\ HasVector(Head(batch))' =>
         \A w \in Sizes : Head(batch') \in ToSet(windows'[Head(batch')[1]][w])
  <2> SUFFICES ASSUME pc' \in AtUpdated, HasVector(Head(batch))'
               PROVE  \A w \in Sizes : Head(batch') \in ToSet(windows'[Head(batch')[1]][w])
    OBVIOUS
  <2>1. pc \in AtUpdated /\ batch' = batch
    OBVIOUS
  <2>2. PICK h \in Delivered : h = Head(batch)
    BY <2>1, HeadIs DEF AtUpdated, AtRow
  <2>3. HasVector(h)'
    BY <2>1, <2>2 DEF HasVector, Ts
  <2>4. HasVector(h)
    BY <2>2, <2>3, VectorKept
  <2>5. QED
    BY <2>1, <2>2, <2>4 DEF WindowInv
<1>3. ASSUME NEW k \in Kinds, NEW w \in Sizes, windows[k][w] # <<>>,
             NEW r \in AckedRows', r[1] = k, r[2] >= Head(windows[k][w])[2]
      PROVE  r \in ToSet(windows[k][w])
  <2>1. CASE r \in AckedRows
    BY <1>3, <2>1 DEF WindowInv, WindowsWhole
  <2>2. CASE r \notin AckedRows
    <3>1. (Ack \/ AckFails) /\ r = Head(batch) /\ HasVector(r)
      BY <1>3, <2>2, NewlyAcked
    <3>2. pc \in AtUpdated
      BY <3>1 DEF Ack, AckFails, AtUpdated
    <3>3. QED
      BY <1>3, <3>1, <3>2 DEF WindowInv
  <2>3. QED
    BY <2>1, <2>2
<1>v. ASSUME NEW k \in Kinds, NEW w \in Sizes, NEW r \in ToSet(windows[k][w]) PROVE HasVector(r)'
  <2>1. r \in Delivered /\ HasVector(r)
    BY <1>v DEF WindowInv, WindowsWhole
  <2>2. QED
    BY <2>1, VectorKept
<1>4. WindowsWhole'
  <2> SUFFICES ASSUME NEW k \in Kinds, NEW w \in Sizes
               PROVE  /\ Len(windows'[k][w]) <= w
                      /\ \A r \in ToSet(windows'[k][w]) : HasVector(r)'
                      /\ \A i \in 2..Len(windows'[k][w]) :
                            windows'[k][w][i - 1][2] < windows'[k][w][i][2]
                      /\ windows'[k][w] # <<>> =>
                            {r \in AckedRows' : r[1] = k /\ r[2] >= Head(windows'[k][w])[2]}
                               \subseteq ToSet(windows'[k][w])
    BY DEF WindowsWhole
  <2>1. /\ Len(windows[k][w]) <= w
        /\ \A i \in 2..Len(windows[k][w]) : windows[k][w][i - 1][2] < windows[k][w][i][2]
    BY DEF WindowInv, WindowsWhole
  <2>2. windows[k][w] # <<>> =>
           {r \in AckedRows' : r[1] = k /\ r[2] >= Head(windows[k][w])[2]}
              \subseteq ToSet(windows[k][w])
    BY <1>3
  <2>3. \A r \in ToSet(windows'[k][w]) : HasVector(r)'
    BY <1>v
  <2>4. QED
    BY <2>1, <2>2, <2>3
<1>5. QED
  BY <1>1, <1>2, <1>4 DEF WindowInv

\* The window of one kind takes the first entry of the batch.
LEMMA RowKeepsWindows ==
  ASSUME TypeInv, WindowInv, Row
  PROVE  WindowInv'
<1> DEFINE h == Head(batch)
           k == h[1]
<1>1. /\ pc = "row" /\ pc' \in {"expire", "store"} /\ batch' = batch /\ HasVector(h)
      /\ UNCHANGED <<stream, delivered, pending>>
      /\ windows' = [windows EXCEPT ![k] = Slid(@, h)]
  BY DEF Row, world, group
<1>2. batch # <<>> /\ batch \in Seq(Rows)
  BY <1>1 DEF TypeInv, TypeOK, PlaceInv, AtRow
<1>3. /\ h \in ToSet(batch) /\ h \in Delivered /\ k \in Kinds /\ h[2] \in Nat /\ h \in Rows
      /\ \A r \in Delivered : r[1] = k => (r \in ToSet(batch) <=> r[2] >= h[2])
  BY <1>2, HeadFirst, HeadAndTail
<1>4. ToSet(Tail(batch)) = ToSet(batch) \ {h} /\ ToSet(batch) \subseteq Delivered
  BY <1>2, TailIs, BatchIs
<1>5. NotSlid = batch /\ NotSlid' = Tail(batch)
  BY <1>1 DEF NotSlid, AtUpdated
<1>6. AckedRows' = AckedRows /\ Delivered' = Delivered
  BY <1>1 DEF AckedRows, Delivered, UpTo, HasVector, Ts
<1>v. \A r : HasVector(r)' <=> HasVector(r)
  BY <1>1 DEF HasVector, Ts
<1>7. windows \in [Kinds -> [Sizes -> Seq(Rows)]]
  BY DEF TypeInv, TypeOK
<1>8. /\ \A w \in Sizes : windows'[k][w] = Slide(windows[k][w], h, w)
      /\ \A j \in Kinds \ {k} : windows'[j] = windows[j]
  BY <1>1, <1>3, <1>7 DEF Slid
<1> HIDE DEF h, k
<1>9. k = h[1]
  BY DEF k
<1>10. ASSUME NEW r \in ToSet(Tail(batch)), r[1] = k PROVE r[2] > h[2]
  <2>1. r \in Delivered /\ r \in ToSet(batch) /\ r # h
    BY <1>4, <1>10
  <2>2. r[2] >= h[2] /\ r[2] \in Nat /\ r \in Rows /\ r = <<r[1], r[2]>> /\ h = <<h[1], h[2]>>
    BY <1>3, <1>10, <2>1, RowIs DEF Delivered, UpTo
  <2>3. r[2] # h[2]
    BY <1>9, <1>10, <2>1, <2>2
  <2>4. QED
    BY <1>3, <2>2, <2>3
<1>11. ASSUME NEW w \in Sizes
       PROVE  /\ \A y \in ToSet(windows[k][w]) : y \in Delivered /\ y[1] = k /\ y[2] < h[2]
              /\ \A y \in ToSet(windows[k][w]) : y[2] \in Nat
  <2> SUFFICES ASSUME NEW y \in ToSet(windows[k][w])
               PROVE  y \in Delivered /\ y[1] = k /\ y[2] < h[2] /\ y[2] \in Nat
    OBVIOUS
  <2>1. y \in Delivered /\ y[1] = k /\ \A r \in ToSet(NotSlid) : r[1] = k => r[2] > y[2]
    BY <1>3, <1>11 DEF WindowInv
  <2>2. h[2] > y[2]
    BY <1>3, <1>5, <1>9, <2>1
  <2>3. y[2] \in Nat
    BY <2>1, RowIs DEF Delivered, UpTo
  <2>4. QED
    BY <1>3, <2>1, <2>2, <2>3
<1>12. ASSUME NEW w \in Sizes
       PROVE  /\ windows[k][w] \in Seq(Rows) /\ Len(windows[k][w]) <= w /\ InOrder(windows[k][w])
              /\ windows[k][w] # <<>> =>
                    {r \in AckedRows : r[1] = k /\ r[2] >= Head(windows[k][w])[2]}
                       \subseteq ToSet(windows[k][w])
  <2>1. windows[k][w] \in Seq(Rows)
    BY <1>3, <1>7, <1>12
  <2>2. QED
    BY <1>3, <1>12, <2>1 DEF WindowInv, WindowsWhole, InOrder
<1>13. ASSUME NEW w \in Sizes
       PROVE  /\ windows'[k][w] \in Seq(Rows) /\ windows'[k][w] # <<>> /\ Len(windows'[k][w]) <= w
              /\ InOrder(windows'[k][w])
              /\ \/ Head(windows'[k][w]) = h
                 \/ windows[k][w] # <<>> /\ Head(windows'[k][w]) \in ToSet(windows[k][w])
                      /\ Head(windows[k][w])[2] <= Head(windows'[k][w])[2]
              /\ \A y \in ToSet(windows[k][w]) :
                    y[2] >= Head(windows'[k][w])[2] => y \in ToSet(windows'[k][w])
              /\ ToSet(windows'[k][w]) \subseteq ToSet(windows[k][w]) \cup {h}
              /\ h \in ToSet(windows'[k][w])
  <2> DEFINE s == windows[k][w]
  <2>1. s \in Seq(Rows) /\ Len(s) <= w /\ InOrder(s) /\ \A y \in ToSet(s) : y[2] < h[2]
    BY <1>11, <1>12, <1>13
  <2>2. windows'[k][w] = Slide(s, h, w)
    BY <1>8, <1>13
  <2> HIDE DEF s
  <2>3. /\ ToSet(Slide(s, h, w)) \subseteq ToSet(s) \cup {h}
        /\ h \in ToSet(Slide(s, h, w))
    BY <1>3, <1>13, <2>1, SlideIs
  <2>4. /\ Slide(s, h, w) \in Seq(Rows) /\ Slide(s, h, w) # <<>> /\ Len(Slide(s, h, w)) <= w
        /\ InOrder(Slide(s, h, w))
        /\ \/ Head(Slide(s, h, w)) = h
           \/ s # <<>> /\ Head(Slide(s, h, w)) \in ToSet(s)
                /\ Head(s)[2] <= Head(Slide(s, h, w))[2]
        /\ \A y \in ToSet(s) : y[2] >= Head(Slide(s, h, w))[2] => y \in ToSet(Slide(s, h, w))
    BY <1>3, <1>13, <2>1, SlideOrdered
  <2>5. QED
    BY <2>2, <2>3, <2>4 DEF s
<1>14. ASSUME NEW j \in Kinds, NEW w \in Sizes, NEW s \in ToSet(windows'[j][w])
       PROVE  s \in Delivered' /\ s[1] = j /\ \A r \in ToSet(NotSlid') : r[1] = j => r[2] > s[2]
  <2>1. CASE j # k
    <3>1. s \in ToSet(windows[j][w])
      BY <1>8, <1>14, <2>1
    <3>2. s \in Delivered /\ s[1] = j /\ \A r \in ToSet(NotSlid) : r[1] = j => r[2] > s[2]
      BY <1>14, <3>1 DEF WindowInv
    <3>3. QED
      BY <1>4, <1>5, <1>6, <3>2
  <2>2. CASE j = k /\ s = h
    BY <1>3, <1>5, <1>6, <1>9, <1>10, <2>2
  <2>3. CASE j = k /\ s # h
    <3>1. s \in ToSet(windows[k][w])
      BY <1>13, <1>14, <2>3
    <3>2. s \in Delivered /\ s[1] = k /\ \A r \in ToSet(NotSlid) : r[1] = k => r[2] > s[2]
      BY <1>3, <1>14, <3>1 DEF WindowInv
    <3>3. QED
      BY <1>4, <1>5, <1>6, <2>3, <3>2
  <2>4. QED
    BY <2>1, <2>2, <2>3
<1>15. \A w \in Sizes : Head(batch') \in ToSet(windows'[Head(batch')[1]][w])
  BY <1>1, <1>13 DEF h, k
<1>16. ASSUME NEW w \in Sizes, NEW r \in AckedRows, r[1] = k, r[2] >= Head(windows'[k][w])[2]
       PROVE  r \in ToSet(windows'[k][w])
  <2>1. r \in Delivered /\ r \notin pending /\ r[2] \in Nat
    BY <1>16, AckedIs, RowIs DEF AckedRows
  <2>2. CASE Head(windows'[k][w]) = h
    <3>1. r \in ToSet(batch)
      BY <1>3, <1>16, <2>1, <2>2
    <3>2. r \in pending
      BY <3>1 DEF TypeInv, GroupInv
    <3>3. QED
      BY <2>1, <3>2
  <2>3. CASE windows[k][w] # <<>> /\ Head(windows'[k][w]) \in ToSet(windows[k][w])
               /\ Head(windows[k][w])[2] <= Head(windows'[k][w])[2]
    <3>1. Head(windows[k][w]) \in ToSet(windows[k][w])
      BY <1>12, <1>16, <2>3, HeadAndTail
    <3>2. Head(windows[k][w])[2] \in Nat /\ Head(windows'[k][w])[2] \in Nat
      BY <1>11, <1>16, <2>3, <3>1
    <3>3. r[2] >= Head(windows[k][w])[2]
      BY <1>16, <2>1, <2>3, <3>2
    <3>4. r \in ToSet(windows[k][w])
      BY <1>12, <1>16, <2>3, <3>3
    <3>5. QED
      BY <1>13, <1>16, <3>4
  <2>4. QED
    BY <1>13, <1>16, <2>2, <2>3
<1>17. WindowsWhole'
  <2> SUFFICES ASSUME NEW j \in Kinds, NEW w \in Sizes
               PROVE  /\ Len(windows'[j][w]) <= w
                      /\ \A r \in ToSet(windows'[j][w]) : HasVector(r)'
                      /\ \A i \in 2..Len(windows'[j][w]) :
                            windows'[j][w][i - 1][2] < windows'[j][w][i][2]
                      /\ windows'[j][w] # <<>> =>
                            {r \in AckedRows' : r[1] = j /\ r[2] >= Head(windows'[j][w])[2]}
                               \subseteq ToSet(windows'[j][w])
    BY DEF WindowsWhole
  <2>1. CASE j = k
    <3>1. \A r \in ToSet(windows'[k][w]) : HasVector(r)'
      <4>1. \A r \in ToSet(windows[k][w]) : HasVector(r)
        BY <1>3 DEF WindowInv, WindowsWhole
      <4>2. QED
        BY <1>1, <1>13, <1>v, <4>1
    <3>2. QED
      BY <1>6, <1>13, <1>16, <2>1, <3>1 DEF InOrder
  <2>2. CASE j # k
    <3>1. windows'[j] = windows[j]
      BY <1>8, <2>2
    <3>2. /\ Len(windows[j][w]) <= w
          /\ \A r \in ToSet(windows[j][w]) : HasVector(r)
          /\ \A i \in 2..Len(windows[j][w]) : windows[j][w][i - 1][2] < windows[j][w][i][2]
          /\ windows[j][w] # <<>> =>
                {r \in AckedRows : r[1] = j /\ r[2] >= Head(windows[j][w])[2]}
                   \subseteq ToSet(windows[j][w])
      BY DEF WindowInv, WindowsWhole
    <3>3. QED
      BY <1>6, <1>v, <3>1, <3>2
  <2>3. QED
    BY <2>1, <2>2
<1>18. QED
  BY <1>14, <1>15, <1>17 DEF WindowInv

\* A window that is empty has nothing to keep.
LEMMA EmptyWindows ==
  ASSUME \A k \in Kinds, w \in Sizes : windows[k][w] = <<>>, pc \notin AtUpdated
  PROVE  WindowInv
<1>1. \A k \in Kinds, w \in Sizes : ToSet(windows[k][w]) = {}
  BY DEF ToSet
<1>2. WindowsWhole
  <2> SUFFICES ASSUME NEW k \in Kinds, NEW w \in Sizes
               PROVE  /\ Len(windows[k][w]) <= w
                      /\ \A r \in ToSet(windows[k][w]) : HasVector(r)
                      /\ \A i \in 2..Len(windows[k][w]) :
                            windows[k][w][i - 1][2] < windows[k][w][i][2]
                      /\ windows[k][w] = <<>>
    BY DEF WindowsWhole
  <2>1. windows[k][w] = <<>> /\ w \in Nat
    BY BoundsAre
  <2>2. Len(windows[k][w]) = 0
    BY <2>1
  <2>3. QED
    BY <1>1, <2>1, <2>2
<1>3. QED
  BY <1>1, <1>2 DEF WindowInv

LEMMA NextWindow == TypeInv /\ WindowInv /\ [Next]_vars => WindowInv'
<1> SUFFICES ASSUME TypeInv, WindowInv, [Next]_vars PROVE WindowInv'
  OBVIOUS
<1>1. CASE Row
  BY <1>1, RowKeepsWindows
<1>2. CASE Start
  <2>1. windows' = [k \in Kinds |-> Empty(Sizes)] /\ pc' = "read"
    BY <1>2 DEF Start
  <2>2. \A k \in Kinds, w \in Sizes : windows'[k][w] = <<>>
    BY <2>1 DEF Empty
  <2>3. pc' \notin AtUpdated
    BY <2>1 DEF AtUpdated
  <2>4. \A k \in Kinds, w \in Sizes : ToSet(windows'[k][w]) = {}
    BY <2>2 DEF ToSet
  <2>5. WindowsWhole'
    <3> SUFFICES ASSUME NEW k \in Kinds, NEW w \in Sizes
                 PROVE  /\ Len(windows'[k][w]) <= w
                        /\ \A r \in ToSet(windows'[k][w]) : HasVector(r)'
                        /\ \A i \in 2..Len(windows'[k][w]) :
                              windows'[k][w][i - 1][2] < windows'[k][w][i][2]
                        /\ windows'[k][w] = <<>>
      BY DEF WindowsWhole
    <3>1. windows'[k][w] = <<>> /\ w \in Nat
      BY <2>2, BoundsAre
    <3>2. Len(windows'[k][w]) = 0
      BY <3>1
    <3>3. QED
      BY <2>4, <3>1, <3>2
  <2>6. QED
    BY <2>3, <2>4, <2>5 DEF WindowInv
<1>3. CASE Read \/ ReadLost
  <2>1. /\ Deliver /\ pc = "read" /\ pc' \notin AtUpdated /\ windows' = windows
        /\ batch' \in {Response, <<>>}
    BY <1>3 DEF Read, ReadLost, AtUpdated, TypeInv, PlaceInv
  <2>2. /\ ToSet(Response) = UpTo(delivered') \ Delivered /\ Delivered \subseteq UpTo(delivered')
        /\ delivered' \in [Kinds -> Nat]
    BY <2>1, Delivers
  <2>3. NotSlid' = batch'
    BY <2>1 DEF NotSlid
  <2>4. ToSet(NotSlid') \subseteq ToSet(Response)
    <3>1. batch' = <<>> => ToSet(batch') = {}
      BY DEF ToSet
    <3>2. QED
      BY <2>1, <2>3, <3>1
  <2>5. ASSUME NEW r \in ToSet(NotSlid'), NEW s \in Delivered, r[1] = s[1] PROVE r[2] > s[2]
    <3>1. r \in Rows /\ r \notin Delivered /\ r[1] \in Kinds /\ r[2] \in Nat
      BY <2>2, <2>4, <2>5, RowIs DEF UpTo
    <3>2. s[2] \in Nat /\ s[2] <= delivered[s[1]]
      BY <2>5, RowIs DEF Delivered, UpTo
    <3>3. ~(r[2] <= delivered[r[1]]) /\ delivered[r[1]] \in Nat
      BY <3>1 DEF Delivered, UpTo, TypeInv, TypeOK
    <3>4. QED
      BY <2>5, <3>1, <3>2, <3>3
  <2>6. Delivered \subseteq Delivered'
    BY <2>2 DEF Delivered
  <2>7. QED
    BY <2>1, <2>5, <2>6, WindowsSame
<1>4. CASE Ack
  <2>1. /\ pc = "ack" /\ pc' \notin AtUpdated /\ windows' = windows /\ batch' = Tail(batch)
        /\ delivered' = delivered
    BY <1>4 DEF Ack, AfterRow, AtUpdated
  <2>2. NotSlid = Tail(batch) /\ NotSlid' = Tail(batch) /\ pc \in AtUpdated
    BY <2>1 DEF NotSlid, AtUpdated
  <2>3. Delivered' = Delivered
    BY <2>1 DEF Delivered, UpTo
  <2>4. QED
    BY <2>1, <2>2, <2>3, WindowsSame
<1>w. CASE RowWithoutVector
  <2>1. /\ pc = "row" /\ pc' = "ack" /\ UNCHANGED <<stream, delivered, batch, windows>>
        /\ ~HasVector(Head(batch))
    BY <1>w DEF RowWithoutVector, world, group
  <2>2. ~HasVector(Head(batch))'
    BY <2>1 DEF HasVector, Ts
  <2>3. ToSet(Tail(batch)) \subseteq ToSet(batch)
    BY <2>1, HeadIs, TailIs DEF AtRow
  <2>4. NotSlid = batch /\ NotSlid' = Tail(batch)
    BY <2>1 DEF NotSlid, AtUpdated
  <2>5. Delivered' = Delivered
    BY <2>1 DEF Delivered, UpTo
  <2>6. QED
    BY <2>1, <2>2, <2>3, <2>4, <2>5, WindowsSame
<1>5. CASE ~(Row \/ RowWithoutVector \/ Start \/ Read \/ ReadLost \/ Ack)
  <2>1. windows' = windows /\ delivered' = delivered
    BY <1>5, ReadFailsIs DEF Next, Consumer, ReadNothing, ReadIdle, Expire, Store, StoreRefused,
       StoreSkipped, Buffered, StoreRaises, AckFails, FlushRaises, Raise, BeginWrite, EndWrite,
       FlushFails, WriteFails, Unflushed, NothingToFlush, Crash, Produce, Midnight, HashExpires,
       vars, process, group
  <2>2. \/ batch' = <<>> /\ pc' \notin AtUpdated
        \/ batch' = batch /\ (pc' \in AtUpdated <=> pc \in AtUpdated)
    BY <1>5, ReadFailsIs DEF Next, Consumer, ReadNothing, ReadIdle, Expire, Store, StoreRefused,
       StoreSkipped, Buffered, StoreRaises, AckFails, FlushRaises, Raise, BeginWrite, EndWrite,
       FlushFails, WriteFails, Unflushed, AfterFlush, Flushing, Writing, NothingToFlush, Crash,
       Produce, Midnight, HashExpires, vars, process, AtUpdated
  <2>3. ToSet(NotSlid') \subseteq ToSet(NotSlid)
    <3>1. CASE batch' = <<>> /\ pc' \notin AtUpdated
      <4>1. NotSlid' = <<>>
        BY <3>1 DEF NotSlid
      <4>2. ToSet(NotSlid') = {}
        BY <4>1 DEF ToSet
      <4>3. QED
        BY <4>2
    <3>2. CASE batch' = batch /\ (pc' \in AtUpdated <=> pc \in AtUpdated)
      BY <3>2 DEF NotSlid
    <3>3. QED
      BY <2>2, <3>1, <3>2
  <2>4. Delivered' = Delivered
    BY <2>1 DEF Delivered, UpTo
  <2>5. QED
    BY <2>1, <2>2, <2>3, <2>4, WindowsSame
<1>6. QED
  BY <1>1, <1>2, <1>3, <1>4, <1>5, <1>w

\* A window has every acknowledged entry with a vector from its first one on, in
\* order, and none without, whichever responses were broken off and whichever
\* updates were followed by an exception.
THEOREM WindowsKeepAcked == Spec => []WindowsWhole
<1>1. Init => WindowInv
  <2> SUFFICES ASSUME Init PROVE WindowInv
    OBVIOUS
  <2>1. \A k \in Kinds, w \in Sizes : windows[k][w] = <<>>
    BY DEF Init, Empty
  <2>2. pc \notin AtUpdated
    BY DEF Init, AtUpdated
  <2>3. QED
    BY <2>1, <2>2, EmptyWindows
<1>2. WindowInv => WindowsWhole
  BY DEF WindowInv
<1>3. QED
  BY <1>1, <1>2, NextWindow, TypeInvariance, PTL DEF Spec

-----------------------------------------------------------------------------
(* What a process loses.                                                   *)

\* The row at hand, if there is one, is in memory when its entry is about to be
\* acknowledged, and a file that is being written has what is in memory.
KeptInv ==
    /\ pc = "ack" /\ HasVector(Head(batch)) => Head(batch) \in ToSet(buffer)
    /\ Writing => \A r \in ToSet(buffer) : \E s \in ToSet(file[day].rows) : Ts(s) = Ts(r)

LEMMA RowsDelivered ==
  ASSUME TypeInv, FileInv
  PROVE  ToSet(buffer) \subseteq Delivered /\ InFiles \subseteq Delivered
BY DEF FileInv, Handled, InFiles

LEMMA SameTs ==
  ASSUME TypeInv, [Next]_vars, NEW r \in Delivered, NEW s \in Delivered, Ts(s) = Ts(r)
  PROVE  Ts(s)' = Ts(r)'
BY TsKept

\* What a flush is about to write has a row for each of the file and of the
\* buffer.
LEMMA FileRowsKeep ==
  ASSUME TypeInv, file[day].state # "torn"
  PROVE  \A r \in ToSet(file[day].rows) \cup ToSet(buffer) :
            \E s \in ToSet(FileRows) : Ts(s) = Ts(r)
<1>1. /\ file[day].rows \in Seq(Rows) /\ buffer \in Seq(Rows) /\ day \in Days
      /\ file[day].state \in {"absent", "good", "torn"}
  BY DEF TypeInv, TypeOK
<1>2. CASE file[day].state = "good"
  <2>1. /\ file[day].rows \o buffer \in Seq(Rows)
        /\ ToSet(file[day].rows \o buffer) = ToSet(file[day].rows) \cup ToSet(buffer)
    BY <1>1, Joined
  <2>2. FileRows = DropDuplicates(file[day].rows \o buffer)
    BY <1>2 DEF FileRows
  <2>3. \A r \in ToSet(file[day].rows \o buffer) :
           \E s \in ToSet(DropDuplicates(file[day].rows \o buffer)) : Ts(s) = Ts(r)
    BY <2>1, Deduplicated
  <2>4. QED
    BY <2>1, <2>2, <2>3
<1>3. CASE file[day].state = "absent"
  <2>1. file[day].rows = <<>>
    BY <1>1, <1>3 DEF TypeInv, PlaceInv
  <2>2. ToSet(file[day].rows) = {}
    BY <2>1 DEF ToSet
  <2>3. FileRows = buffer
    BY <1>3 DEF FileRows
  <2>4. QED
    BY <2>2, <2>3
<1>4. QED
  BY <1>1, <1>2, <1>3

LEMMA NextKept == TypeInv /\ FileInv /\ KeptInv /\ [Next]_vars => KeptInv'
<1> SUFFICES ASSUME TypeInv, FileInv, KeptInv, [Next]_vars PROVE KeptInv'
  OBVIOUS
<1>1. pc' = "ack" /\ HasVector(Head(batch))' => Head(batch') \in ToSet(buffer')
  <2>1. CASE Store \/ StoreRefused \/ StoreSkipped
    <3>1. /\ buffer' = Append(buffer, Head(batch)) /\ batch' = batch /\ pc = "store"
      BY <2>1, OfflineKeeps DEF Buffered
    <3>2. Head(batch) \in Rows /\ buffer \in Seq(Rows)
      BY <3>1, HeadIs DEF AtRow, TypeInv, TypeOK
    <3>3. ToSet(Append(buffer, Head(batch))) = ToSet(buffer) \cup {Head(batch)}
      BY <3>2, Appended
    <3>4. QED
      BY <3>1, <3>3
  <2>2. CASE RowWithoutVector
    <3>1. batch' = batch /\ stream' = stream /\ ~HasVector(Head(batch))
      BY <2>2 DEF RowWithoutVector, world
    <3>2. QED
      BY <3>1 DEF HasVector, Ts
  <2>3. CASE ~(Store \/ StoreRefused \/ StoreSkipped \/ RowWithoutVector)
    <3> SUFFICES ASSUME pc' = "ack", HasVector(Head(batch))'
                 PROVE  Head(batch') \in ToSet(buffer')
      OBVIOUS
    <3>1. pc = "ack" /\ batch' = batch /\ buffer' = buffer
      BY <2>3 DEF Next, Consumer, Read, ReadNothing, ReadFails, Row, Expire, StoreRaises, AckFails,
         FlushRaises, Raise, Ack, AfterRow, BeginWrite, EndWrite, FlushFails, WriteFails, Unflushed,
         AfterFlush, NothingToFlush, Crash, Start, Produce, Midnight, HashExpires, Flushing, vars,
         process
    <3>2. PICK h \in Delivered : h = Head(batch)
      BY <3>1, HeadIs DEF AtRow
    <3>3. HasVector(h)'
      BY <3>1, <3>2 DEF HasVector, Ts
    <3>4. HasVector(h)
      BY <3>2, <3>3, VectorKept
    <3>5. QED
      BY <3>1, <3>2, <3>4 DEF KeptInv
  <2>4. QED
    BY <2>1, <2>2, <2>3
<1>2. ASSUME Writing', NEW r \in ToSet(buffer')
      PROVE  \E s \in ToSet(file'[day'].rows) : Ts(s)' = Ts(r)'
  <2>1. day \in Days
    BY DEF TypeInv, TypeOK
  <2>2. CASE BeginWrite
    <3>1. /\ file' = [file EXCEPT ![day] = [state |-> "torn", rows |-> FileRows]]
          /\ file[day].state # "torn" /\ day' = day /\ buffer' = buffer
      BY <2>2 DEF BeginWrite, world
    <3>2. file'[day'].rows = FileRows
      BY <2>1, <3>1 DEF TypeInv, TypeOK
    <3>3. PICK s \in ToSet(FileRows) : Ts(s) = Ts(r)
      BY <1>2, <3>1, FileRowsKeep
    <3>4. r \in Delivered
      BY <1>2, <3>1, RowsDelivered
    <3>5. s \in ToSet(file[day].rows) \cup ToSet(buffer)
      BY <3>3, FileRowsIs
    <3>6. s \in Delivered
      BY <2>1, <3>5 DEF FileInv, Handled
    <3>7. QED
      BY <3>2, <3>3, <3>4, <3>6, SameTs
  <2>3. CASE ~BeginWrite
    <3>1. Writing /\ file' = file /\ day' = day /\ buffer' = buffer
      BY <1>2, <2>3 DEF Next, Consumer, Read, ReadNothing, ReadFails, Row, RowWithoutVector, Expire,
         Store, StoreRefused, StoreSkipped, Buffered, StoreRaises, AckFails, FlushRaises, Raise,
         Ack, AfterRow, EndWrite, FlushFails, WriteFails, Unflushed, AfterFlush, NothingToFlush, Crash, Start,
         Produce, Midnight, HashExpires, Flushing, Writing, vars, process, stores, world
    <3>2. PICK s \in ToSet(file[day].rows) : Ts(s) = Ts(r)
      BY <1>2, <3>1 DEF KeptInv
    <3>3. r \in Delivered /\ s \in Delivered
      BY <1>2, <2>1, <3>1 DEF FileInv, Handled
    <3>4. Ts(s)' = Ts(r)'
      BY <3>2, <3>3, SameTs
    <3>5. QED
      BY <3>1, <3>4
  <2>4. QED
    BY <2>2, <2>3
<1>3. QED
  BY <1>1, <1>2 DEF KeptInv

Lost == {r \in AckedRows : ~Kept(r)}

\* A row of a file has a row of its ts there for good, but for a write that
\* breaks off.
LEMMA FileKeeps ==
  ASSUME TypeInv, FileInv, [Next]_vars, ~WriteFails,
         NEW r \in Delivered, \E s \in InFiles : Ts(s) = Ts(r)
  PROVE  \E s \in InFiles' : Ts(s)' = Ts(r)'
<1>1. PICK d \in Days : \E s \in ToSet(file[d].rows) : Ts(s) = Ts(r)
  BY DEF InFiles
<1>s. PICK s \in ToSet(file[d].rows) : Ts(s) = Ts(r)
  BY <1>1
<1>2. s \in Delivered
  BY <1>s DEF FileInv, Handled
<1>3. CASE BeginWrite
  <2>1. /\ file' = [file EXCEPT ![day] = [state |-> "torn", rows |-> FileRows]]
        /\ file[day].state # "torn" /\ day \in Days
    BY <1>3 DEF BeginWrite, TypeInv, TypeOK
  <2>2. /\ file'[day].rows = FileRows
        /\ \A e \in Days \ {day} : file'[e] = file[e]
    BY <2>1 DEF TypeInv, TypeOK
  <2>3. CASE d = day
    <3>1. PICK x \in ToSet(FileRows) : Ts(x) = Ts(s)
      BY <1>s, <2>1, <2>3, FileRowsKeep
    <3>2. x \in ToSet(file[day].rows) \cup ToSet(buffer)
      BY <3>1, FileRowsIs
    <3>3. x \in Delivered
      BY <2>1, <3>2 DEF FileInv, Handled
    <3>4. Ts(x)' = Ts(r)'
      BY <1>s, <3>1, <3>3, SameTs
    <3>5. x \in InFiles'
      BY <2>1, <2>2, <3>1 DEF InFiles
    <3>6. QED
      BY <3>4, <3>5
  <2>4. CASE d # day
    <3>1. s \in InFiles'
      BY <1>s, <2>2, <2>4 DEF InFiles
    <3>2. QED
      BY <1>s, <1>2, <3>1, SameTs
  <2>5. QED
    BY <2>3, <2>4
<1>4. CASE ~BeginWrite
  <2>1. \A e \in Days : file'[e].rows = file[e].rows
    <3>1. CASE EndWrite
      <4>1. file' = [file EXCEPT ![day] = [state |-> "good", rows |-> @.rows]] /\ day \in Days
        BY <3>1 DEF EndWrite, TypeInv, TypeOK
      <4>2. QED
        BY <4>1 DEF TypeInv, TypeOK
    <3>2. CASE ~EndWrite
      <4>1. file' = file
        BY <1>4, <3>2 DEF Next, Consumer, Read, ReadNothing, ReadFails, Row, RowWithoutVector,
           Expire, Store, StoreRefused, StoreSkipped, Buffered, StoreRaises, AckFails, FlushRaises,
           Raise, Ack, FlushFails, NothingToFlush, Crash, Start, Produce, Midnight, HashExpires, vars, stores
      <4>2. QED
        BY <4>1
    <3>3. QED
      BY <3>1, <3>2
  <2>2. s \in InFiles'
    BY <1>s, <2>1 DEF InFiles
  <2>3. QED
    BY <1>s, <1>2, <2>2, SameTs
<1>5. QED
  BY <1>3, <1>4

\* A row that is acknowledged is lost only where the buffer is dropped.
LEMMA NewlyLost ==
  ASSUME TypeInv, FileInv, KeptInv, [Next]_vars, destroyed' = {}
  PROVE  /\ Lost' \subseteq Lost \cup ToSet(buffer)
         /\ ToSet(buffer) \subseteq ToSet(buffer') \/ EndWrite => Lost' \subseteq Lost
<1>1. ~WriteFails
  BY DEF WriteFails
<1>2. ASSUME NEW r \in Lost', r \notin Lost
      PROVE  r \in ToSet(buffer) /\ ~EndWrite /\ r \notin ToSet(buffer')
  <2>1. r \in AckedRows' /\ r \notin ToSet(buffer') /\ ~(\E s \in InFiles' : Ts(s)' = Ts(r)')
    BY <1>2 DEF Lost, Kept
  <2>2. \/ r \in AckedRows
        \/ (Ack \/ AckFails) /\ r \in ToSet(buffer)
    <3>1. CASE r \notin AckedRows
      <4>1. (Ack \/ AckFails) /\ r = Head(batch) /\ HasVector(r)
        BY <2>1, <3>1, NewlyAcked
      <4>2. QED
        BY <4>1 DEF Ack, AckFails, KeptInv
    <3>2. QED
      BY <3>1
  <2>3. r \in Delivered
    BY <2>2, AckedIs, RowsDelivered
  <2>4. ~(\E s \in InFiles : Ts(s) = Ts(r))
    BY <1>1, <2>1, <2>3, FileKeeps
  <2>5. r \in ToSet(buffer)
    BY <1>2, <2>2, <2>4 DEF Lost, Kept
  <2>6. ~EndWrite
    <3>1. ASSUME EndWrite PROVE \E s \in InFiles : Ts(s) = Ts(r)
      <4>1. PICK s \in ToSet(file[day].rows) : Ts(s) = Ts(r)
        BY <2>5, <3>1 DEF EndWrite, KeptInv
      <4>2. s \in InFiles
        BY <4>1 DEF InFiles, TypeInv, TypeOK
      <4>3. QED
        BY <4>1, <4>2
    <3>2. QED
      BY <2>4, <3>1
  <2>7. QED
    BY <2>1, <2>5, <2>6
<1>3. QED
  BY <1>2

\* How many entries of the kind at hand are left of a batch.
Place(d, b) == d[Head(b)[1]] - Head(b)[2] + 1

Segment == Place(delivered, batch)

LEMMA PlaceIs ==
  ASSUME NEW last \in [Kinds -> Nat], \A k \in Kinds : last[k] <= MaxLength[k],
         NEW t \in 0..Count, NEW c \in 0..Count, t <= last["trades"], c <= last["klines"],
         RestOf(t, c, last) # <<>>
  PROVE  Place(last, RestOf(t, c, last)) \in 1..Count
<1>1. PICK k \in Kinds, u \in 0..(Count - 1) :
        u < last[k] /\ Head(RestOf(t, c, last)) = <<k, last[k] - u>>
  BY RestHead
<1>2. Place(last, RestOf(t, c, last)) = last[k] - (last[k] - u) + 1
  BY <1>1 DEF Place
<1>3. QED
  BY <1>2, BoundsAre

\* It is one less when the first is gone and the next is of the same kind.
LEMMA PlaceFalls ==
  ASSUME NEW last \in [Kinds -> Nat], \A k \in Kinds : last[k] <= MaxLength[k],
         NEW t \in 0..Count, NEW c \in 0..Count, t <= last["trades"], c <= last["klines"],
         NEW b, b = RestOf(t, c, last), b # <<>>, Tail(b) # <<>>,
         Head(Tail(b))[1] = Head(b)[1]
  PROVE  Place(last, Tail(b)) = Place(last, b) - 1
<1>1. PICK k \in Kinds, u \in 0..(Count - 1) :
        /\ u < last[k] /\ Head(b) = <<k, last[k] - u>>
        /\ \/ k = "trades" /\ t = u + 1 /\ Tail(b) = RestOf(u, c, last)
           \/ k = "klines" /\ t = 0 /\ c = u + 1 /\ Tail(b) = RestOf(0, u, last)
  BY RestHead
<1>2. PICK v \in 0..(Count - 1) : u = v + 1 /\ Head(Tail(b)) = <<k, last[k] - v>>
  <2>1. last["trades"] \in Nat /\ last["klines"] \in Nat
    BY DEF Kinds
  <2>2. CASE k = "trades"
    <3>1. u \in 0..Count /\ u <= last["trades"] /\ Tail(b) = RestOf(u, c, last)
      BY <1>1, <2>1, <2>2, BoundsAre
    <3> DEFINE a == RestOf(u, c, last)
    <3>2. a # <<>> /\ Head(a)[1] = k
      <4>1. Head(b)[1] = k
        BY <1>1
      <4>2. QED
        BY <3>1, <4>1
    <3>3. PICK j \in Kinds, v \in 0..(Count - 1) :
            /\ v < last[j] /\ Head(a) = <<j, last[j] - v>>
            /\ \/ j = "trades" /\ u = v + 1 /\ Tail(a) = RestOf(v, c, last)
               \/ j = "klines" /\ u = 0 /\ c = v + 1 /\ Tail(a) = RestOf(0, v, last)
      BY <3>1, <3>2, RestHead
    <3> HIDE DEF a
    <3>4. j = k
      BY <3>2, <3>3
    <3>5. u = v + 1
      BY <2>2, <3>3, <3>4
    <3>6. Head(Tail(b)) = <<k, last[k] - v>>
      BY <3>1, <3>3, <3>4 DEF a
    <3>7. QED
      BY <3>5, <3>6
  <2>3. CASE k = "klines"
    <3>1. /\ u \in 0..Count /\ 0 \in 0..Count /\ u <= last["klines"] /\ 0 <= last["trades"]
          /\ Tail(b) = RestOf(0, u, last)
      BY <1>1, <2>1, <2>3, BoundsAre
    <3> DEFINE a == RestOf(0, u, last)
    <3>2. a # <<>> /\ Head(a)[1] = k
      <4>1. Head(b)[1] = k
        BY <1>1
      <4>2. QED
        BY <3>1, <4>1
    <3>3. PICK j \in Kinds, v \in 0..(Count - 1) :
            /\ v < last[j] /\ Head(a) = <<j, last[j] - v>>
            /\ \/ j = "trades" /\ 0 = v + 1 /\ Tail(a) = RestOf(v, u, last)
               \/ j = "klines" /\ 0 = 0 /\ u = v + 1 /\ Tail(a) = RestOf(0, v, last)
      BY <3>1, <3>2, RestHead
    <3> HIDE DEF a
    <3>4. j = k
      BY <3>2, <3>3
    <3>5. u = v + 1
      BY <2>3, <3>3, <3>4
    <3>6. Head(Tail(b)) = <<k, last[k] - v>>
      BY <3>1, <3>3, <3>4 DEF a
    <3>7. QED
      BY <3>5, <3>6
  <2>4. QED
    BY <2>2, <2>3 DEF Kinds
<1>3. /\ Place(last, b) = last[k] - (last[k] - u) + 1
      /\ Place(last, Tail(b)) = last[k] - (last[k] - v) + 1
  <2>1. /\ Head(b)[1] = k /\ Head(b)[2] = last[k] - u
        /\ Head(Tail(b))[1] = k /\ Head(Tail(b))[2] = last[k] - v
    BY <1>1, <1>2, SMTT(30)
  <2>2. QED
    BY <2>1, Zenon DEF Place
<1>4. last[k] \in Nat /\ u \in Nat /\ v \in Nat /\ u = v + 1
  BY <1>2, BoundsAre
<1>5. QED
  BY <1>3, <1>4

LEMMA SegmentIs ==
  ASSUME TypeInv, batch # <<>>
  PROVE  Segment \in 1..Count
<1>1. delivered \in [Kinds -> Nat] /\ \A k \in Kinds : delivered[k] <= MaxLength[k]
  BY BatchIs
<1>2. PICK t \in 0..Count, c \in 0..Count :
        t <= delivered["trades"] /\ c <= delivered["klines"] /\ batch = RestOf(t, c, delivered)
  BY DEF TypeInv, GroupInv, BatchInv
<1>3. QED
  BY <1>1, <1>2, PlaceIs DEF Segment

\* After an XACK with more to come.
LEMMA SegmentAfterAck ==
  ASSUME TypeInv, Ack, pc' = "row"
  PROVE  /\ Segment' \in 1..Count
         /\ ~StreamEnds => Segment' = Segment - 1
<1>1. /\ delivered \in [Kinds -> Nat] /\ \A k \in Kinds : delivered[k] <= MaxLength[k]
      /\ batch \in Seq(Rows) /\ Len(batch) \in Nat
  BY BatchIs
<1>2. pc = "ack" /\ batch' = Tail(batch) /\ delivered' = delivered /\ batch # <<>>
  BY DEF Ack, TypeInv, PlaceInv, AtRow
<1>3. Segment' = Place(delivered, Tail(batch))
  BY <1>2 DEF Segment
<1>4. Len(batch) # 1
  BY DEF Ack, AfterRow
<1>5. /\ Tail(batch) # <<>> /\ Len(batch) >= 2
      /\ Head(batch) = batch[1] /\ Head(Tail(batch)) = batch[2]
  <2>1. /\ Tail(batch) \in Seq(Rows) /\ Len(Tail(batch)) = Len(batch) - 1 /\ Len(batch) >= 1
        /\ \A i \in 1..Len(Tail(batch)) : Tail(batch)[i] = batch[i + 1]
        /\ Head(batch) = batch[1]
    BY <1>1, <1>2, HeadAndTail
  <2>2. Len(Tail(batch)) >= 1 /\ Len(batch) >= 2
    BY <1>1, <1>4, <2>1
  <2>3. Tail(batch) # <<>>
    BY <2>2
  <2>4. Head(Tail(batch)) = Tail(batch)[1]
    BY <2>1, <2>3, HeadAndTail
  <2>5. Tail(batch)[1] = batch[2]
    BY <2>1, <2>2
  <2>6. QED
    BY <2>1, <2>2, <2>3, <2>4, <2>5
<1>6. Place(delivered, Tail(batch)) \in 1..Count
  <2>1. PICK t \in 0..Count, c \in 0..Count :
          t <= delivered["trades"] /\ c <= delivered["klines"]
            /\ Tail(batch) = RestOf(t, c, delivered)
    BY <1>2, TailIs
  <2>2. QED
    BY <1>1, <1>5, <2>1, PlaceIs
<1>7. ASSUME ~StreamEnds PROVE Place(delivered, Tail(batch)) = Segment - 1
  <2>1. Head(Tail(batch))[1] = Head(batch)[1]
    BY <1>5, <1>7 DEF StreamEnds
  <2>2. PICK t \in 0..Count, c \in 0..Count :
          t <= delivered["trades"] /\ c <= delivered["klines"] /\ batch = RestOf(t, c, delivered)
    BY DEF TypeInv, GroupInv, BatchInv
  <2>3. QED
    BY <1>1, <1>2, <1>5, <2>1, <2>2, PlaceFalls DEF Segment
<1>8. QED
  BY <1>3, <1>6, <1>7

\* What LossBounded allows.
Allowed(c, s) == c * (FlushAt - 1 + Count) + s * Count

\* l rows lost and n in memory: how many more than b the process can still
\* lose depends on how far it is from a flush.  The row at hand, and what is
\* left of its kind, are yet to be added.
LossWithin(p, l, n, s, b) ==
    /\ l <= b
    /\ p \in {"read", "last", "lastWrite"} => l + n <= b + FlushAt - 1
    /\ p \in {"row", "expire", "store"} => l + n + s <= b + FlushAt - 1 + Count
    /\ p = "ack" => l + n + s <= b + FlushAt + Count
    /\ p \in {"flush", "write"} => l + n <= b + FlushAt - 1 + Count

LossInv ==
    destroyed = {} =>
        LossWithin(pc, Cardinality(Lost), Len(buffer), Segment, Allowed(cut, skipped))

LEMMA AllowedIs ==
  ASSUME NEW c \in Nat, NEW s \in Nat
  PROVE  /\ Allowed(c, s) \in Nat
         /\ Allowed(c + 1, s) = Allowed(c, s) + FlushAt - 1 + Count
         /\ Allowed(c, s + 1) = Allowed(c, s) + Count
<1> DEFINE f == FlushAt - 1 + Count
<1>1. f \in Nat /\ Count \in Nat /\ FlushAt \in Nat
  BY BoundsAre
<1>2. \A m \in Nat, k \in Nat : m * k \in Nat /\ (m + 1) * k = m * k + k
  OBVIOUS
<1>3. /\ c * f \in Nat /\ (c + 1) * f = c * f + f
      /\ s * Count \in Nat /\ (s + 1) * Count = s * Count + Count
  BY <1>1, <1>2
<1>4. /\ Allowed(c, s) = c * f + s * Count
      /\ Allowed(c + 1, s) = (c + 1) * f + s * Count
      /\ Allowed(c, s + 1) = c * f + (s + 1) * Count
  BY DEF Allowed
<1>5. f = FlushAt - 1 + Count
  OBVIOUS
<1> HIDE DEF f
<1>6. QED
  BY <1>1, <1>3, <1>4, <1>5

\* The numbers of a step.
LEMMA LossNumbers ==
  ASSUME TypeInv, FileInv, KeptInv, [Next]_vars, destroyed' = {}
  PROVE  /\ Cardinality(Lost) \in Nat /\ Cardinality(Lost') \in Nat
         /\ Len(buffer) \in Nat /\ Count \in Nat /\ Count >= 1 /\ FlushAt \in Nat /\ FlushAt >= 1
         /\ Allowed(cut, skipped) \in Nat
         /\ Cardinality(Lost') <= Cardinality(Lost) + Len(buffer)
         /\ ToSet(buffer) \subseteq ToSet(buffer') \/ EndWrite =>
               Cardinality(Lost') <= Cardinality(Lost)
         /\ destroyed = {}
<1>1. /\ Lost \in SUBSET Rows /\ Lost' \in SUBSET Rows
      /\ buffer \in Seq(Rows) /\ cut \in Nat /\ skipped \in Nat
  BY DEF Lost, AckedRows, TypeInv, TypeOK
<1>2. /\ ToSet(buffer) \in SUBSET Rows /\ Len(buffer) \in Nat
      /\ Cardinality(ToSet(buffer)) \in Nat /\ Cardinality(ToSet(buffer)) <= Len(buffer)
  BY <1>1, Elements, ElementsCount
<1>3. /\ Cardinality(Lost) \in Nat /\ Cardinality(Lost') \in Nat
      /\ Lost \cup ToSet(buffer) \in SUBSET Rows
      /\ Cardinality(Lost \cup ToSet(buffer)) \in Nat
      /\ Cardinality(Lost \cup ToSet(buffer)) <= Cardinality(Lost) + Cardinality(ToSet(buffer))
  BY <1>1, <1>2, RowsCount
<1>4. Cardinality(Lost') <= Cardinality(Lost \cup ToSet(buffer))
  BY <1>1, <1>3, NewlyLost, RowsCount
<1>5. ToSet(buffer) \subseteq ToSet(buffer') \/ EndWrite => Cardinality(Lost') <= Cardinality(Lost)
  BY <1>1, NewlyLost, RowsCount
<1>6. Allowed(cut, skipped) \in Nat
  BY <1>1, AllowedIs
<1>7. destroyed \subseteq destroyed'
  BY DEF Next, Consumer, Read, ReadNothing, ReadFails, Row, RowWithoutVector, Expire, Store,
     StoreRefused, StoreSkipped, Buffered, StoreRaises, AckFails, FlushRaises, Raise, Ack,
     BeginWrite, EndWrite, FlushFails, WriteFails, NothingToFlush, Crash, Start, Produce, Midnight, HashExpires, vars, history, losses
<1>8. Cardinality(Lost') <= Cardinality(Lost) + Len(buffer)
  BY <1>2, <1>3, <1>4
<1>9. QED
  BY <1>2, <1>3, <1>5, <1>6, <1>7, <1>8, BoundsAre

LEMMA NextLoss ==
  TypeInv /\ FileInv /\ KeptInv /\ LossInv /\ [Next]_vars => LossInv'
<1> SUFFICES ASSUME TypeInv, FileInv, KeptInv, LossInv, [Next]_vars, destroyed' = {}
             PROVE  LossWithin(pc', Cardinality(Lost'), Len(buffer'), Segment',
                           Allowed(cut', skipped'))
  BY DEF LossInv
<1> DEFINE l == Cardinality(Lost)
           m == Cardinality(Lost')
           n == Len(buffer)
           b == Allowed(cut, skipped)
           Goal == LossWithin(pc', m, Len(buffer'), Segment', Allowed(cut', skipped'))
<1> SUFFICES Goal
  OBVIOUS
<1>1. /\ l \in Nat /\ m \in Nat /\ n \in Nat /\ b \in Nat
      /\ Count \in Nat /\ Count >= 1 /\ FlushAt \in Nat /\ FlushAt >= 1
      /\ m <= l + n
  BY LossNumbers
<1>2. ToSet(buffer) \subseteq ToSet(buffer') \/ EndWrite => m <= l
  BY LossNumbers
<1>3. LossWithin(pc, l, n, Segment, b)
  BY LossNumbers DEF LossInv
<1>4. pc \in AtRow => Segment \in 1..Count
  BY SegmentIs DEF TypeInv, PlaceInv
<1>5. /\ cut' = cut /\ skipped' = skipped => Allowed(cut', skipped') = b
      /\ cut' = cut + 1 /\ skipped' = skipped => Allowed(cut', skipped') = b + FlushAt - 1 + Count
      /\ cut' = cut /\ skipped' = skipped + 1 => Allowed(cut', skipped') = b + Count
  <2>1. cut \in Nat /\ skipped \in Nat
    BY DEF TypeInv, TypeOK
  <2>2. /\ Allowed(cut + 1, skipped) = b + FlushAt - 1 + Count
        /\ Allowed(cut, skipped + 1) = b + Count
    BY <2>1, AllowedIs
  <2>3. QED
    BY <2>2, Zenon
<1>6. Len(<<>>) = 0
  OBVIOUS
<1> HIDE DEF l, m, n, b
<1>7. CASE Read
  <2>1. Deliver /\ pc = "read" /\ pc' = "row" /\ batch' = Response /\ Response # <<>>
        /\ UNCHANGED <<buffer, cut, skipped>>
    BY <1>7 DEF Read, history, losses
  <2>2. /\ delivered' \in [Kinds -> Nat] /\ \A k \in Kinds : delivered'[k] <= MaxLength[k]
        /\ \E t, c \in 0..Count : t <= delivered'["trades"] /\ c <= delivered'["klines"]
                                     /\ Response = RestOf(t, c, delivered')
    BY <2>1, Delivers
  <2>3. Segment' \in 1..Count
    BY <2>1, <2>2, PlaceIs DEF Segment
  <2>4. m <= l /\ Len(buffer') = n /\ Allowed(cut', skipped') = b
    BY <1>2, <1>5, <2>1 DEF n
  <2>5. l <= b /\ l + n <= b + FlushAt - 1
    BY <1>3, <2>1 DEF LossWithin
  <2>s. \A s \in 1..Count : m <= b /\ m + n + s <= b + FlushAt - 1 + Count
    BY <1>1, <2>4, <2>5
  <2>6. m <= b /\ m + n + Segment' <= b + FlushAt - 1 + Count
    BY <2>3, <2>s, Zenon
  <2>7. QED
    BY <2>1, <2>4, <2>6 DEF LossWithin
<1>8. CASE Row \/ RowWithoutVector \/ Expire
  <2>1. /\ pc \in {"row", "expire"} /\ pc' \in {"expire", "store", "ack"}
        /\ UNCHANGED <<batch, delivered, buffer, cut, skipped>>
    BY <1>8 DEF Row, RowWithoutVector, Expire, group, history, losses
  <2>2. m <= l /\ Len(buffer') = n /\ Allowed(cut', skipped') = b /\ Segment' = Segment
    BY <1>2, <1>5, <2>1 DEF n, Segment
  <2>3. QED
    BY <1>1, <1>3, <1>4, <2>1, <2>2 DEF LossWithin, AtRow
<1>9. CASE Store \/ StoreRefused \/ StoreSkipped
  <2>1. /\ pc = "store" /\ pc' = "ack" /\ buffer' = Append(buffer, Head(batch))
        /\ UNCHANGED <<batch, delivered, cut, skipped>>
    BY <1>9, OfflineKeeps DEF Buffered, group
  <2>2. Head(batch) \in Rows /\ buffer \in Seq(Rows)
    BY <2>1, HeadIs DEF AtRow, TypeInv, TypeOK
  <2>3. ToSet(buffer) \subseteq ToSet(buffer') /\ Len(buffer') = n + 1
    BY <2>1, <2>2, Appended DEF n
  <2>4. m <= l /\ Allowed(cut', skipped') = b /\ Segment' = Segment
    BY <1>2, <1>5, <2>1, <2>3 DEF Segment
  <2>5. QED
    BY <1>1, <1>3, <1>4, <2>1, <2>3, <2>4 DEF LossWithin, AtRow
<1>10. CASE Raises
  <2>1. pc \in {"store", "ack", "flush", "last"} /\ Raise
    BY <1>10, RaisesAre
  <2>2. CASE finite
    <3>1. pc' = "ended" /\ cut' = cut + 1 /\ skipped' = skipped
      BY <2>1, <2>2 DEF Raise, Cut
    <3>2. Allowed(cut', skipped') = b + FlushAt - 1 + Count
      BY <1>5, <3>1
    <3>3. l + n <= b + FlushAt - 1 + Count
      BY <1>1, <1>3, <1>4, <2>1 DEF LossWithin, AtRow
    <3>4. QED
      BY <1>1, <3>1, <3>2, <3>3 DEF LossWithin
  <2>3. CASE ~finite
    <3>1. pc' = "read" /\ buffer' = buffer /\ skipped' = skipped + 1 /\ cut' = cut
      BY <2>1, <2>3 DEF Raise, Skipped
    <3>2. Allowed(cut', skipped') = b + Count /\ m <= l /\ Len(buffer') = n
      BY <1>2, <1>5, <3>1 DEF n
    <3>3. l + n <= b + FlushAt - 1 + Count
      BY <1>1, <1>3, <1>4, <2>1 DEF LossWithin, AtRow
    <3>4. l <= b
      BY <1>3 DEF LossWithin
    <3>5. QED
      BY <1>1, <3>1, <3>2, <3>3, <3>4 DEF LossWithin
  <2>4. QED
    BY <2>2, <2>3
<1>11. CASE Ack
  <2>1. /\ pc = "ack" /\ pc' = AfterRow
        /\ UNCHANGED <<delivered, buffer, cut, skipped>>
    BY <1>11 DEF Ack, history, losses
  <2>2. m <= l /\ Len(buffer') = n /\ Allowed(cut', skipped') = b
    BY <1>2, <1>5, <2>1 DEF n
  <2>3. l <= b /\ l + n + Segment <= b + FlushAt + Count
    BY <1>3, <2>1 DEF LossWithin
  <2>4. Segment \in 1..Count
    BY <1>4, <2>1 DEF AtRow
  <2>5. StreamEnds /\ ~FlushDue => n <= FlushAt - 1
    BY <1>1 DEF FlushDue, n
  <2>6. CASE pc' = "flush"
    BY <1>1, <2>2, <2>3, <2>4, <2>6 DEF LossWithin
  <2>7. CASE pc' = "read"
    <3>1. StreamEnds /\ ~FlushDue
      BY <2>1, <2>7 DEF AfterRow, StreamEnds
    <3>2. QED
      BY <1>1, <2>2, <2>3, <2>5, <2>7, <3>1 DEF LossWithin
  <2>8. CASE pc' = "row"
    <3>1. /\ Segment' \in 1..Count
          /\ ~StreamEnds => Segment' = Segment - 1
      BY <1>11, <2>8, SegmentAfterAck
    <3>2. CASE StreamEnds
      <4>1. n <= FlushAt - 1
        BY <2>1, <2>5, <2>8, <3>2 DEF AfterRow
      <4>s. \A s \in 1..Count : m <= b /\ m + n + s <= b + FlushAt - 1 + Count
        <5>1. m <= l /\ l <= b
          BY <2>2, <2>3
        <5>2. QED
          BY <1>1, <4>1, <5>1
      <4>2. m <= b /\ m + n + Segment' <= b + FlushAt - 1 + Count
        BY <3>1, <4>s, Zenon
      <4>3. QED
        BY <2>2, <2>8, <4>2 DEF LossWithin
    <3>3. CASE ~StreamEnds
      BY <1>1, <2>2, <2>3, <2>4, <2>8, <3>1, <3>3 DEF LossWithin
    <3>4. QED
      BY <3>2, <3>3
  <2>9. QED
    BY <2>1, <2>6, <2>7, <2>8 DEF AfterRow
<1>12. CASE BeginWrite
  <2>1. /\ \/ pc = "last" /\ pc' = "lastWrite"
           \/ pc = "flush" /\ pc' = "write"
        /\ UNCHANGED <<buffer, cut, skipped>>
    BY <1>12 DEF BeginWrite, Flushing, history, losses
  <2>2. m <= l /\ Len(buffer') = n /\ Allowed(cut', skipped') = b
    BY <1>2, <1>5, <2>1 DEF n
  <2>3. QED
    BY <1>1, <1>3, <2>1, <2>2 DEF LossWithin
<1>13. CASE EndWrite
  <2>1. /\ Writing /\ pc' = AfterFlush /\ buffer' = <<>>
        /\ UNCHANGED <<batch, delivered, cut, skipped>>
    BY <1>13 DEF EndWrite, BufferAfterWrite, group, history, losses
  <2>2. pc' \in {"ended", "read", "row"} /\ (pc' = "row" => batch # <<>>)
    BY <2>1, AfterFlushIs
  <2>3. m <= l /\ Len(buffer') = 0 /\ Allowed(cut', skipped') = b
    BY <1>2, <1>5, <1>6, <1>13, <2>1
  <2>4. pc' = "row" => Segment' \in 1..Count
    BY <2>1, <2>2, SegmentIs DEF Segment
  <2>5. QED
    BY <1>1, <1>3, <2>2, <2>3, <2>4 DEF LossWithin
<1>14. CASE FlushFails
  <2>1. /\ Flushing /\ pc' = AfterFlush
        /\ buffer' = (IF AfterFlush = "ended" THEN <<>> ELSE buffer)
        /\ IF AfterFlush = "ended" THEN cut' = cut + 1 /\ skipped' = skipped
           ELSE skipped' = skipped + 1 /\ cut' = cut
        /\ UNCHANGED <<batch, delivered>>
    BY <1>14 DEF FlushFails, Unflushed, Cut, Skipped, group
  <2>2. /\ pc \in {"flush", "last"}
        /\ AfterFlush = "ended" <=> pc = "last"
        /\ AfterFlush \in {"ended", "read", "row"}
        /\ AfterFlush = "row" => batch # <<>>
    BY <2>1, AfterFlushIs DEF Flushing
  <2>3. CASE pc = "last"
    <3>1. pc' = "ended" /\ Allowed(cut', skipped') = b + FlushAt - 1 + Count
      BY <1>5, <2>1, <2>2, <2>3
    <3>2. l + n <= b + FlushAt - 1
      BY <1>3, <2>3 DEF LossWithin
    <3>3. QED
      BY <1>1, <3>1, <3>2 DEF LossWithin
  <2>4. CASE pc = "flush"
    <3>1. pc' \in {"read", "row"} /\ buffer' = buffer /\ Allowed(cut', skipped') = b + Count
      BY <1>5, <2>1, <2>2, <2>4
    <3>2. m <= l /\ Len(buffer') = n
      BY <1>2, <3>1 DEF n
    <3>3. l <= b /\ l + n <= b + FlushAt - 1 + Count
      BY <1>3, <2>4 DEF LossWithin
    <3>4. pc' = "row" => Segment' \in 1..Count
      BY <2>1, <2>2, SegmentIs DEF Segment
    <3>5. QED
      BY <1>1, <3>1, <3>2, <3>3, <3>4 DEF LossWithin
  <2>5. QED
    BY <2>2, <2>3, <2>4
<1>15. CASE WriteFails
  BY <1>15 DEF WriteFails
<1>16. CASE Crash
  <2>1. pc \in Running /\ ~Writing /\ pc' = "down" /\ cut' = cut + 1 /\ skipped' = skipped
    BY <1>16 DEF Crash, Cut
  <2>2. Allowed(cut', skipped') = b + FlushAt - 1 + Count
    BY <1>5, <2>1
  <2>3. CASE pc \in AtRow
    <3>1. Segment \in 1..Count
      BY <1>4, <2>3
    <3>2. l + n <= b + FlushAt - 1 + Count
      BY <1>1, <1>3, <2>3, <3>1 DEF LossWithin, AtRow
    <3>3. QED
      BY <1>1, <2>1, <2>2, <3>2 DEF LossWithin
  <2>4. CASE pc \in {"read", "last", "flush"}
    <3>1. l + n <= b + FlushAt - 1 + Count
      BY <1>1, <1>3, <2>4 DEF LossWithin
    <3>2. QED
      BY <1>1, <2>1, <2>2, <3>1 DEF LossWithin
  <2>5. QED
    BY <2>1, <2>3, <2>4 DEF Running, Writing, AtRow
<1>17. CASE Start
  <2>1. pc' = "read" /\ buffer' = buffer /\ buffer = <<>> /\ UNCHANGED <<cut, skipped>>
    BY <1>17 DEF Start, TypeInv, PlaceInv, history, losses
  <2>2. m <= l /\ Len(buffer') = 0 /\ Allowed(cut', skipped') = b
    BY <1>2, <1>5, <1>6, <2>1
  <2>3. QED
    BY <1>1, <1>3, <2>1, <2>2 DEF LossWithin
<1>18. CASE ReadNothing \/ ReadFails \/ NothingToFlush
  <2>1. /\ pc \in {"read", "last"} /\ pc' \in {"read", "last", "ended"}
        /\ UNCHANGED <<buffer, cut, skipped>>
    BY <1>18 DEF ReadNothing, ReadFails, NothingToFlush, history, losses
  <2>2. m <= l /\ Len(buffer') = n /\ Allowed(cut', skipped') = b
    BY <1>2, <1>5, <2>1 DEF n
  <2>3. QED
    BY <1>1, <1>3, <2>1, <2>2 DEF LossWithin
<1>19. CASE Produce \/ Midnight \/ HashExpires \/ UNCHANGED vars
  <2>1. UNCHANGED <<pc, batch, delivered, buffer, cut, skipped>>
    BY <1>19 DEF Produce, Midnight, HashExpires, vars, group, process, history, losses
  <2>2. m <= l /\ Len(buffer') = n /\ Allowed(cut', skipped') = b /\ Segment' = Segment
    BY <1>2, <1>5, <2>1 DEF n, Segment
  <2>3. QED
    BY <1>1, <1>3, <1>4, <2>1, <2>2 DEF LossWithin, AtRow
<1>20. QED
  BY <1>7, <1>8, <1>9, <1>10, <1>11, <1>12, <1>13, <1>14, <1>15, <1>16, <1>17, <1>18, <1>19
     DEF Next, Consumer, Raises

\* Whatever fails or is killed, a process loses fewer than FlushAt + Count
\* acknowledged rows (a candle without a vector has none), and a flush that fails or is skipped costs at most Count,
\* unless to_parquet leaves a file without its rows.
THEOREM LittleIsLost == Spec => []LossBounded
<1>1. Init => KeptInv /\ LossInv
  <2> SUFFICES ASSUME Init PROVE KeptInv /\ LossInv
    OBVIOUS
  <2>1. pc = "read" /\ buffer = <<>> /\ cut = 0 /\ skipped = 0
    BY DEF Init
  <2>2. KeptInv
    BY <2>1 DEF KeptInv, Writing
  <2>3. Lost = {}
    <3>1. delivered = [k \in Kinds |-> 0]
      BY DEF Init
    <3>2. \A r \in Rows : ~(r[2] <= delivered[r[1]])
      BY <3>1, RowIs
    <3>3. QED
      BY <3>2 DEF Lost, AckedRows
  <2>4. Cardinality(Lost) = 0 /\ Len(buffer) = 0
    BY <2>1, <2>3, FS_EmptySet
  <2>5. Allowed(cut, skipped) \in Nat /\ FlushAt \in Nat /\ FlushAt >= 1
    BY <2>1, AllowedIs, BoundsAre
  <2>6. QED
    BY <2>1, <2>2, <2>4, <2>5 DEF LossInv, LossWithin
<1>2. LossInv => LossBounded
  BY DEF LossInv, LossWithin, LossBounded, Lost, Allowed
<1>3. QED
  BY <1>1, <1>2, InitFile, NextFile, NextKept, NextLoss, TypeInvariance, PTL DEF Spec

-----------------------------------------------------------------------------
(* After, a run of a step over inputs.                                     *)

\* A set of numbers has a least one.
LEMMA LeastOf ==
  ASSUME NEW D, D \subseteq Nat, D # {}
  PROVE  \E n \in D : \A m \in D : n <= m
<1>1. PICK n \in D : \A m \in D : ~(<<m, n>> \in OpToRel(<, Nat))
  BY NatLessThanWellFounded, WFMin
<1>2. ASSUME NEW m \in D PROVE n <= m
  <2>1. m \in Nat /\ n \in Nat
    OBVIOUS
  <2>2. m < n => <<m, n>> \in OpToRel(<, Nat)
    BY <2>1 DEF OpToRel
  <2>3. ~(m < n)
    BY <1>1, <2>2
  <2>4. QED
    BY <2>1, <2>3
<1>3. QED
  BY <1>2

\* A set that has the empty sequence, and with a sequence what one more
\* element makes of it, has all.
LEMMA AllSequences ==
  ASSUME NEW X, NEW T, <<>> \in T,
         \A s \in Seq(X) : s \in T => \A x \in X : Append(s, x) \in T
  PROVE  \A s \in Seq(X) : s \in T
<1> SUFFICES ASSUME NEW s \in Seq(X), s \notin T PROVE FALSE
  OBVIOUS
<1> DEFINE Lengths == {Len(t) : t \in Seq(X) \ T}
<1>1. Lengths \subseteq Nat /\ Len(s) \in Lengths
  OBVIOUS
<1>2. PICK n \in Lengths : \A m \in Lengths : n <= m
  <2> HIDE DEF Lengths
  <2> QED
    BY <1>1, LeastOf
<1>3. PICK t \in Seq(X) \ T : Len(t) = n
  BY <1>2
<1>4. PICK front \in Seq(X), x \in X : t = Append(front, x)
  BY <1>3, SequenceEmptyOrAppend
<1>5. Len(front) \in Lengths
  BY <1>3, <1>4
<1>6. Len(t) = Len(front) + 1 /\ Len(front) \in Nat
  BY <1>4
<1> HIDE DEF Lengths
<1>7. n <= Len(front)
  BY <1>2, <1>5
<1>8. QED
  BY <1>3, <1>6, <1>7

\* The states at each place of the inputs, up to the n-th.
Follows(f, step, state, inputs, n) ==
    \A i \in 0..n : f[i] = IF i = 0 THEN state ELSE step[<<f[i - 1], inputs[i]>>]

\* A run of step on inputs is what After picks, and each state of it follows from
\* the one before.
IsRun(f, step, state, inputs) ==
    f = [i \in 0..Len(inputs) |-> IF i = 0 THEN state ELSE step[<<f[i - 1], inputs[i]>>]]

RunOf(step, state, inputs) == CHOOSE f : IsRun(f, step, state, inputs)

LEMMA RunFollows ==
  ASSUME NEW X, NEW s \in Seq(X), NEW step, NEW state, NEW f, IsRun(f, step, state, s)
  PROVE  Follows(f, step, state, s, Len(s))
<1> DEFINE n == Len(s)
           g == [j \in 0..n |-> IF j = 0 THEN state ELSE step[<<f[j - 1], s[j]>>]]
<1> SUFFICES ASSUME NEW i \in 0..n
             PROVE  f[i] = IF i = 0 THEN state ELSE step[<<f[i - 1], s[i]>>]
  BY DEF Follows
<1>1. g[i] = IF i = 0 THEN state ELSE step[<<f[i - 1], s[i]>>]
  OBVIOUS
<1>2. f = g
  BY DEF IsRun
<1> HIDE DEF g
<1>3. QED
  BY <1>1, <1>2

\* Every sequence has a run.
LEMMA RunExists ==
  ASSUME NEW X, NEW step, NEW state
  PROVE  \A inputs \in Seq(X) : \E f : IsRun(f, step, state, inputs)
<1> DEFINE T == {inputs \in Seq(X) : \E f : IsRun(f, step, state, inputs)}
<1>1. <<>> \in T
  <2>1. IsRun([i \in 0..0 |-> state], step, state, <<>>)
    BY DEF IsRun
  <2>2. QED
    BY <2>1
<1>2. ASSUME NEW s \in Seq(X), s \in T, NEW x \in X PROVE Append(s, x) \in T
  <2>1. PICK f : IsRun(f, step, state, s)
    BY <1>2
  <2> DEFINE n == Len(s)
             t == Append(s, x)
             g == [i \in 0..(n + 1) |-> IF i <= n THEN f[i] ELSE step[<<f[n], x>>]]
  <2>2. n \in Nat /\ Len(t) = n + 1 /\ t \in Seq(X) /\ t[n + 1] = x /\ \A i \in 1..n : t[i] = s[i]
    OBVIOUS
  <2>3. \A i \in 0..n : f[i] = IF i = 0 THEN state ELSE step[<<f[i - 1], s[i]>>]
    BY <2>1, RunFollows DEF Follows
  <2> HIDE DEF n, t
  <2>4. ASSUME NEW i \in 0..(n + 1)
        PROVE  g[i] = IF i = 0 THEN state ELSE step[<<g[i - 1], t[i]>>]
    <3>1. CASE i = 0
      <4>1. g[0] = f[0] /\ 0 \in 0..n
        BY <2>2
      <4>2. QED
        BY <2>3, <3>1, <4>1
    <3>2. CASE i \in 1..n
      <4>1. i - 1 \in 0..n /\ i \in 0..n /\ i # 0
        BY <2>2, <3>2
      <4>2. g[i] = f[i] /\ g[i - 1] = f[i - 1]
        BY <2>2, <4>1
      <4>3. QED
        BY <2>2, <2>3, <3>2, <4>1, <4>2
    <3>3. CASE i = n + 1
      <4>1. g[i] = step[<<f[n], x>>] /\ g[i - 1] = f[n] /\ i # 0
        BY <2>2, <3>3
      <4>2. QED
        BY <2>2, <3>3, <4>1
    <3>4. QED
      BY <2>2, <3>1, <3>2, <3>3
  <2>5. IsRun(g, step, state, t)
    <3>1. g = [i \in 0..(n + 1) |-> g[i]]
      OBVIOUS
    <3> HIDE DEF g
    <3>2. g = [i \in 0..(n + 1) |-> IF i = 0 THEN state ELSE step[<<g[i - 1], t[i]>>]]
      BY <2>4, <3>1
    <3>3. QED
      BY <2>2, <3>2 DEF IsRun
  <2>6. QED
    BY <2>2, <2>5 DEF t
<1>3. \A s \in Seq(X) : s \in T
  <2> HIDE DEF T
  <2> QED
    BY <1>1, <1>2, AllSequences
<1>4. QED
  BY <1>3

\* What After stands for.
LEMMA AfterIs ==
  ASSUME NEW X, NEW step, NEW state
  PROVE  \A s \in Seq(X) :
            \E f : Follows(f, step, state, s, Len(s)) /\ After(step, state, s) = f[Len(s)]
<1> TAKE s \in Seq(X)
<1> DEFINE f == RunOf(step, state, s)
<1>1. IsRun(f, step, state, s)
  BY RunExists DEF RunOf
<1>2. After(step, state, s) = f[Len(s)]
  BY DEF After, RunOf, IsRun
<1> HIDE DEF f
<1>3. QED
  BY <1>1, <1>2, RunFollows

\* Two runs of the same inputs are the same.
LEMMA RunsAgree ==
  ASSUME NEW step, NEW state, NEW s, NEW n \in Nat, NEW f, NEW g,
         Follows(f, step, state, s, n), Follows(g, step, state, s, n)
  PROVE  f[n] = g[n]
<1> DEFINE D == {i \in 0..n : f[i] # g[i]}
<1> SUFFICES ASSUME D # {} PROVE FALSE
  OBVIOUS
<1>1. D \subseteq Nat
  OBVIOUS
<1>2. PICK i \in D : \A j \in D : i <= j
  <2> HIDE DEF D
  <2> QED
    BY <1>1, LeastOf
<1>3. i \in 0..n /\ i # 0
  BY <1>2 DEF Follows
<1>4. i - 1 \in 0..n /\ i - 1 \notin D
  BY <1>2, <1>3
<1>5. f[i - 1] = g[i - 1]
  BY <1>4
<1>6. QED
  BY <1>2, <1>3, <1>5 DEF Follows

\* After no inputs, and after one more.
LEMMA AfterNone ==
  ASSUME NEW step, NEW state
  PROVE  After(step, state, <<>>) = state
<1>1. <<>> \in Seq({}) /\ Len(<<>>) = 0 /\ 0 \in 0..0
  OBVIOUS
<1>2. PICK f : /\ Follows(f, step, state, <<>>, Len(<<>>))
               /\ After(step, state, <<>>) = f[Len(<<>>)]
  <2>1. \A s \in Seq({}) : \E f : Follows(f, step, state, s, Len(s)) /\ After(step, state, s) = f[Len(s)]
    BY AfterIs
  <2>2. QED
    BY <1>1, <2>1
<1>3. f[0] = state
  BY <1>1, <1>2 DEF Follows
<1>4. QED
  BY <1>2, <1>3

LEMMA AfterStep ==
  ASSUME NEW X, NEW step, NEW state, NEW s \in Seq(X), NEW x \in X
  PROVE  After(step, state, Append(s, x)) = step[<<After(step, state, s), x>>]
<1> DEFINE t == Append(s, x)
           n == Len(s)
<1>1. /\ t \in Seq(X) /\ n \in Nat /\ Len(t) = n + 1
      /\ t[n + 1] = x /\ \A i \in 1..n : t[i] = s[i]
  OBVIOUS
<1>2. PICK f : Follows(f, step, state, s, n) /\ After(step, state, s) = f[n]
  BY AfterIs
<1> HIDE DEF t, n
<1>3. PICK g : Follows(g, step, state, t, n + 1) /\ After(step, state, t) = g[n + 1]
  <2>1. \A r \in Seq(X) : \E g : Follows(g, step, state, r, Len(r)) /\ After(step, state, r) = g[Len(r)]
    BY AfterIs
  <2>2. QED
    BY <1>1, <2>1
<1>4. Follows(g, step, state, s, n)
  <2> SUFFICES ASSUME NEW i \in 0..n PROVE g[i] = IF i = 0 THEN state ELSE step[<<g[i - 1], s[i]>>]
    BY DEF Follows
  <2>1. i \in 0..(n + 1) /\ (i # 0 => i \in 1..n)
    BY <1>1
  <2>2. QED
    BY <1>1, <1>3, <2>1 DEF Follows
<1>5. f[n] = g[n]
  BY <1>1, <1>2, <1>4, RunsAgree
<1>6. g[n + 1] = step[<<g[n], x>>]
  <2>1. n + 1 \in 0..(n + 1) /\ n + 1 # 0 /\ (n + 1) - 1 = n
    BY <1>1
  <2>2. QED
    BY <1>1, <1>3, <2>1 DEF Follows
<1>7. QED
  BY <1>2, <1>3, <1>5, <1>6 DEF t

\* What a step keeps holds after any inputs.
LEMMA AfterType ==
  ASSUME NEW X, NEW S, NEW state \in S, NEW step \in [S \X X -> S]
  PROVE  \A s \in Seq(X) : After(step, state, s) \in S
<1> DEFINE T == {s \in Seq(X) : After(step, state, s) \in S}
<1>1. <<>> \in T
  BY AfterNone
<1>2. ASSUME NEW s \in Seq(X), s \in T, NEW x \in X PROVE Append(s, x) \in T
  <2>1. After(step, state, Append(s, x)) = step[<<After(step, state, s), x>>]
    BY AfterStep
  <2>2. QED
    BY <1>2, <2>1
<1>3. \A s \in Seq(X) : s \in T
  <2> HIDE DEF T
  <2> QED
    BY <1>1, <1>2, AllSequences
<1>4. QED
  BY <1>3

(* Totals.                                                                 *)

\* A total, entry by entry.
LEMMA TotalIs ==
  /\ Total(<<>>) = 0
  /\ \A s \in Seq(Int) : Total(s) \in Int
  /\ \A s \in Seq(Int), x \in Int : Total(Append(s, x)) = Total(s) + x
<1> DEFINE plus == [p \in Int \X Int |-> p[1] + p[2]]
<1>1. plus \in [Int \X Int -> Int]
  OBVIOUS
<1>2. \A a, x \in Int : plus[<<a, x>>] = a + x
  OBVIOUS
<1>3. \A s : Total(s) = After(plus, 0, s)
  BY DEF Total
<1> HIDE DEF plus
<1>4. \A s \in Seq(Int) : Total(s) \in Int
  <2>1. 0 \in Int
    OBVIOUS
  <2>2. \A s \in Seq(Int) : After(plus, 0, s) \in Int
    BY <1>1, <2>1, AfterType
  <2>3. QED
    BY <1>3, <2>2
<1>5. ASSUME NEW s \in Seq(Int), NEW x \in Int PROVE Total(Append(s, x)) = Total(s) + x
  <2>1. Total(Append(s, x)) = plus[<<Total(s), x>>]
    BY <1>3, AfterStep
  <2>2. QED
    BY <1>2, <1>4, <2>1
<1>6. QED
  BY <1>3, <1>4, <1>5, AfterNone

\* The last of some elements, and those before it.
LEMMA SplitLast ==
  ASSUME NEW X, NEW t \in Seq(X), NEW n \in Nat, Len(t) = n + 1
  PROVE  \E front \in Seq(X), x \in X :
            /\ t = Append(front, x) /\ Len(front) = n
            /\ x = t[n + 1] /\ \A i \in 1..n : front[i] = t[i]
<1>1. t # <<>>
  OBVIOUS
<1>2. PICK front \in Seq(X), x \in X : t = Append(front, x)
  BY <1>1, SequenceEmptyOrAppend
<1>3. Len(front) = n
  BY <1>2
<1>4. QED
  BY <1>2, <1>3

\* u is a combination of s and t.
Linear(s, t, u, a, b) ==
    Len(t) = Len(s) /\ Len(u) = Len(s) /\ \A i \in 1..Len(s) : u[i] = a * s[i] + b * t[i]

\* The total of a combination is the combination of the totals.
LEMMA TotalLinear ==
  ASSUME NEW a \in Int, NEW b \in Int
  PROVE  \A s, t, u \in Seq(Int) :
            Linear(s, t, u, a, b) => Total(u) = a * Total(s) + b * Total(t)
<1> DEFINE T == {s \in Seq(Int) : \A t, u \in Seq(Int) :
                    Linear(s, t, u, a, b) => Total(u) = a * Total(s) + b * Total(t)}
<1>1. <<>> \in T
  <2>1. ASSUME NEW t \in Seq(Int), NEW u \in Seq(Int), Linear(<<>>, t, u, a, b)
        PROVE  Total(u) = a * Total(<<>>) + b * Total(t)
    <3>1. t = <<>> /\ u = <<>>
      BY <2>1 DEF Linear
    <3>2. QED
      BY <3>1, TotalIs
  <2>2. QED
    BY <2>1
<1>2. ASSUME NEW s \in Seq(Int), s \in T, NEW x \in Int PROVE Append(s, x) \in T
  <2> SUFFICES ASSUME NEW t \in Seq(Int), NEW u \in Seq(Int), Linear(Append(s, x), t, u, a, b)
               PROVE  Total(u) = a * Total(Append(s, x)) + b * Total(t)
    OBVIOUS
  <2>1. /\ Len(s) \in Nat /\ Len(t) = Len(s) + 1 /\ Len(u) = Len(s) + 1
        /\ \A i \in 1..(Len(s) + 1) : u[i] = a * Append(s, x)[i] + b * t[i]
    BY DEF Linear
  <2>2. PICK t1 \in Seq(Int), y \in Int :
            /\ t = Append(t1, y) /\ Len(t1) = Len(s)
            /\ y = t[Len(s) + 1] /\ \A i \in 1..Len(s) : t1[i] = t[i]
    BY <2>1, SplitLast
  <2>3. PICK u1 \in Seq(Int), z \in Int :
            /\ u = Append(u1, z) /\ Len(u1) = Len(s)
            /\ z = u[Len(s) + 1] /\ \A i \in 1..Len(s) : u1[i] = u[i]
    BY <2>1, SplitLast
  <2>4. z = a * x + b * y
    <3>1. Len(s) + 1 \in 1..(Len(s) + 1) /\ Append(s, x)[Len(s) + 1] = x
      BY <2>1
    <3>2. QED
      BY <2>1, <2>2, <2>3, <3>1
  <2>5. Linear(s, t1, u1, a, b)
    <3>1. ASSUME NEW i \in 1..Len(s) PROVE u1[i] = a * s[i] + b * t1[i]
      <4>1. i \in 1..(Len(s) + 1) /\ Append(s, x)[i] = s[i]
        BY <2>1
      <4>2. QED
        BY <2>1, <2>2, <2>3, <4>1
    <3>2. QED
      BY <2>2, <2>3, <3>1 DEF Linear
  <2>6. Total(u1) = a * Total(s) + b * Total(t1)
    BY <1>2, <2>5
  <2>7. Total(u) = Total(u1) + z /\ Total(t) = Total(t1) + y /\ Total(Append(s, x)) = Total(s) + x
    BY <2>2, <2>3, TotalIs
  <2>8. Total(s) \in Int /\ Total(t1) \in Int
    BY TotalIs
  <2>9. a * (Total(s) + x) = a * Total(s) + a * x /\ b * (Total(t1) + y) = b * Total(t1) + b * y
    BY <2>8
  <2>10. QED
    BY <2>4, <2>6, <2>7, <2>8, <2>9
<1>3. \A s \in Seq(Int) : s \in T
  <2> HIDE DEF T
  <2> QED
    BY <1>1, <1>2, AllSequences
<1>4. QED
  BY <1>3

\* Of numbers that are not negative, none is more than the total.
LEMMA TotalBounds ==
  \A s \in Seq(Nat) : Total(s) \in Nat /\ \A i \in 1..Len(s) : s[i] <= Total(s)
<1> DEFINE T == {s \in Seq(Nat) : Total(s) \in Nat /\ \A i \in 1..Len(s) : s[i] <= Total(s)}
<1>1. <<>> \in T
  BY TotalIs
<1>2. ASSUME NEW s \in Seq(Nat), s \in T, NEW x \in Nat PROVE Append(s, x) \in T
  <2>1. Total(Append(s, x)) = Total(s) + x
    <3>1. s \in Seq(Int) /\ x \in Int
      OBVIOUS
    <3>2. QED
      BY <3>1, TotalIs
  <2>2. ASSUME NEW i \in 1..Len(Append(s, x)) PROVE Append(s, x)[i] <= Total(s) + x
    <3>1. CASE i \in 1..Len(s)
      BY <1>2, <3>1
    <3>2. CASE i = Len(s) + 1
      BY <1>2, <3>2
    <3>3. QED
      BY <3>1, <3>2
  <2>3. Append(s, x) \in Seq(Nat) /\ Total(s) + x \in Nat
    BY <1>2
  <2>4. QED
    BY <2>1, <2>2, <2>3
<1>3. \A s \in Seq(Nat) : s \in T
  <2> HIDE DEF T
  <2> QED
    BY <1>1, <1>2, AllSequences
<1>4. QED
  BY <1>3

\* n ones.
LEMMA TotalOnes == \A s \in Seq({1}) : Total(s) = Len(s)
<1> DEFINE T == {s \in Seq({1}) : Total(s) = Len(s)}
<1>1. <<>> \in T
  BY TotalIs
<1>2. ASSUME NEW s \in Seq({1}), s \in T, NEW x \in {1} PROVE Append(s, x) \in T
  <2>1. Total(Append(s, x)) = Total(s) + x
    <3>1. s \in Seq(Int) /\ x \in Int
      OBVIOUS
    <3>2. QED
      BY <3>1, TotalIs
  <2>2. QED
    BY <1>2, <2>1
<1>3. \A s \in Seq({1}) : s \in T
  <2> HIDE DEF T
  <2> QED
    BY <1>1, <1>2, AllSequences
<1>4. QED
  BY <1>3

\* A combination that is nowhere negative has no negative total.
LEMMA TotalCombined ==
  ASSUME NEW a \in Int, NEW b \in Int, NEW s \in Seq(Int), NEW t \in Seq(Int), Len(t) = Len(s),
         \A i \in 1..Len(s) : a * s[i] + b * t[i] >= 0
  PROVE  a * Total(s) + b * Total(t) >= 0
<1> DEFINE u == [i \in 1..Len(s) |-> a * s[i] + b * t[i]]
<1>1. Len(s) \in Nat /\ \A i \in 1..Len(s) : s[i] \in Int /\ t[i] \in Int
  OBVIOUS
<1>2. \A i \in 1..Len(s) : a * s[i] + b * t[i] \in Nat
  BY <1>1
<1>3. u \in Seq(Nat) /\ u \in Seq(Int) /\ Len(u) = Len(s) /\ \A i \in 1..Len(s) : u[i] = a * s[i] + b * t[i]
  BY <1>1, <1>2
<1> HIDE DEF u
<1>4. Linear(s, t, u, a, b)
  BY <1>3 DEF Linear
<1>5. Total(u) = a * Total(s) + b * Total(t)
  BY <1>3, <1>4, TotalLinear
<1>6. Total(u) \in Nat
  BY <1>3, TotalBounds
<1>7. QED
  BY <1>5, <1>6

\* An average is within the values that have a weight.
LEMMA Averages ==
  ASSUME NEW n \in Nat, NEW c \in Seq(Int), NEW v \in Seq(Nat), NEW m \in Seq(Int),
         Len(c) = n, Len(v) = n, Len(m) = n, \A i \in 1..n : m[i] = c[i] * v[i],
         Total(v) > 0
  PROVE  /\ \E i \in 1..n : v[i] > 0 /\ c[i] * Total(v) <= Total(m)
         /\ \E i \in 1..n : v[i] > 0 /\ Total(m) <= c[i] * Total(v)
<1> DEFINE V == Total(v)
           N == Total(m)
<1>1. V \in Nat /\ N \in Int /\ v \in Seq(Int)
  BY TotalBounds, TotalIs
<1>2. \A i \in 1..n : c[i] \in Int /\ v[i] \in Nat /\ m[i] = c[i] * v[i]
  OBVIOUS
<1>3. V > 0
  OBVIOUS
<1> HIDE DEF V, N
<1>4. \E i \in 1..n : v[i] > 0 /\ c[i] * V <= N
  <2> SUFFICES ASSUME \A i \in 1..n : v[i] > 0 => c[i] * V >= N + 1 PROVE FALSE
    BY <1>1, <1>2
  <2>1. ASSUME NEW i \in 1..n PROVE V * m[i] + (-(N + 1)) * v[i] >= 0
    <3>1. CASE v[i] = 0
      BY <1>1, <1>2, <3>1
    <3>2. CASE v[i] > 0
      <4> DEFINE k == c[i] * V
                 d == k - (N + 1)
      <4>1. k \in Int /\ k >= N + 1
        BY <1>1, <1>2, <3>2
      <4>2. V * (c[i] * v[i]) + (-(N + 1)) * v[i] = d * v[i]
        BY <1>1, <1>2
      <4> HIDE DEF k
      <4>3. d \in Nat
        BY <1>1, <4>1
      <4> HIDE DEF d
      <4>4. d * v[i] >= 0
        BY <1>2, <4>3
      <4>5. QED
        BY <1>2, <4>2, <4>4
    <3>3. QED
      BY <1>2, <3>1, <3>2
  <2>2. V \in Int /\ -(N + 1) \in Int
    BY <1>1
  <2>3. V * N + (-(N + 1)) * V >= 0
    BY <1>1, <2>1, <2>2, TotalCombined DEF V, N
  <2>4. QED
    BY <1>1, <1>3, <2>3
<1>5. \E i \in 1..n : v[i] > 0 /\ N <= c[i] * V
  <2> SUFFICES ASSUME \A i \in 1..n : v[i] > 0 => c[i] * V <= N - 1 PROVE FALSE
    BY <1>1, <1>2
  <2>1. ASSUME NEW i \in 1..n PROVE (-V) * m[i] + (N - 1) * v[i] >= 0
    <3>1. CASE v[i] = 0
      BY <1>1, <1>2, <3>1
    <3>2. CASE v[i] > 0
      <4> DEFINE k == c[i] * V
                 d == (N - 1) - k
      <4>1. k \in Int /\ k <= N - 1
        BY <1>1, <1>2, <3>2
      <4>2. (-V) * (c[i] * v[i]) + (N - 1) * v[i] = d * v[i]
        BY <1>1, <1>2
      <4> HIDE DEF k
      <4>3. d \in Nat
        BY <1>1, <4>1
      <4> HIDE DEF d
      <4>4. d * v[i] >= 0
        BY <1>2, <4>3
      <4>5. QED
        BY <1>2, <4>2, <4>4
    <3>3. QED
      BY <1>2, <3>1, <3>2
  <2>2. -V \in Int /\ N - 1 \in Int
    BY <1>1
  <2>3. (-V) * N + (N - 1) * V >= 0
    BY <1>1, <2>1, <2>2, TotalCombined DEF V, N
  <2>4. QED
    BY <1>1, <1>3, <2>3
<1>6. QED
  BY <1>4, <1>5 DEF V, N

\* So is a mean.
LEMMA MeanWithin ==
  ASSUME NEW c \in Seq(Int), c # <<>>
  PROVE  /\ SafeMean(c) = <<Total(c), Len(c)>> /\ Len(c) \in Nat \ {0} /\ Total(c) \in Int
         /\ Within(SafeMean(c), ToSet(c))
<1> DEFINE n == Len(c)
           ones == [i \in 1..n |-> 1]
<1>1. n \in Nat /\ n > 0 /\ \A i \in 1..n : c[i] \in Int
  OBVIOUS
<1>2. /\ ones \in Seq({1}) /\ ones \in Seq(Nat) /\ Len(ones) = n /\ \A i \in 1..n : ones[i] = 1
  BY <1>1
<1> HIDE DEF ones
<1>3. Total(ones) = n
  BY <1>2, TotalOnes
<1>4. /\ \E i \in 1..n : c[i] * Total(ones) <= Total(c)
      /\ \E i \in 1..n : Total(c) <= c[i] * Total(ones)
  <2>1. \A i \in 1..n : c[i] = c[i] * ones[i]
    BY <1>1, <1>2
  <2>2. Total(ones) > 0
    BY <1>1, <1>3
  <2>3. QED
    BY <1>1, <1>2, <2>1, <2>2, Averages
<1>5. SafeMean(c) = <<Total(c), n>> /\ Total(c) \in Int
  BY TotalIs DEF SafeMean
<1>6. \A i \in 1..n : c[i] \in ToSet(c)
  BY DEF ToSet
<1>7. Within(SafeMean(c), ToSet(c))
  <2>1. PICK i \in 1..n : c[i] * n <= Total(c)
    BY <1>3, <1>4
  <2>2. PICK j \in 1..n : Total(c) <= c[j] * n
    BY <1>3, <1>4
  <2>3. AtMost(<<c[i], 1>>, SafeMean(c)) /\ AtMost(SafeMean(c), <<c[j], 1>>)
    BY <1>1, <1>5, <2>1, <2>2 DEF AtMost
  <2>4. QED
    BY <1>6, <2>3 DEF Within
<1>8. QED
  BY <1>1, <1>5, <1>7

\* A total is within the number of values times their bounds.
LEMMA TotalWithin ==
  ASSUME NEW c \in Seq(Int), NEW lo \in Int, NEW hi \in Int,
         \A i \in 1..Len(c) : lo <= c[i] /\ c[i] <= hi
  PROVE  lo * Len(c) <= Total(c) /\ Total(c) <= hi * Len(c)
<1> DEFINE n == Len(c)
           ones == [i \in 1..n |-> 1]
<1>1. n \in Nat /\ Total(c) \in Int /\ \A i \in 1..n : c[i] \in Int
  BY TotalIs
<1>2. /\ ones \in Seq({1}) /\ ones \in Seq(Int) /\ Len(ones) = n /\ \A i \in 1..n : ones[i] = 1
  BY <1>1
<1> HIDE DEF ones
<1>3. Total(ones) = n
  BY <1>2, TotalOnes
<1>4. lo * n <= Total(c)
  <2>1. \A i \in 1..n : 1 * c[i] + (-lo) * ones[i] >= 0
    BY <1>1, <1>2
  <2>2. 1 * Total(c) + (-lo) * Total(ones) >= 0
    BY <1>2, <2>1, TotalCombined
  <2>3. QED
    BY <1>1, <1>3, <2>2
<1>5. Total(c) <= hi * n
  <2>1. \A i \in 1..n : (-1) * c[i] + hi * ones[i] >= 0
    BY <1>1, <1>2
  <2>2. (-1) * Total(c) + hi * Total(ones) >= 0
    BY <1>2, <2>1, TotalCombined
  <2>3. QED
    BY <1>1, <1>3, <2>2
<1>6. QED
  BY <1>4, <1>5

\* The deviations of at least two values are all 0 when they are the same.
LEMMA VarianceZero ==
  ASSUME NEW c \in Seq(Int), Len(c) > 1
  PROVE  Variance(c)[1] = 0 <=> Cardinality(ToSet(c)) = 1
<1> DEFINE n == Len(c)
           d == [i \in 1..n |-> n * c[i] - Total(c)]
           q == [i \in 1..n |-> d[i] * d[i]]
<1>1. n \in Nat /\ n > 1 /\ Total(c) \in Int /\ \A i \in 1..n : c[i] \in Int
  BY TotalIs
<1>2. \A i \in 1..n : d[i] = n * c[i] - Total(c) /\ d[i] \in Int
  BY <1>1
<1>3. Variance(c)[1] = Total(q)
  BY <1>1 DEF Variance
<1> HIDE DEF d
<1>4. q \in Seq(Nat) /\ Len(q) = n /\ \A i \in 1..n : q[i] = d[i] * d[i]
  <2>1. \A i \in 1..n : d[i] * d[i] \in Nat
    BY <1>2
  <2>2. QED
    BY <1>1, <2>1
<1> HIDE DEF q
<1>5. Total(q) = 0 <=> \A i \in 1..n : d[i] = 0
  <2>1. Total(q) \in Nat /\ \A i \in 1..n : q[i] <= Total(q)
    BY <1>4, TotalBounds
  <2>2. ASSUME Total(q) = 0, NEW i \in 1..n PROVE d[i] = 0
    <3>1. q[i] \in Nat /\ q[i] <= 0
      BY <1>4, <2>1, <2>2
    <3>2. d[i] * d[i] = 0
      BY <1>4, <3>1
    <3>3. QED
      BY <1>2, <3>2
  <2>3. ASSUME \A i \in 1..n : d[i] = 0 PROVE Total(q) = 0
    <3>1. \A i \in 1..n : 0 <= q[i] /\ q[i] <= 0
      BY <1>4, <2>3
    <3>2. q \in Seq(Int)
      BY <1>4
    <3>3. 0 * n <= Total(q) /\ Total(q) <= 0 * n
      BY <1>4, <3>1, <3>2, TotalWithin
    <3>4. QED
      BY <1>1, <2>1, <3>3
  <2>4. QED
    BY <2>2, <2>3
<1>6. ToSet(c) = {c[i] : i \in 1..n} /\ IsFiniteSet(ToSet(c))
  <2>1. ToSet(c) = {c[i] : i \in 1..n}
    BY DEF ToSet
  <2>2. c \in Surjection(1..n, ToSet(c))
    BY <1>1, <2>1 DEF Surjection
  <2>3. IsFiniteSet(1..n)
    BY <1>1, FS_Interval
  <2>4. QED
    BY <2>1, <2>2, <2>3, FS_Surjection
<1>7. ASSUME \A i \in 1..n : d[i] = 0 PROVE Cardinality(ToSet(c)) = 1
  <2>1. ASSUME NEW i \in 1..n PROVE c[i] = c[1]
    <3>1. 1 \in 1..n /\ c[i] \in Int /\ c[1] \in Int
      BY <1>1
    <3>2. n * c[i] - Total(c) = 0 /\ n * c[1] - Total(c) = 0
      BY <1>2, <1>7, <3>1
    <3>3. \A a, b \in Int, m \in Nat : m > 1 /\ m * a = m * b => a = b
      OBVIOUS
    <3>4. n * c[i] \in Int /\ n * c[1] \in Int
      BY <1>1, <3>1
    <3>5. n * c[i] = n * c[1]
      BY <1>1, <3>2, <3>4
    <3>6. QED
      BY <1>1, <3>1, <3>3, <3>5
  <2>2. ToSet(c) = {c[1]}
    BY <1>1, <1>6, <2>1
  <2>3. QED
    BY <2>2, FS_Singleton
<1>8. ASSUME Cardinality(ToSet(c)) = 1, NEW i \in 1..n PROVE d[i] = 0
  <2>1. PICK x : ToSet(c) = {x}
    BY <1>6, <1>8, FS_Singleton
  <2>2. \A j \in 1..n : c[j] = x
    BY <1>6, <2>1
  <2>3. x \in Int
    BY <1>1, <2>2
  <2>4. x * n <= Total(c) /\ Total(c) <= x * n
    <3>1. \A j \in 1..n : x <= c[j] /\ c[j] <= x
      BY <2>2, <2>3
    <3>2. QED
      BY <2>3, <3>1, TotalWithin
  <2>5. QED
    BY <1>1, <1>2, <2>2, <2>3, <2>4
<1>9. QED
  BY <1>3, <1>5, <1>7, <1>8

-----------------------------------------------------------------------------
(* Columns, windows, and the inputs that are valid.                        *)

\* What a column of a window is.
Typed(X, field, V) == \A x \in X : x[field] \in V

LEMMA ColumnIs ==
  ASSUME NEW X, NEW V, NEW field, Typed(X, field, V)
  PROVE  \A s \in Seq(X) :
            /\ Column(s, field) \in Seq(V) /\ Len(Column(s, field)) = Len(s)
            /\ \A i \in 1..Len(s) : Column(s, field)[i] = s[i][field]
            /\ ToSet(Column(s, field)) = {s[i][field] : i \in 1..Len(s)}
<1> TAKE s \in Seq(X)
<1> DEFINE c == [i \in 1..Len(s) |-> s[i][field]]
<1>1. Len(s) \in Nat /\ \A i \in 1..Len(s) : s[i] \in X /\ s[i][field] \in V
  BY DEF Typed
<1>2. Column(s, field) = c
  BY DEF Column
<1>3. c \in Seq(V) /\ Len(c) = Len(s) /\ \A i \in 1..Len(s) : c[i] = s[i][field]
  BY <1>1
<1>4. ToSet(c) = {c[i] : i \in 1..Len(s)}
  BY DEF ToSet
<1>5. QED
  BY <1>2, <1>3, <1>4

LEMMA ColumnAppend ==
  ASSUME NEW X, NEW V, NEW field, Typed(X, field, V), NEW s \in Seq(X), NEW x \in X
  PROVE  Column(Append(s, x), field) = Append(Column(s, field), x[field])
<1> DEFINE n == Len(s)
           a == Append(s, x)
           c == Column(s, field)
           d == Column(a, field)
           e == Append(c, x[field])
<1>1. /\ a \in Seq(X) /\ Len(a) = n + 1 /\ n \in Nat /\ a[n + 1] = x
      /\ \A i \in 1..n : a[i] = s[i]
  OBVIOUS
<1>2. c \in Seq(V) /\ Len(c) = n /\ \A i \in 1..n : c[i] = s[i][field]
  BY ColumnIs
<1>3. d \in Seq(V) /\ Len(d) = n + 1 /\ \A i \in 1..(n + 1) : d[i] = a[i][field]
  <2> HIDE DEF a, n
  <2>1. d \in Seq(V) /\ Len(d) = Len(a) /\ \A i \in 1..Len(a) : d[i] = a[i][field]
    BY <1>1, ColumnIs
  <2>2. QED
    BY <1>1, <2>1
<1>4. x[field] \in V
  BY DEF Typed
<1>5. e \in Seq(V) /\ Len(e) = n + 1 /\ e[n + 1] = x[field] /\ \A i \in 1..n : e[i] = c[i]
  BY <1>2, <1>4
<1> HIDE DEF n, a, c, d, e
<1>6. ASSUME NEW i \in 1..(n + 1) PROVE d[i] = e[i]
  <2>1. i \in 1..n \/ i = n + 1
    BY <1>1
  <2>2. QED
    BY <1>1, <1>2, <1>3, <1>5, <2>1
<1>7. d = e
  BY <1>3, <1>5, <1>6, SeqEqual
<1>8. QED
  BY <1>7 DEF a, c, d, e

\* At most w elements, the last of a sequence.
AreLast(d, s, w) ==
    /\ Len(d) = IF Len(s) <= w THEN Len(s) ELSE w
    /\ \A i \in 1..Len(d) : d[i] = s[Len(s) - Len(d) + i]

\* The last entries.
LEMMA LastOfIs ==
  ASSUME NEW X, NEW s \in Seq(X), NEW w \in Nat
  PROVE  LastOf(s, w) \in Seq(X) /\ AreLast(LastOf(s, w), s, w)
<1>1. Len(s) \in Nat
  OBVIOUS
<1>2. CASE Len(s) <= w
  <2>1. LastOf(s, w) = s
    BY <1>2 DEF LastOf
  <2>2. \A i \in 1..Len(s) : Len(s) - Len(s) + i = i
    BY <1>1
  <2>3. QED
    BY <1>2, <2>1, <2>2 DEF AreLast
<1>3. CASE Len(s) > w
  <2> DEFINE a == Len(s) - w + 1
             t == SubSeq(s, a, Len(s))
  <2>1. a \in Int /\ a \in 1..(Len(s) + 1) /\ \A i \in a..Len(s) : s[i] \in X
    BY <1>1, <1>3
  <2>2. /\ t \in Seq(X) /\ Len(t) = (IF a <= Len(s) THEN Len(s) - a + 1 ELSE 0)
        /\ \A i \in 1..(Len(s) - a + 1) : t[i] = s[a + i - 1]
    BY <1>1, <2>1, SubSeqProperties
  <2>3. LastOf(s, w) = t
    BY <1>1, <1>3 DEF LastOf
  <2>4. Len(t) = w /\ Len(s) - a + 1 = w
    BY <1>1, <1>3, <2>2
  <2>5. \A i \in 1..w : a + i - 1 = Len(s) - w + i
    BY <1>1
  <2> HIDE DEF t, a
  <2>6. QED
    BY <1>1, <1>3, <2>2, <2>3, <2>4, <2>5 DEF AreLast
<1>4. QED
  BY <1>1, <1>2, <1>3

\* A deque of the last w elements slides to the last w.
LEMMA SlideLast ==
  ASSUME NEW X, NEW s \in Seq(X), NEW x \in X, NEW w \in Nat \ {0}
  PROVE  Slide(LastOf(s, w), x, w) = LastOf(Append(s, x), w)
<1> DEFINE d == LastOf(s, w)
           n == Len(s)
           a == Append(s, x)
           e == LastOf(a, w)
           u == IF Len(d) = w THEN Tail(d) ELSE d
<1>1. /\ n \in Nat /\ d \in Seq(X) /\ Len(d) = (IF n <= w THEN n ELSE w)
      /\ \A i \in 1..Len(d) : d[i] = s[n - Len(d) + i]
  BY LastOfIs DEF AreLast
<1>2. /\ a \in Seq(X) /\ Len(a) = n + 1 /\ a[n + 1] = x /\ \A i \in 1..n : a[i] = s[i]
  OBVIOUS
<1>3. Slide(d, x, w) = Append(u, x) /\ u = IF Len(d) = w THEN Tail(d) ELSE d
  BY DEF Slide
<1> HIDE DEF u, d, n, a
<1>4. /\ e \in Seq(X) /\ Len(e) = (IF n + 1 <= w THEN n + 1 ELSE w)
      /\ \A i \in 1..Len(e) : e[i] = a[n + 1 - Len(e) + i]
  <2>1. e \in Seq(X) /\ AreLast(e, a, w)
    BY <1>2, LastOfIs
  <2> HIDE DEF e
  <2>2. QED
    BY <1>1, <1>2, <2>1 DEF AreLast
<1> HIDE DEF e
<1>5. /\ u \in Seq(X) /\ Len(u) = Len(e) - 1 /\ Len(e) >= 1
      /\ \A i \in 1..Len(u) : u[i] = s[n - Len(u) + i]
  <2>1. CASE Len(d) = w
    <3>1. Len(e) = w /\ u = Tail(d) /\ d # <<>>
      BY <1>1, <1>3, <1>4, <2>1
    <3>2. u \in Seq(X) /\ Len(u) = w - 1 /\ \A i \in 1..(w - 1) : u[i] = d[i + 1]
      BY <1>1, <2>1, <3>1, HeadTailProperties
    <3>3. ASSUME NEW i \in 1..(w - 1) PROVE u[i] = s[n - (w - 1) + i]
      <4>1. i + 1 \in 1..w /\ n - w + (i + 1) = n - (w - 1) + i
        BY <1>1
      <4>2. d[i + 1] = s[n - w + (i + 1)]
        BY <1>1, <2>1, <4>1
      <4>3. QED
        BY <3>2, <4>1, <4>2
    <3>4. Len(u) = w - 1 /\ Len(u) = Len(e) - 1
      BY <3>1, <3>2
    <3>5. QED
      BY <3>1, <3>2, <3>3, <3>4
  <2>2. CASE Len(d) # w
    <3>1. u = d /\ Len(d) = n /\ n < w
      BY <1>1, <1>3, <2>2
    <3>2. Len(e) = n + 1
      BY <1>1, <1>4, <3>1
    <3>3. QED
      BY <1>1, <3>1, <3>2
  <2>3. QED
    BY <2>1, <2>2
<1>6. /\ Append(u, x) \in Seq(X) /\ Len(Append(u, x)) = Len(e)
      /\ \A i \in 1..Len(u) : Append(u, x)[i] = u[i]
      /\ Append(u, x)[Len(e)] = x
  BY <1>5
<1>7. ASSUME NEW i \in 1..Len(e) PROVE Append(u, x)[i] = e[i]
  <2>1. CASE i = Len(e)
    <3>1. n + 1 - Len(e) + i = n + 1
      BY <1>1, <1>5, <2>1
    <3>2. QED
      BY <1>2, <1>4, <1>6, <2>1, <3>1
  <2>2. CASE i # Len(e)
    <3>1. i \in 1..Len(u) /\ n - Len(u) + i = n + 1 - Len(e) + i
      BY <1>1, <1>4, <1>5, <2>2
    <3>2. n - Len(u) + i \in 1..n
      BY <1>1, <1>4, <1>5, <2>2, <3>1
    <3>3. e[i] = s[n + 1 - Len(e) + i]
      BY <1>2, <1>4, <3>1, <3>2
    <3>4. Append(u, x)[i] = s[n - Len(u) + i]
      BY <1>5, <1>6, <3>1
    <3>5. QED
      BY <3>1, <3>3, <3>4
  <2>3. QED
    BY <2>1, <2>2
<1>8. Append(u, x) = e
  BY <1>4, <1>6, <1>7, SeqEqual
<1>9. QED
  BY <1>3, <1>8 DEF a, d, e

\* The valid inputs: of none, of one more, and what they are.
LEMMA OnlyNone == \A X, valid : Only(valid, X, <<>>) = <<>>
BY AfterNone DEF Only

LEMMA OnlyType ==
  ASSUME NEW X, NEW valid
  PROVE  \A s \in Seq(X) : Only(valid, X, s) \in Seq(X)
<1> DEFINE step == [p \in Seq(X) \X X |-> IF p[2] \in valid THEN Append(p[1], p[2]) ELSE p[1]]
<1>1. step \in [Seq(X) \X X -> Seq(X)] /\ <<>> \in Seq(X)
  OBVIOUS
<1>2. \A s : Only(valid, X, s) = After(step, <<>>, s)
  BY DEF Only
<1> HIDE DEF step
<1>3. \A s \in Seq(X) : After(step, <<>>, s) \in Seq(X)
  BY <1>1, AfterType
<1>4. QED
  BY <1>2, <1>3

LEMMA OnlyAppends ==
  ASSUME NEW X, NEW valid, NEW s \in Seq(X), NEW x \in X
  PROVE  /\ x \in valid => Only(valid, X, Append(s, x)) = Append(Only(valid, X, s), x)
         /\ x \notin valid => Only(valid, X, Append(s, x)) = Only(valid, X, s)
<1> DEFINE step == [p \in Seq(X) \X X |-> IF p[2] \in valid THEN Append(p[1], p[2]) ELSE p[1]]
<1>1. \A a \in Seq(X) : step[<<a, x>>] = IF x \in valid THEN Append(a, x) ELSE a
  OBVIOUS
<1>2. \A t : Only(valid, X, t) = After(step, <<>>, t)
  BY DEF Only
<1> HIDE DEF step
<1>3. Only(valid, X, Append(s, x)) = step[<<Only(valid, X, s), x>>]
  BY <1>2, AfterStep
<1>4. Only(valid, X, s) \in Seq(X)
  BY OnlyType
<1>5. QED
  BY <1>1, <1>3, <1>4

LEMMA OnlyValid ==
  ASSUME NEW X, NEW valid
  PROVE  \A s \in Seq(X) : Only(valid, X, s) \in Seq(valid)
<1> DEFINE T == {s \in Seq(X) : Only(valid, X, s) \in Seq(valid)}
<1>1. <<>> \in T
  <2>1. <<>> \in Seq(X) /\ <<>> \in Seq(valid)
    OBVIOUS
  <2>2. QED
    BY <2>1, OnlyNone
<1>2. ASSUME NEW s \in Seq(X), s \in T, NEW x \in X PROVE Append(s, x) \in T
  <2> DEFINE o == Only(valid, X, s)
             a == Only(valid, X, Append(s, x))
  <2>1. Append(s, x) \in Seq(X) /\ o \in Seq(valid)
    BY <1>2
  <2>2. (x \in valid => a = Append(o, x)) /\ (x \notin valid => a = o)
    BY OnlyAppends
  <2> HIDE DEF o, a
  <2>3. a \in Seq(valid)
    BY <2>1, <2>2
  <2>4. QED
    BY <2>1, <2>3 DEF a
<1>3. \A s \in Seq(X) : s \in T
  <2> HIDE DEF T
  <2> QED
    BY <1>1, <1>2, AllSequences
<1>4. QED
  BY <1>3

-----------------------------------------------------------------------------
(* TradeFeatureCalculator.                                                 *)

\* The trades a calculator takes, and its columns of them.
ValidTrades == {t \in Trades : ValidTrade(t)}

LEMMA TradeTyped ==
  /\ Typed(Trades, "price", Int) /\ Typed(Trades, "quantity", Int)
  /\ Typed(Trades, "maker", Int) /\ Typed(Trades, "ts", Int)
  /\ \A t \in Trades : 0 <= t.maker /\ t.maker <= 1
BY DEF Typed, Trades

\* The windows of a calculator.
Deques(X) == [Sizes -> Seq(X)]

LEMMA SlidIs ==
  ASSUME NEW X
  PROVE  /\ Empty(Sizes) \in Deques(X)
         /\ \A d \in Deques(X), x \in X :
               /\ Slid(d, x) \in Deques(X)
               /\ \A w \in Sizes : Slid(d, x)[w] = Slide(d[w], x, w)
<1>1. ASSUME NEW d \in [Sizes -> Seq(X)], NEW x \in X, NEW w \in Sizes
      PROVE  Slide(d[w], x, w) \in Seq(X)
  <2>1. d[w] \in Seq(X) /\ w \in Nat /\ w # 0
    BY BoundsAre
  <2>2. CASE Len(d[w]) = w
    <3>1. d[w] # <<>>
      BY <2>1, <2>2
    <3>2. Tail(d[w]) \in Seq(X)
      BY <2>1, <3>1, HeadTailProperties
    <3>3. QED
      BY <2>2, <3>2 DEF Slide
  <2>3. CASE Len(d[w]) # w
    BY <2>1, <2>3 DEF Slide
  <2>4. QED
    BY <2>2, <2>3
<1>2. \A w \in Sizes : <<>> \in Seq(X)
  OBVIOUS
<1>3. QED
  BY <1>1, <1>2 DEF Slid, Deques, Empty

\* After any trades, each deque is the last valid ones.
LEMMA TradeWindows ==
  \A s \in Seq(Trades), w \in Sizes :
     AfterTrades(s, Sizes)[w] = LastOf(Only(ValidTrades, Trades, s), w)
<1> DEFINE D == Deques(Trades)
           step == [p \in D \X Trades |-> UpdateTrades(p[1], p[2])]
           O(s) == Only(ValidTrades, Trades, s)
           T == {s \in Seq(Trades) :
                    /\ AfterTrades(s, Sizes) \in D
                    /\ \A w \in Sizes : AfterTrades(s, Sizes)[w] = LastOf(O(s), w)}
<1>1. \A d \in D, x \in Trades :
        UpdateTrades(d, x) \in D /\ \A w \in Sizes : Slid(d, x)[w] = Slide(d[w], x, w)
  <2>1. \A d \in D, x \in Trades :
          Slid(d, x) \in D /\ \A w \in Sizes : Slid(d, x)[w] = Slide(d[w], x, w)
    BY SlidIs
  <2>2. QED
    BY <2>1 DEF UpdateTrades
<1>2. \A d \in D, x \in Trades : step[<<d, x>>] = UpdateTrades(d, x)
  OBVIOUS
<1>3. \A s : AfterTrades(s, Sizes) = After(step, Empty(Sizes), s)
  BY DEF AfterTrades, Deques
<1> HIDE DEF step
<1>4. /\ O(<<>>) = <<>> /\ \A s \in Seq(Trades) : O(s) \in Seq(Trades)
      /\ \A s \in Seq(Trades), x \in Trades :
            /\ x \in ValidTrades => O(Append(s, x)) = Append(O(s), x)
            /\ x \notin ValidTrades => O(Append(s, x)) = O(s)
  <2>1. O(<<>>) = <<>>
    BY OnlyNone
  <2>2. \A s \in Seq(Trades) : O(s) \in Seq(Trades)
    BY OnlyType
  <2>3. ASSUME NEW s \in Seq(Trades), NEW x \in Trades
        PROVE  /\ x \in ValidTrades => O(Append(s, x)) = Append(O(s), x)
               /\ x \notin ValidTrades => O(Append(s, x)) = O(s)
    BY OnlyAppends
  <2>4. QED
    BY <2>1, <2>2, <2>3
<1> HIDE DEF O
<1>5. <<>> \in T
  <2>1. AfterTrades(<<>>, Sizes) = Empty(Sizes)
    BY <1>3, AfterNone
  <2>2. \A w \in Sizes : LastOf(<<>>, w) = <<>>
    BY DEF LastOf
  <2>3. /\ <<>> \in Seq(Trades) /\ Empty(Sizes) \in D
        /\ \A w \in Sizes : Empty(Sizes)[w] = <<>>
    BY SlidIs DEF Empty
  <2>4. QED
    BY <1>4, <2>1, <2>2, <2>3
<1>6. ASSUME NEW s \in Seq(Trades), s \in T, NEW x \in Trades PROVE Append(s, x) \in T
  <2> DEFINE d == AfterTrades(s, Sizes)
  <2>1. d \in D /\ \A w \in Sizes : d[w] = LastOf(O(s), w)
    BY <1>6
  <2>2. AfterTrades(Append(s, x), Sizes) = UpdateTrades(d, x)
    <3>1. AfterTrades(Append(s, x), Sizes) = step[<<d, x>>]
      BY <1>3, AfterStep
    <3>2. QED
      BY <1>2, <2>1, <3>1
  <2> HIDE DEF d
  <2>3. ASSUME NEW w \in Sizes PROVE UpdateTrades(d, x)[w] = LastOf(O(Append(s, x)), w)
    <3>1. CASE x \in ValidTrades
      <4>1. UpdateTrades(d, x)[w] = Slide(LastOf(O(s), w), x, w)
        <5>1. UpdateTrades(d, x) = Slid(d, x)
          BY <3>1 DEF UpdateTrades, ValidTrades
        <5>2. Slid(d, x)[w] = Slide(d[w], x, w)
          BY <1>1, <2>1
        <5>3. QED
          BY <2>1, <5>1, <5>2
      <4>2. Slide(LastOf(O(s), w), x, w) = LastOf(Append(O(s), x), w)
        BY <1>4, BoundsAre, SlideLast
      <4>3. QED
        BY <1>4, <3>1, <4>1, <4>2
    <3>2. CASE x \notin ValidTrades
      BY <1>4, <2>1, <3>2 DEF UpdateTrades, ValidTrades
    <3>3. QED
      BY <3>1, <3>2
  <2>4. UpdateTrades(d, x) \in D /\ Append(s, x) \in Seq(Trades)
    BY <1>1, <2>1
  <2>5. QED
    BY <2>2, <2>3, <2>4
<1>7. \A s \in Seq(Trades) : s \in T
  <2> HIDE DEF T
  <2> QED
    BY <1>5, <1>6, AllSequences
<1>8. QED
  BY <1>7 DEF O

\* A rate is at most a trade per microsecond.
LEMMA TradeRateBounded ==
  \A ts \in Seq(Int) : ts # <<>> => AtMost(TradeRate(ts), <<Million * Len(ts), 1>>)
<1> SUFFICES ASSUME NEW ts \in Seq(Int), ts # <<>>
             PROVE  AtMost(TradeRate(ts), <<Million * Len(ts), 1>>)
  OBVIOUS
<1> DEFINE n == Len(ts)
           e == Last(ts) - Head(ts)
<1>1. n \in Nat /\ n >= 1 /\ e \in Int
  BY DEF Last
<1>2. TradeRate(ts) = IF n < 2 THEN Zero
                      ELSE IF e > 0 THEN <<1000 * n, e>> ELSE <<Million * n, 1>>
  BY DEF TradeRate
<1> HIDE DEF n, e
<1>3. CASE n < 2
  BY <1>1, <1>2, <1>3, SMT DEF AtMost, Zero, n, Million
<1>4. CASE n >= 2 /\ e > 0
  <2>1. n <= n * e
    BY <1>1, <1>4
  <2>2. TradeRate(ts)[1] = 1000 * n /\ TradeRate(ts)[2] = e
    BY <1>1, <1>2, <1>4
  <2>3. 1000 * n * 1 <= 1000000 * n * e
    BY <1>1, <1>4, <2>1
  <2>4. QED
    BY <2>2, <2>3, SMT DEF AtMost, n, Million
<1>5. CASE n >= 2 /\ ~(e > 0)
  BY <1>1, <1>2, <1>5, SMT DEF AtMost, n, Million
<1>6. QED
  BY <1>1, <1>3, <1>4, <1>5

\* The features of a window of trades.
LEMMA TradeFeaturesSound ==
  ASSUME NEW window \in Seq(Trades), window # <<>>
  PROVE  LET f      == TradeFeatures(window)
             prices == ToSet(Column(window, "price"))
         IN  /\ Within(f.price_mean, prices)
             /\ AtMost(Zero, f.buy_ratio) /\ AtMost(f.buy_ratio, One)
             /\ Len(window) > 1 => (f.price_var[1] = 0 <=> Cardinality(prices) = 1)
             /\ AtMost(f.trade_rate, <<Million * Len(window), 1>>)
<1> DEFINE n == Len(window)
           p == Column(window, "price")
           m == Column(window, "maker")
           t == Column(window, "ts")
           f == TradeFeatures(window)
<1>1. /\ f.price_mean = SafeMean(p) /\ f.price_var = Variance(p)
      /\ f.buy_ratio = SafeMean(m) /\ f.trade_rate = TradeRate(t)
  BY DEF TradeFeatures
<1>2. n \in Nat /\ n > 0 /\ \A i \in 1..n : window[i] \in Trades
  OBVIOUS
<1>3. /\ p \in Seq(Int) /\ Len(p) = n /\ m \in Seq(Int) /\ Len(m) = n
      /\ t \in Seq(Int) /\ Len(t) = n /\ \A i \in 1..n : m[i] = window[i]["maker"]
  BY TradeTyped, ColumnIs
<1> HIDE DEF n, p, m, t, f
<1>4. p # <<>> /\ m # <<>> /\ t # <<>>
  BY <1>2, <1>3
<1>5. Within(SafeMean(p), ToSet(p))
  BY <1>3, <1>4, MeanWithin
<1>6. AtMost(Zero, SafeMean(m)) /\ AtMost(SafeMean(m), One)
  <2>1. SafeMean(m) = <<Total(m), n>> /\ Total(m) \in Int
    BY <1>3, <1>4, MeanWithin
  <2>2. \A i \in 1..n : 0 <= m[i] /\ m[i] <= 1
    BY <1>2, <1>3, TradeTyped
  <2>3. 0 * n <= Total(m) /\ Total(m) <= 1 * n
    BY <1>3, <2>2, TotalWithin
  <2>4. QED
    BY <1>2, <2>1, <2>3 DEF AtMost, Zero, One
<1>7. n > 1 => (Variance(p)[1] = 0 <=> Cardinality(ToSet(p)) = 1)
  BY <1>3, VarianceZero
<1>8. AtMost(TradeRate(t), <<Million * n, 1>>)
  <2>1. AtMost(TradeRate(t), <<Million * Len(t), 1>>)
    BY <1>3, <1>4, TradeRateBounded
  <2>2. QED
    BY <1>3, <2>1
<1>9. QED
  BY <1>1, <1>5, <1>6, <1>7, <1>8 DEF n, p, f

\* TradeFeatureCalculator: whatever trades it is given, valid or not, its windows
\* are the last valid ones, and its means, deviation and rate are within their bounds.
THEOREM TradesAlwaysSound ==
  \A trades \in Seq(Trades) : TradesSound(trades, Sizes)
<1> SUFFICES ASSUME NEW trades \in Seq(Trades), NEW w \in Sizes
             PROVE  LET window == AfterTrades(trades, Sizes)[w]
                        f      == TradeFeatures(window)
                        prices == ToSet(Column(window, "price"))
                    IN  /\ window = LastOf(Only(ValidTrades, Trades, trades), w)
                        /\ window # <<>> =>
                              /\ Within(f.price_mean, prices)
                              /\ AtMost(Zero, f.buy_ratio) /\ AtMost(f.buy_ratio, One)
                              /\ Len(window) > 1 =>
                                    (f.price_var[1] = 0 <=> Cardinality(prices) = 1)
                              /\ AtMost(f.trade_rate, <<Million * Len(window), 1>>)
  BY DEF TradesSound, ValidTrades
<1> DEFINE window == AfterTrades(trades, Sizes)[w]
<1>1. window = LastOf(Only(ValidTrades, Trades, trades), w)
  BY TradeWindows
<1>2. Only(ValidTrades, Trades, trades) \in Seq(Trades)
  BY OnlyType
<1>3. window \in Seq(Trades)
  BY <1>1, <1>2, BoundsAre, LastOfIs
<1> HIDE DEF window
<1>4. QED
  BY <1>1, <1>3, TradeFeaturesSound DEF window

\* Some elements at the end of a sequence.
Suffix(d, s) ==
    Len(d) <= Len(s) /\ \A i \in 1..Len(d) : d[i] = s[Len(s) - Len(d) + i]

\* It has no more volume than the whole.
LEMMA TotalSuffix ==
  \A s, d \in Seq(Nat) : Suffix(d, s) => Total(d) <= Total(s)
<1> DEFINE T == {s \in Seq(Nat) : \A d \in Seq(Nat) : Suffix(d, s) => Total(d) <= Total(s)}
<1>1. <<>> \in T
  <2>1. ASSUME NEW d \in Seq(Nat), Suffix(d, <<>>) PROVE d = <<>>
    BY <2>1 DEF Suffix
  <2>2. Total(<<>>) <= Total(<<>>)
    BY TotalIs
  <2>3. QED
    BY <2>1, <2>2
<1>2. ASSUME NEW s \in Seq(Nat), s \in T, NEW x \in Nat PROVE Append(s, x) \in T
  <2> SUFFICES ASSUME NEW d \in Seq(Nat), Suffix(d, Append(s, x))
               PROVE  Total(d) <= Total(Append(s, x))
    OBVIOUS
  <2> DEFINE a == Append(s, x)
             n == Len(s)
  <2>1. /\ n \in Nat /\ a \in Seq(Nat) /\ Len(a) = n + 1 /\ a[n + 1] = x
        /\ \A i \in 1..n : a[i] = s[i]
    OBVIOUS
  <2>2. s \in Seq(Int) /\ x \in Int
    OBVIOUS
  <2>3. Total(a) = Total(s) + x /\ Total(s) \in Nat
    BY <2>2, TotalIs, TotalBounds
  <2> HIDE DEF a, n
  <2>4. CASE d = <<>>
    BY <2>3, <2>4, TotalIs DEF a
  <2>5. CASE d # <<>>
    <3>1. PICK e \in Seq(Nat), y \in Nat : d = Append(e, y)
      BY <2>5, SequenceEmptyOrAppend
    <3>2. /\ Len(e) \in Nat /\ Len(d) = Len(e) + 1 /\ d[Len(e) + 1] = y
          /\ \A i \in 1..Len(e) : d[i] = e[i]
      BY <3>1
    <3>3. Len(d) <= n + 1 /\ \A i \in 1..Len(d) : d[i] = a[n + 1 - Len(d) + i]
      <4>1. Suffix(d, a)
        BY DEF a
      <4>2. QED
        BY <2>1, <4>1 DEF Suffix
    <3>4. y = x
      <4>1. Len(e) + 1 \in 1..Len(d) /\ n + 1 - Len(d) + (Len(e) + 1) = n + 1
        BY <2>1, <3>2
      <4>2. d[Len(e) + 1] = a[n + 1 - Len(d) + (Len(e) + 1)]
        BY <3>3, <4>1
      <4>3. QED
        BY <2>1, <3>2, <4>1, <4>2
    <3>5. Suffix(e, s)
      <4>1. ASSUME NEW i \in 1..Len(e) PROVE e[i] = s[n - Len(e) + i]
        <5>1. /\ i \in 1..Len(d) /\ n + 1 - Len(d) + i = n - Len(e) + i
              /\ n - Len(e) + i \in 1..n
          BY <2>1, <3>2, <3>3
        <5>2. QED
          BY <2>1, <3>2, <3>3, <5>1
      <4>2. Len(e) <= n
        BY <2>1, <3>2, <3>3
      <4>3. QED
        BY <4>1, <4>2 DEF Suffix, n
    <3>6. Total(e) <= Total(s)
      BY <1>2, <3>5
    <3>7. e \in Seq(Int) /\ y \in Int
      OBVIOUS
    <3>8. Total(d) = Total(e) + y /\ Total(e) \in Int
      BY <3>1, <3>7, TotalIs
    <3>9. QED
      BY <2>3, <3>4, <3>6, <3>8 DEF a
  <2>6. QED
    BY <2>4, <2>5
<1>3. \A s \in Seq(Nat) : s \in T
  <2> HIDE DEF T
  <2> QED
    BY <1>1, <1>2, AllSequences
<1>4. QED
  BY <1>3

\* Within, of a ratio.
LEMMA WithinIs ==
  ASSUME NEW x \in Int, NEW y \in Int, NEW C
  PROVE  Within(<<x, y>>, C) <=> (\E v \in C : v * y <= x) /\ (\E v \in C : x <= v * y)
<1>1. \A v \in C : AtMost(<<v, 1>>, <<x, y>>) <=> v * y <= x
  BY DEF AtMost
<1>2. \A v \in C : AtMost(<<x, y>>, <<v, 1>>) <=> x <= v * y
  BY DEF AtMost
<1>3. QED
  BY <1>1, <1>2 DEF Within

\* An average of a value and what is within some values is within them all.
LEMMA SmoothedWithin ==
  ASSUME NEW C \in SUBSET Int, NEW e \in Int \X (Nat \ {0}), Within(e, C),
         NEW c \in Int, NEW w \in Nat \ {0}
  PROVE  Within(Smoothed(e, c, w), C \cup {c})
<1> DEFINE a == e[1]
           b == e[2]
           x == 2 * c * b + (w - 1) * a
           y == (w + 1) * b
<1>1. a \in Int /\ b \in Nat /\ b > 0 /\ e = <<a, b>>
  OBVIOUS
<1>2. Smoothed(e, c, w) = <<x, y>>
  BY DEF Smoothed
<1>3. ASSUME NEW m \in Int, m <= c, m * b <= a PROVE m * y <= x
  <2> HIDE DEF a, b
  <2> DEFINE k == m * b
  <2>1. k \in Int /\ k <= c * b /\ k <= a
    BY <1>1, <1>3
  <2>2. m * y = 2 * k + (w - 1) * k
    BY <1>1
  <2> HIDE DEF k
  <2>3. (w - 1) * k <= (w - 1) * a
    BY <1>1, <2>1
  <2>4. QED
    BY <1>1, <2>1, <2>2, <2>3
<1>4. ASSUME NEW m \in Int, c <= m, a <= m * b PROVE x <= m * y
  <2> HIDE DEF a, b
  <2> DEFINE k == m * b
  <2>1. k \in Int /\ c * b <= k /\ a <= k
    BY <1>1, <1>4
  <2>2. m * y = 2 * k + (w - 1) * k
    BY <1>1
  <2> HIDE DEF k
  <2>3. (w - 1) * a <= (w - 1) * k
    BY <1>1, <2>1
  <2>4. QED
    BY <1>1, <2>1, <2>2, <2>3
<1> HIDE DEF a, b
<1>5. PICK v \in C : v * b <= a
  <2>1. Within(<<a, b>>, C) /\ a \in Int /\ b \in Int
    BY <1>1
  <2>2. QED
    BY <2>1, WithinIs, Zenon
<1>6. PICK u \in C : a <= u * b
  <2>1. Within(<<a, b>>, C) /\ a \in Int /\ b \in Int
    BY <1>1
  <2>2. QED
    BY <2>1, WithinIs, Zenon
<1>7. \E m \in C \cup {c} : m * y <= x
  <2>1. CASE v <= c
    BY <1>3, <1>5, <2>1
  <2>2. CASE c < v
    <3>1. c * b <= v * b
      BY <1>1, <2>2
    <3>2. c * b <= a
      BY <1>1, <1>5, <3>1
    <3>3. QED
      BY <1>3, <3>2
  <2>3. QED
    BY <2>1, <2>2
<1>8. \E m \in C \cup {c} : x <= m * y
  <2>1. CASE c <= u
    BY <1>4, <1>6, <2>1
  <2>2. CASE u < c
    <3>1. u * b <= c * b
      BY <1>1, <2>2
    <3>2. a <= c * b
      BY <1>1, <1>6, <3>1
    <3>3. QED
      BY <1>4, <3>2
  <2>3. QED
    BY <2>1, <2>2
<1>9. x \in Int /\ y \in Int
  BY <1>1
<1> HIDE DEF x, y
<1>10. QED
  BY <1>2, <1>7, <1>8, <1>9, WithinIs

-----------------------------------------------------------------------------
(* KlineFeatureCalculator.                                                 *)

\* The candles a calculator takes.
ValidKlines == {k \in Klines : ValidKline(k)}

LEMMA KlineTyped ==
  /\ Typed(Klines, "high", Int) /\ Typed(Klines, "low", Int) /\ Typed(Klines, "close", Int)
  /\ Typed(Klines, "volume", Nat)
  /\ \A k \in Klines : k.close \in Int /\ k.volume \in Nat
BY DEF Typed, Klines

\* What the calculator knows after the valid candles o.
KlineInv(calc, o, h) ==
    /\ calc \in KlineCalculators(Sizes)
    /\ \A w \in Sizes : calc.windows[w] = LastOf(o, w)
    /\ calc.volumes = LastOf(Column(o, "volume"), h)
    /\ o # <<>> => \A w \in Sizes : Within(calc.ema[w], ToSet(Column(o, "close")))

\* The parts of a calculator.
LEMMA CalculatorIs ==
  \A calc : calc \in KlineCalculators(Sizes) <=>
     /\ calc = [windows |-> calc.windows, ema |-> calc.ema, volumes |-> calc.volumes]
     /\ calc.windows \in Deques(Klines) /\ calc.ema \in [Sizes -> Int \X (Nat \ {0})]
     /\ calc.volumes \in Seq(Nat)
BY DEF KlineCalculators, Deques

\* A smoothed average is a ratio.
LEMMA SmoothedIs ==
  ASSUME NEW e \in Int \X (Nat \ {0}), NEW c \in Int, NEW w \in Nat \ {0}
  PROVE  Smoothed(e, c, w) \in Int \X (Nat \ {0})
<1>1. PICK a \in Int, b \in Nat \ {0} : e = <<a, b>>
  OBVIOUS
<1>2. 2 * c * b + (w - 1) * a \in Int
  BY <1>1
<1>3. (w + 1) * b \in Nat /\ (w + 1) * b > 0
  BY <1>1
<1>4. QED
  BY <1>1, <1>2, <1>3 DEF Smoothed

\* The history of volumes is empty when no candle was taken.
LEMMA SomeVolumes ==
  ASSUME NEW h \in Nat \ {0}
  PROVE  \A o \in Seq(Klines) :
            /\ LastOf(Column(o, "volume"), h) \in Seq(Nat)
            /\ LastOf(Column(o, "volume"), h) = <<>> <=> o = <<>>
<1> TAKE o \in Seq(Klines)
<1> DEFINE v == Column(o, "volume")
           d == LastOf(v, h)
<1>1. v \in Seq(Nat) /\ Len(v) = Len(o)
  BY KlineTyped, ColumnIs
<1> HIDE DEF v
<1>2. d \in Seq(Nat) /\ AreLast(d, v, h)
  BY <1>1, LastOfIs
<1> HIDE DEF d
<1>3. Len(d) = IF Len(v) <= h THEN Len(v) ELSE h
  BY <1>2 DEF AreLast
<1>4. (d = <<>> <=> Len(d) = 0) /\ (o = <<>> <=> Len(o) = 0) /\ Len(o) \in Nat
  BY <1>2
<1>5. QED
  BY <1>1, <1>2, <1>3, <1>4 DEF d, v

\* One more valid candle.
LEMMA UpdateKeeps ==
  ASSUME NEW h \in Nat \ {0}, NEW o \in Seq(Klines), NEW calc, KlineInv(calc, o, h),
         NEW k \in ValidKlines
  PROVE  KlineInv(UpdateKlines(calc, k, h), Append(o, k), h)
<1> DEFINE next == UpdateKlines(calc, k, h)
           E(w) == IF calc.volumes = <<>> THEN <<k.close, 1>> ELSE Smoothed(calc.ema[w], k.close, w)
<1>1. k \in Klines /\ ValidKline(k) /\ k.close \in Int /\ k.volume \in Nat
  BY KlineTyped DEF ValidKlines
<1>2. /\ calc.windows \in Deques(Klines) /\ calc.ema \in [Sizes -> Int \X (Nat \ {0})]
      /\ calc.volumes \in Seq(Nat)
  BY CalculatorIs DEF KlineInv
<1>3. /\ next = [windows |-> next.windows, ema |-> next.ema, volumes |-> next.volumes]
      /\ next.windows = Slid(calc.windows, k) /\ next.volumes = Slide(calc.volumes, k.volume, h)
      /\ next.ema = [w \in Sizes |-> E(w)]
  BY <1>1, <1>2 DEF UpdateKlines
<1> HIDE DEF next
<1>4. Append(o, k) \in Seq(Klines) /\ Append(o, k) # <<>>
  BY <1>1
<1>5. /\ next.windows \in Deques(Klines)
      /\ \A w \in Sizes : next.windows[w] = LastOf(Append(o, k), w)
  <2>1. /\ Slid(calc.windows, k) \in Deques(Klines)
        /\ \A w \in Sizes : Slid(calc.windows, k)[w] = Slide(calc.windows[w], k, w)
    BY <1>1, <1>2, SlidIs
  <2>2. ASSUME NEW w \in Sizes PROVE Slide(calc.windows[w], k, w) = LastOf(Append(o, k), w)
    <3>1. calc.windows[w] = LastOf(o, w)
      BY DEF KlineInv
    <3>2. QED
      BY <1>1, <3>1, BoundsAre, SlideLast
  <2>3. QED
    BY <1>3, <2>1, <2>2
<1>6. next.volumes = LastOf(Column(Append(o, k), "volume"), h) /\ next.volumes \in Seq(Nat)
  <2>1. Column(Append(o, k), "volume") = Append(Column(o, "volume"), k.volume)
    BY <1>1, KlineTyped, ColumnAppend
  <2>2. Column(o, "volume") \in Seq(Nat)
    BY KlineTyped, ColumnIs
  <2>3. Slide(LastOf(Column(o, "volume"), h), k.volume, h) = LastOf(Append(Column(o, "volume"), k.volume), h)
    BY <1>1, <2>2, SlideLast
  <2>4. calc.volumes = LastOf(Column(o, "volume"), h)
    BY DEF KlineInv
  <2>5. \A r \in Seq(Klines) : LastOf(Column(r, "volume"), h) \in Seq(Nat)
    BY SomeVolumes
  <2>6. QED
    BY <1>3, <1>4, <2>1, <2>3, <2>4, <2>5
<1>7. next.ema \in [Sizes -> Int \X (Nat \ {0})]
  <2>1. ASSUME NEW w \in Sizes PROVE E(w) \in Int \X (Nat \ {0})
    <3>1. Smoothed(calc.ema[w], k.close, w) \in Int \X (Nat \ {0})
      BY <1>1, <1>2, BoundsAre, SmoothedIs
    <3>2. <<k.close, 1>> \in Int \X (Nat \ {0})
      BY <1>1
    <3>3. QED
      BY <3>1, <3>2
  <2>2. QED
    BY <1>3, <2>1
<1>8. ASSUME NEW w \in Sizes PROVE Within(next.ema[w], ToSet(Column(Append(o, k), "close")))
  <2> DEFINE C == ToSet(Column(o, "close"))
             c == k.close
  <2>1. ToSet(Column(Append(o, k), "close")) = C \cup {c} /\ C \subseteq Int
    <3>1. Column(o, "close") \in Seq(Int) /\ c \in Int
      BY <1>1, KlineTyped, ColumnIs
    <3>2. Column(Append(o, k), "close") = Append(Column(o, "close"), c)
      BY <1>1, KlineTyped, ColumnAppend
    <3>3. ToSet(Append(Column(o, "close"), c)) = C \cup {c}
      BY <3>1, Appended
    <3>4. QED
      BY <3>1, <3>2, <3>3, Elements
  <2>2. calc.volumes = <<>> <=> o = <<>>
    BY SomeVolumes DEF KlineInv
  <2>3. c \in Int /\ c \in C \cup {c}
    BY <1>1
  <2> HIDE DEF C, c
  <2>4. Within(E(w), C \cup {c})
    <3>1. CASE calc.volumes = <<>>
      <4>1. c * 1 <= c /\ c <= c * 1 /\ 1 \in Int
        BY <2>3
      <4>2. Within(<<c, 1>>, C \cup {c})
        BY <2>3, <4>1, WithinIs, Zenon
      <4>3. QED
        BY <3>1, <4>2 DEF c
    <3>2. CASE calc.volumes # <<>>
      <4>1. Within(calc.ema[w], C)
        BY <2>2, <3>2 DEF KlineInv, C
      <4>2. C \in SUBSET Int /\ calc.ema[w] \in Int \X (Nat \ {0}) /\ w \in Nat \ {0}
        BY <1>2, <2>1, BoundsAre
      <4>3. Within(Smoothed(calc.ema[w], c, w), C \cup {c})
        BY <2>3, <4>1, <4>2, SmoothedWithin
      <4>4. QED
        BY <3>2, <4>3 DEF c
    <3>3. QED
      BY <3>1, <3>2
  <2>5. QED
    BY <1>3, <2>1, <2>4
<1>9. next \in KlineCalculators(Sizes)
  BY <1>3, <1>5, <1>6, <1>7, CalculatorIs
<1>10. QED
  BY <1>4, <1>5, <1>6, <1>8, <1>9 DEF KlineInv, next

\* After any candles, the calculator knows this of the valid ones.
LEMMA KlineWindows ==
  ASSUME NEW h \in Nat \ {0}
  PROVE  \A s \in Seq(Klines) :
            KlineInv(AfterKlines(s, Sizes, h), Only(ValidKlines, Klines, s), h)
<1> DEFINE S == KlineCalculators(Sizes)
           step == [p \in S \X Klines |-> UpdateKlines(p[1], p[2], h)]
           O(s) == Only(ValidKlines, Klines, s)
           T == {s \in Seq(Klines) : KlineInv(AfterKlines(s, Sizes, h), O(s), h)}
<1>1. \A c \in S, x \in Klines : step[<<c, x>>] = UpdateKlines(c, x, h)
  OBVIOUS
<1>2. \A s : AfterKlines(s, Sizes, h) = After(step, NewKlines(Sizes), s)
  BY DEF AfterKlines
<1> HIDE DEF step
<1>3. O(<<>>) = <<>> /\ \A s \in Seq(Klines) : O(s) \in Seq(Klines)
  BY OnlyNone, OnlyType
<1>4. <<>> \in T
  <2> DEFINE c == NewKlines(Sizes)
  <2>1. AfterKlines(<<>>, Sizes, h) = c
    BY <1>2, AfterNone
  <2>2. c = [windows |-> Empty(Sizes), ema |-> [w \in Sizes |-> Zero], volumes |-> <<>>]
    BY DEF NewKlines
  <2>3. Empty(Sizes) \in Deques(Klines) /\ \A w \in Sizes : Empty(Sizes)[w] = <<>>
    BY SlidIs DEF Empty
  <2>4. Zero \in Int \X (Nat \ {0})
    BY DEF Zero
  <2>5. c \in S
    BY <2>3, <2>4 DEF NewKlines, KlineCalculators, Deques
  <2> HIDE DEF c
  <2>6. \A w \in Sizes : LastOf(<<>>, w) = <<>>
    BY BoundsAre DEF LastOf
  <2>7. <<>> \in Seq(Klines)
    OBVIOUS
  <2>8. LastOf(Column(<<>>, "volume"), h) = <<>>
    BY <2>7, SomeVolumes
  <2>9. KlineInv(c, <<>>, h)
    BY <2>2, <2>3, <2>5, <2>6, <2>8 DEF KlineInv
  <2>10. QED
    BY <1>3, <2>1, <2>7, <2>9
<1>5. ASSUME NEW s \in Seq(Klines), s \in T, NEW x \in Klines PROVE Append(s, x) \in T
  <2> DEFINE c == AfterKlines(s, Sizes, h)
  <2>1. KlineInv(c, O(s), h) /\ c \in S
    BY <1>5 DEF KlineInv
  <2>2. AfterKlines(Append(s, x), Sizes, h) = UpdateKlines(c, x, h)
    <3>1. AfterKlines(Append(s, x), Sizes, h) = step[<<c, x>>]
      BY <1>2, AfterStep
    <3>2. QED
      BY <1>1, <2>1, <3>1
  <2>3. /\ x \in ValidKlines => O(Append(s, x)) = Append(O(s), x)
        /\ x \notin ValidKlines => O(Append(s, x)) = O(s)
    BY OnlyAppends
  <2>4. O(s) \in Seq(Klines)
    BY <1>3
  <2> HIDE DEF O, c
  <2>5. KlineInv(UpdateKlines(c, x, h), O(Append(s, x)), h)
    <3>1. CASE x \in ValidKlines
      BY <2>1, <2>3, <2>4, <3>1, UpdateKeeps
    <3>2. CASE x \notin ValidKlines
      <4>1. UpdateKlines(c, x, h) = c
        BY <3>2 DEF UpdateKlines, ValidKlines
      <4>2. QED
        BY <2>1, <2>3, <3>2, <4>1
    <3>3. QED
      BY <3>1, <3>2
  <2>6. QED
    BY <2>2, <2>5
<1>6. \A s \in Seq(Klines) : s \in T
  <2> HIDE DEF T
  <2> QED
    BY <1>4, <1>5, AllSequences
<1>7. QED
  BY <1>6

\* A VWAP is within the closes of the candles that had a volume.
LEMMA VwapWithin ==
  ASSUME NEW window \in Seq(Klines), NEW traded, traded = {k \in ToSet(window) : k.volume > 0}
  PROVE  IF traded = {} THEN Vwap(window) = Zero
         ELSE Within(Vwap(window), {k.close : k \in traded})
<1> DEFINE n == Len(window)
           c == Column(window, "close")
           v == Column(window, "volume")
           m == [i \in DOMAIN window |-> window[i].close * window[i].volume]
           V == Total(v)
           N == Total(m)
           C == {k.close : k \in traded}
<1>1. n \in Nat /\ DOMAIN window = 1..n /\ \A i \in 1..n : window[i] \in Klines
  OBVIOUS
<1>2. /\ c \in Seq(Int) /\ Len(c) = n /\ \A i \in 1..n : c[i] = window[i].close
      /\ v \in Seq(Nat) /\ Len(v) = n /\ \A i \in 1..n : v[i] = window[i].volume
  BY KlineTyped, ColumnIs
<1>3. m \in Seq(Int) /\ Len(m) = n /\ \A i \in 1..n : m[i] = c[i] * v[i]
  <2>1. \A i \in 1..n : window[i].close \in Int /\ window[i].volume \in Nat
    BY <1>1, KlineTyped
  <2>2. \A i \in 1..n : window[i].close * window[i].volume \in Int
    BY <2>1
  <2>3. m \in [1..n -> Int]
    BY <1>1, <2>2
  <2>4. \A i \in 1..n : m[i] = window[i].close * window[i].volume
    BY <1>1
  <2> HIDE DEF m
  <2>5. \A i \in 1..n : m[i] = c[i] * v[i]
    BY <1>2, <2>4
  <2> HIDE DEF c, v
  <2>6. n \in Nat
    BY <1>1
  <2> HIDE DEF n
  <2>7. m \in Seq(Int) /\ Len(m) = n
    BY <2>3, <2>6
  <2>8. QED
    BY <2>5, <2>7
<1>4. Vwap(window) = IF V > 0 THEN <<N, V>> ELSE Zero
  BY DEF Vwap
<1>5. \A i \in 1..n : v[i] > 0 => c[i] \in C
  BY <1>1, <1>2 DEF ToSet
<1>6. ASSUME traded = {}, NEW i \in 1..n PROVE v[i] = 0
  <2>1. window[i] \in ToSet(window) /\ window[i].volume \in Nat
    BY <1>1, KlineTyped DEF ToSet
  <2>2. ~(window[i].volume > 0)
    BY <1>6, <2>1
  <2>3. v[i] = window[i].volume
    BY <1>2
  <2> HIDE DEF v
  <2>4. QED
    BY <2>1, <2>2, <2>3
<1>7. traded # {} => \E i \in 1..n : v[i] > 0
  BY <1>1, <1>2 DEF ToSet
<1> HIDE DEF n, c, v, m, C
<1>8. V \in Nat /\ \A i \in 1..n : v[i] <= V
  BY <1>2, TotalBounds
<1>9. N \in Int
  BY <1>3, TotalIs
<1>10. CASE traded = {}
  <2>1. v \in Seq(Int) /\ 0 \in Int /\ \A i \in 1..Len(v) : 0 <= v[i] /\ v[i] <= 0
    BY <1>2, <1>6, <1>10
  <2>2. V <= 0 * Len(v)
    BY <2>1, TotalWithin
  <2>3. V = 0
    BY <1>1, <1>2, <1>8, <2>2 DEF n
  <2>4. QED
    BY <1>4, <1>10, <2>3
<1>11. CASE traded # {}
  <2>1. V > 0
    BY <1>2, <1>7, <1>8, <1>11, <1>1 DEF n
  <2>2. n \in Nat
    BY <1>1 DEF n
  <2>3. /\ \E i \in 1..n : v[i] > 0 /\ c[i] * V <= N
        /\ \E i \in 1..n : v[i] > 0 /\ N <= c[i] * V
    BY <1>2, <1>3, <2>1, <2>2, Averages
  <2>4. (\E x \in C : x * V <= N) /\ (\E x \in C : N <= x * V)
    <3> HIDE DEF V, N
    <3> QED
      BY <1>5, <2>3
  <2>5. V \in Int
    BY <1>8
  <2>6. Within(<<N, V>>, C)
    <3> HIDE DEF V, N
    <3> QED
      BY <1>9, <2>4, <2>5, WithinIs, Zenon
  <2>7. QED
    BY <1>4, <1>11, <2>1, <2>6 DEF C
<1>12. QED
  BY <1>10, <1>11

\* Both measures of volatility come from the highs and the lows.
LEMMA VolatilityAgrees ==
  ASSUME NEW H \in Int, NEW L \in Int, NEW C \in Int, NEW n \in Nat
  PROVE  Equals(Times(Over(Minus(<<H, n>>, <<L, n>>), <<C, n>>), <<C, n>>), <<H - L, n>>)
<1> DEFINE x == (H * n - L * n) * n * C
           y == n * n * C * n
<1>1. Times(Over(Minus(<<H, n>>, <<L, n>>), <<C, n>>), <<C, n>>) = <<x, y>>
  BY DEF Times, Over, Minus
<1>2. x * n = (H - L) * y
  OBVIOUS
<1>3. x \in Int /\ y \in Int
  OBVIOUS
<1> HIDE DEF x, y
<1>4. x * n <= (H - L) * y /\ (H - L) * y <= x * n
  BY <1>2, <1>3
<1>5. QED
  BY <1>1, <1>4 DEF Equals, AtMost

\* A window's volume against that of the history.
LEMMA VolumesCompare ==
  ASSUME NEW v \in Seq(Nat), NEW b \in Seq(Nat), v # <<>>, b # <<>>,
         NEW r, r = IF SafeMean(b)[1] > 0 THEN Over(SafeMean(v), SafeMean(b)) ELSE One
  PROVE  /\ Suffix(v, b) => AtMost(r, <<Len(b), Len(v)>>)
         /\ v = b => Equals(r, One)
<1> DEFINE n == Len(v)
           m == Len(b)
           V == Total(v)
           B == Total(b)
<1>1. n \in Nat /\ m \in Nat /\ V \in Nat /\ B \in Nat
  BY TotalBounds
<1>2. SafeMean(v) = <<V, n>> /\ SafeMean(b) = <<B, m>>
  BY DEF SafeMean
<1>3. Suffix(v, b) => V <= B /\ n <= m
  BY TotalSuffix DEF Suffix
<1>4. r = IF B > 0 THEN <<V * m, n * B>> ELSE <<1, 1>>
  BY <1>2 DEF Over, One
<1> HIDE DEF n, m, V, B
<1>5. ASSUME Suffix(v, b) PROVE AtMost(r, <<m, n>>)
  <2>1. V * m * n <= m * (n * B)
    <3> DEFINE k == m * n
    <3>1. k \in Nat
      BY <1>1
    <3>2. V * m * n = k * V /\ m * (n * B) = k * B
      BY <1>1
    <3> HIDE DEF k
    <3>3. k * V <= k * B
      BY <1>1, <1>3, <1>5, <3>1
    <3>4. QED
      BY <3>2, <3>3
  <2>2. 1 * n <= m * 1
    BY <1>1, <1>3, <1>5
  <2>3. QED
    BY <1>4, <2>1, <2>2 DEF AtMost
<1>6. ASSUME v = b PROVE Equals(r, One)
  <2>1. V = B /\ n = m
    BY <1>6 DEF V, B, n, m
  <2>2. V * m * 1 <= 1 * (n * B) /\ 1 * (n * B) <= V * m * 1
    BY <1>1, <2>1
  <2>3. QED
    BY <1>4, <2>2 DEF Equals, AtMost, One
<1>7. QED
  BY <1>5, <1>6 DEF n, m

\* Of two ends of a sequence, the shorter is one of the longer.
LEMMA EndsCompare ==
  ASSUME NEW s \in Seq(Nat), NEW d \in Seq(Nat), NEW e \in Seq(Nat), NEW w \in Nat, NEW h \in Nat,
         AreLast(d, s, w), AreLast(e, s, h)
  PROVE  /\ w <= h => Suffix(d, e)
         /\ Len(d) = Len(e) => d = e
<1> DEFINE l == Len(s)
           n == Len(d)
           m == Len(e)
<1>1. l \in Nat /\ n \in Nat /\ m \in Nat
  OBVIOUS
<1>2. n = (IF l <= w THEN l ELSE w) /\ m = (IF l <= h THEN l ELSE h)
  BY DEF AreLast
<1>3. \A i \in 1..n : d[i] = s[l - n + i]
  BY DEF AreLast
<1>4. \A i \in 1..m : e[i] = s[l - m + i]
  BY DEF AreLast
<1>5. d \in Seq(Nat) /\ e \in Seq(Nat)
  OBVIOUS
<1>6. n = m /\ (\A i \in 1..n : d[i] = e[i]) => d = e
  BY <1>5, SeqEqual
<1> HIDE DEF l, n, m
<1>7. ASSUME w <= h PROVE Suffix(d, e)
  <2>1. n <= m
    BY <1>1, <1>2, <1>7
  <2>2. ASSUME NEW i \in 1..n PROVE d[i] = e[m - n + i]
    <3> DEFINE j == m - n + i
    <3>1. j \in 1..m /\ l - m + j = l - n + i
      BY <1>1, <2>1
    <3> HIDE DEF j
    <3>2. e[j] = s[l - m + j]
      BY <1>4, <3>1
    <3>3. QED
      BY <1>3, <3>1, <3>2 DEF j
  <2>3. QED
    BY <2>1, <2>2 DEF Suffix, n, m
<1>8. ASSUME n = m PROVE d = e
  BY <1>3, <1>4, <1>6, <1>8
<1>9. QED
  BY <1>7, <1>8 DEF n, m

\* The columns of a window of candles.
LEMMA KlineColumns ==
  \A s \in Seq(Klines) :
     LET hi == Column(s, "high")
         lo == Column(s, "low")
         c  == Column(s, "close")
         v  == Column(s, "volume")
     IN  /\ hi \in Seq(Int) /\ Len(hi) = Len(s) /\ lo \in Seq(Int) /\ Len(lo) = Len(s)
         /\ c \in Seq(Int) /\ Len(c) = Len(s) /\ v \in Seq(Nat) /\ Len(v) = Len(s)
         /\ \A i \in 1..Len(s) : /\ hi[i] \in Int /\ lo[i] \in Int
                                 /\ c[i] = s[i].close /\ v[i] = s[i].volume
<1> TAKE s \in Seq(Klines)
<1>1. /\ Column(s, "high") \in Seq(Int) /\ Len(Column(s, "high")) = Len(s)
      /\ Column(s, "low") \in Seq(Int) /\ Len(Column(s, "low")) = Len(s)
  BY KlineTyped, ColumnIs
<1>2. /\ Column(s, "close") \in Seq(Int) /\ Len(Column(s, "close")) = Len(s)
      /\ \A i \in 1..Len(s) : Column(s, "close")[i] = s[i].close
  BY KlineTyped, ColumnIs
<1>3. /\ Column(s, "volume") \in Seq(Nat) /\ Len(Column(s, "volume")) = Len(s)
      /\ \A i \in 1..Len(s) : Column(s, "volume")[i] = s[i].volume
  BY KlineTyped, ColumnIs
<1>4. \A i \in 1..Len(s) : Column(s, "high")[i] \in Int /\ Column(s, "low")[i] \in Int
  BY <1>1
<1>5. QED
  BY <1>1, <1>2, <1>3, <1>4

\* Positive values have a positive total.
LEMMA PositiveTotal ==
  ASSUME NEW s \in Seq(Int), s # <<>>, \A i \in 1..Len(s) : s[i] > 0
  PROVE  Total(s) > 0
<1>1. Len(s) \in Nat /\ 1 \in 1..Len(s) /\ s \in [1..Len(s) -> Int]
  OBVIOUS
<1>2. \A i \in 1..Len(s) : s[i] \in Nat
  BY <1>1
<1>3. s \in Seq(Nat)
  BY <1>1, <1>2
<1>4. Total(s) \in Nat /\ s[1] <= Total(s)
  BY <1>1, <1>3, TotalBounds
<1>5. s[1] \in Nat /\ s[1] > 0
  BY <1>1, <1>2
<1>6. QED
  BY <1>4, <1>5

\* The features of a window of candles.
LEMMA KlineFeaturesSound ==
  ASSUME NEW h \in Nat \ {0}, NEW o \in Seq(ValidKlines), NEW calc, KlineInv(calc, o, h),
         NEW w \in Sizes, NEW window, window = calc.windows[w], window # <<>>
  PROVE  LET f      == KlineFeatures(calc, w)
             traded == {k \in ToSet(window) : k.volume > 0}
         IN  /\ Within(f.sma, ToSet(Column(window, "close")))
             /\ Within(f.ema, ToSet(Column(o, "close")))
             /\ IF traded = {} THEN f.vwap = Zero
                ELSE Within(f.vwap, {k.close : k \in traded})
             /\ Equals(Times(f.hl_ratio, f.sma), f.atr)
             /\ w <= h => AtMost(f.vol_ratio, <<Len(calc.volumes), Len(window)>>)
             /\ Len(window) = Len(calc.volumes) => Equals(f.vol_ratio, One)
<1> DEFINE n == Len(window)
           hi == Column(window, "high")
           lo == Column(window, "low")
           c == Column(window, "close")
           v == Column(window, "volume")
           d == [i \in DOMAIN window |-> hi[i] - lo[i]]
           b == calc.volumes
           all == Column(o, "volume")
           f == KlineFeatures(calc, w)
<1>1. /\ f.atr = SafeMean(d)
      /\ f.hl_ratio = IF Total(c) > 0 THEN Over(Minus(SafeMean(hi), SafeMean(lo)), SafeMean(c))
                      ELSE Zero
      /\ f.sma = SafeMean(c) /\ f.ema = calc.ema[w] /\ f.vwap = Vwap(window)
      /\ f.vol_ratio = IF SafeMean(b)[1] > 0 THEN Over(SafeMean(v), SafeMean(b)) ELSE One
  BY DEF KlineFeatures
<1> HIDE DEF f
<1>2. w \in Nat
  BY BoundsAre
<1>3. window = LastOf(o, w)
  BY DEF KlineInv
<1>4. window \in Seq(ValidKlines) /\ AreLast(window, o, w)
  BY <1>2, <1>3, LastOfIs
<1>5. ValidKlines \subseteq Klines /\ \A k \in ValidKlines : k.close \in Int /\ k.close > 0
  BY KlineTyped DEF ValidKlines, ValidKline
<1>6. window \in Seq(Klines) /\ o \in Seq(Klines)
  BY <1>4, <1>5
<1>7. n \in Nat /\ n > 0 /\ DOMAIN window = 1..n
  BY <1>6
<1>8. /\ hi \in Seq(Int) /\ Len(hi) = n /\ lo \in Seq(Int) /\ Len(lo) = n
      /\ c \in Seq(Int) /\ Len(c) = n /\ v \in Seq(Nat) /\ Len(v) = n
      /\ \A i \in 1..n : /\ hi[i] \in Int /\ lo[i] \in Int
                         /\ c[i] = window[i].close /\ v[i] = window[i].volume
  BY <1>6, KlineColumns
<1>9. b = LastOf(all, h) /\ all \in Seq(Nat) /\ Len(all) = Len(o)
      /\ \A i \in 1..Len(o) : all[i] = o[i].volume
  BY <1>6, KlineTyped, ColumnIs DEF KlineInv
<1>10. b \in Seq(Nat) /\ AreLast(b, all, h)
  BY <1>9, LastOfIs
<1>11. o # <<>>
  <2>1. n = IF Len(o) <= w THEN Len(o) ELSE w
    BY <1>4 DEF AreLast
  <2>2. QED
    BY <1>2, <1>6, <1>7, <2>1
<1>12. Within(f.sma, ToSet(c))
  <2>1. c # <<>>
    BY <1>7, <1>8
  <2> HIDE DEF c
  <2>2. QED
    BY <1>1, <1>8, <2>1, MeanWithin
<1>13. Within(f.ema, ToSet(Column(o, "close")))
  BY <1>1, <1>11 DEF KlineInv
<1>14. LET traded == {k \in ToSet(window) : k.volume > 0}
       IN  IF traded = {} THEN f.vwap = Zero ELSE Within(f.vwap, {k.close : k \in traded})
  BY <1>1, <1>6, VwapWithin
<1>15. Equals(Times(f.hl_ratio, f.sma), f.atr)
  <2> HIDE DEF hi, lo, c
  <2>1. d \in Seq(Int) /\ Len(d) = n /\ \A i \in 1..n : d[i] = hi[i] - lo[i]
    <3>1. ASSUME NEW i \in 1..n PROVE hi[i] - lo[i] \in Int
      <4>1. hi[i] \in Int /\ lo[i] \in Int
        BY <1>8
      <4>2. QED
        BY <4>1
    <3>2. d \in [1..n -> Int]
      BY <1>7, <3>1
    <3>3. \A i \in 1..n : d[i] = hi[i] - lo[i]
      BY <1>7
    <3> HIDE DEF d, n
    <3>4. QED
      BY <1>7, <3>2, <3>3
  <2> HIDE DEF d, n
  <2>2. Linear(hi, lo, d, 1, -1)
    <3>1. ASSUME NEW i \in 1..n PROVE d[i] = 1 * hi[i] + (-1) * lo[i]
      <4>1. hi[i] \in Int /\ lo[i] \in Int
        BY <1>8
      <4>2. d[i] = hi[i] - lo[i]
        BY <2>1
      <4> QED
        BY <4>1, <4>2
    <3>2. QED
      BY <1>8, <2>1, <3>1 DEF Linear
  <2>3. Total(hi) \in Int /\ Total(lo) \in Int /\ Total(c) \in Int
    BY <1>8, TotalIs
  <2>4. Total(d) = Total(hi) - Total(lo)
    <3>1. 1 \in Int /\ -1 \in Int
      OBVIOUS
    <3>2. Total(d) = 1 * Total(hi) + (-1) * Total(lo)
      BY <1>8, <2>1, <2>2, <3>1, TotalLinear
    <3>3. QED
      BY <2>3, <3>2
  <2>5. Total(c) > 0
    <3>1. ASSUME NEW i \in 1..n PROVE c[i] > 0
      <4>1. window[i] \in ValidKlines
        BY <1>4 DEF n
      <4>2. c[i] = window[i].close
        BY <1>8
      <4>3. QED
        BY <1>5, <4>1, <4>2
    <3>2. c \in Seq(Int) /\ Len(c) = n /\ c # <<>>
      BY <1>7, <1>8
    <3>3. QED
      BY <3>1, <3>2, PositiveTotal
  <2>6. /\ SafeMean(hi) = <<Total(hi), n>> /\ SafeMean(lo) = <<Total(lo), n>>
        /\ SafeMean(c) = <<Total(c), n>> /\ SafeMean(d) = <<Total(d), n>>
    <3>1. hi # <<>> /\ lo # <<>> /\ c # <<>> /\ d # <<>>
      BY <1>7, <1>8, <2>1
    <3>2. QED
      BY <1>8, <2>1, <3>1 DEF SafeMean
  <2>7. n \in Nat
    BY <1>7
  <2> DEFINE H == Total(hi)
             L == Total(lo)
             C == Total(c)
  <2>8. /\ f.hl_ratio = Over(Minus(<<H, n>>, <<L, n>>), <<C, n>>)
        /\ f.sma = <<C, n>> /\ f.atr = <<H - L, n>>
    BY <1>1, <2>4, <2>5, <2>6
  <2> HIDE DEF H, L, C
  <2>9. H \in Int /\ L \in Int /\ C \in Int
    BY <2>3 DEF H, L, C
  <2>10. Equals(Times(Over(Minus(<<H, n>>, <<L, n>>), <<C, n>>), <<C, n>>), <<H - L, n>>)
    BY <2>7, <2>9, VolatilityAgrees
  <2>11. QED
    BY <2>8, <2>10
<1>16. AreLast(v, all, w)
  <2> DEFINE k == Len(o)
  <2>1. k \in Nat /\ n = (IF k <= w THEN k ELSE w) /\ \A i \in 1..n : window[i] = o[k - n + i]
    BY <1>4, <1>6 DEF AreLast
  <2>2. Len(all) = k /\ \A i \in 1..k : all[i] = o[i].volume
    BY <1>9
  <2>3. Len(v) = n /\ \A i \in 1..n : v[i] = window[i].volume
    BY <1>8
  <2> HIDE DEF k, n, v, all
  <2>4. ASSUME NEW i \in 1..n PROVE v[i] = all[k - n + i]
    <3> DEFINE j == k - n + i
    <3>1. j \in 1..k
      BY <1>2, <1>7, <2>1
    <3>2. window[i] = o[j]
      BY <2>1
    <3> HIDE DEF j
    <3>3. QED
      BY <2>2, <2>3, <3>1, <3>2 DEF j
  <2>5. QED
    BY <2>1, <2>2, <2>3, <2>4 DEF AreLast
<1>17. /\ w <= h => AtMost(f.vol_ratio, <<Len(b), n>>)
       /\ n = Len(b) => Equals(f.vol_ratio, One)
  <2>1. v # <<>> /\ b # <<>>
    <3>1. Len(b) = IF Len(all) <= h THEN Len(all) ELSE h
      BY <1>10 DEF AreLast
    <3>2. Len(o) \in Nat /\ Len(o) > 0
      BY <1>6, <1>11
    <3>3. Len(b) > 0
      BY <1>9, <3>1, <3>2
    <3>4. QED
      BY <1>7, <1>8, <3>3
  <2>2. /\ w <= h => Suffix(v, b)
        /\ Len(v) = Len(b) => v = b
    <3> HIDE DEF v, b, all
    <3>1. v \in Seq(Nat) /\ b \in Seq(Nat) /\ all \in Seq(Nat)
      BY <1>8, <1>9, <1>10
    <3>2. QED
      BY <1>2, <1>10, <1>16, <3>1, EndsCompare
  <2>3. /\ Suffix(v, b) => AtMost(f.vol_ratio, <<Len(b), Len(v)>>)
        /\ v = b => Equals(f.vol_ratio, One)
    <3> HIDE DEF v, b
    <3>1. v \in Seq(Nat) /\ b \in Seq(Nat)
      BY <1>8, <1>10
    <3>2. QED
      BY <1>1, <2>1, <3>1, VolumesCompare
  <2>4. QED
    BY <1>8, <2>2, <2>3
<1>18. QED
  BY <1>12, <1>13, <1>14, <1>15, <1>17 DEF f

\* KlineFeatureCalculator: whatever candles it is given, open, invalid or good, its
\* windows are the last valid ones, and its averages, volatility and volume ratio
\* are what KlinesSound says.
THEOREM KlinesAlwaysSound ==
  \A vol_history \in Nat \ {0}, klines \in Seq(Klines) : KlinesSound(klines, Sizes, vol_history)
<1> SUFFICES ASSUME NEW h \in Nat \ {0}, NEW klines \in Seq(Klines)
             PROVE  KlinesSound(klines, Sizes, h)
  OBVIOUS
<1> DEFINE calc == AfterKlines(klines, Sizes, h)
           o == Only(ValidKlines, Klines, klines)
<1>1. KlineInv(calc, o, h)
  BY KlineWindows
<1>2. o \in Seq(ValidKlines)
  BY OnlyValid
<1>3. o = Only({k \in Klines : ValidKline(k)}, Klines, klines)
  BY DEF ValidKlines
<1>4. calc = AfterKlines(klines, Sizes, h)
  OBVIOUS
<1> HIDE DEF calc, o
<1>5. ASSUME NEW w \in Sizes
      PROVE  LET window == calc.windows[w]
                 f      == KlineFeatures(calc, w)
                 traded == {k \in ToSet(window) : k.volume > 0}
             IN  /\ window = LastOf(o, w)
                 /\ window # <<>> =>
                       /\ Within(f.sma, ToSet(Column(window, "close")))
                       /\ Within(f.ema, ToSet(Column(o, "close")))
                       /\ IF traded = {} THEN f.vwap = Zero
                          ELSE Within(f.vwap, {k.close : k \in traded})
                       /\ Equals(Times(f.hl_ratio, f.sma), f.atr)
                       /\ w <= h => AtMost(f.vol_ratio, <<Len(calc.volumes), Len(window)>>)
                       /\ Len(window) = Len(calc.volumes) => Equals(f.vol_ratio, One)
  <2>1. calc.windows[w] = LastOf(o, w)
    BY <1>1 DEF KlineInv
  <2>2. QED
    BY <1>1, <1>2, <2>1, KlineFeaturesSound
<1>6. QED
  BY <1>3, <1>4, <1>5 DEF KlinesSound

-----------------------------------------------------------------------------
(* The instance of MCFeaturePipeline.                                      *)

\* Whatever entries a process has read, in whatever order: the features of each
\* are sound, as the calculators' are for any inputs.
THEOREM FeaturesAlwaysSound == Spec => []FeaturesSound
<1>1. SomeTrades \subseteq Trades
  BY DEF SomeTrades, Trades
<1>2. SomeKlines \subseteq Klines
  <2> SUFFICES ASSUME NEW k \in SomeKlines PROVE k \in Klines
    OBVIOUS
  <2>1. PICK c \in {0, 1, 4, 5}, r \in {0, 1}, v \in {0, 3} :
           k = [high |-> c + 2, low |-> c - r, close |-> c, volume |-> v, is_closed |-> c # 5]
    BY DEF SomeKlines
  <2>2. c + 2 \in Int /\ c - r \in Int /\ c \in Int /\ v \in Nat /\ (c # 5) \in BOOLEAN
    OBVIOUS
  <2>3. QED
    BY <2>1, <2>2 DEF Klines
<1>3. AllTradesSound
  <2>1. ASSUME NEW trades \in BoundedSeq(SomeTrades, MaxInputs) PROVE TradesSound(trades, Sizes)
    <3>1. trades \in Seq(SomeTrades)
      BY DEF BoundedSeq, SeqOf
    <3>2. trades \in Seq(Trades)
      BY <1>1, <3>1
    <3>3. QED
      BY <3>2, TradesAlwaysSound
  <2>2. QED
    BY <2>1 DEF AllTradesSound
<1>4. AllKlinesSound
  <2>1. ASSUME NEW klines \in BoundedSeq(SomeKlines, MaxInputs - 1)
        PROVE  KlinesSound(klines, Sizes, 3)
    <3>1. klines \in Seq(SomeKlines)
      BY DEF BoundedSeq, SeqOf
    <3>2. klines \in Seq(Klines) /\ 3 \in Nat \ {0}
      BY <1>2, <3>1
    <3>3. QED
      BY <3>2, KlinesAlwaysSound
  <2>2. QED
    BY <2>1 DEF AllKlinesSound
<1>5. FeaturesSound
  BY <1>3, <1>4 DEF FeaturesSound
<1>6. QED
  BY <1>5, PTL
=============================================================================
