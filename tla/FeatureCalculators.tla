------------------------- MODULE FeatureCalculators -------------------------
(***************************************************************************)
(* The calculators of src/features/engineering.py: what one trade or one   *)
(* candle does to the sliding windows, and the features computed from      *)
(* them.  FeaturePipeline calls them for each entry it reads.              *)
(*                                                                         *)
(* A float is an exact ratio <<numerator, denominator>> of a positive      *)
(* denominator: rounding is left out, and a deviation is given as its      *)
(* square.  The five deques of a window move together, so they are one     *)
(* deque of records.                                                       *)
(***************************************************************************)
EXTENDS Integers, Sequences, SequencesExt

\* What inputs make of a state, one after the other.
After(step, state, inputs) ==
    LET after[i \in 0..Len(inputs)] ==
            IF i = 0 THEN state ELSE step[<<after[i - 1], inputs[i]>>]
    IN  after[Len(inputs)]

-----------------------------------------------------------------------------
(* Ratios.                                                                 *)

Zero         == <<0, 1>>
One          == <<1, 1>>
AtMost(x, y) == x[1] * y[2] <= y[1] * x[2]
Equals(x, y) == AtMost(x, y) /\ AtMost(y, x)
Minus(x, y)  == <<x[1] * y[2] - y[1] * x[2], x[2] * y[2]>>
Times(x, y)  == <<x[1] * y[1], x[2] * y[2]>>
Over(x, y)   == <<x[1] * y[2], x[2] * y[1]>>   \* for a positive y

Column(window, field) == [i \in DOMAIN window |-> window[i][field]]
Total(values)         == After([p \in Int \X Int |-> p[1] + p[2]], 0, values)

-----------------------------------------------------------------------------
(* FeatureCalculatorBase.                                                  *)

\* Mutant of Slide: a full deque takes no more.
SlideOldest(deque, x, w) == IF Len(deque) = w THEN deque ELSE Append(deque, x)

\* deque(maxlen=w).append(x)
Slide(deque, x, w) == IF Len(deque) = w THEN Append(Tail(deque), x) ELSE Append(deque, x)

Slid(deques, x) == [w \in DOMAIN deques |-> Slide(deques[w], x, w)]

Empty(sizes) == [w \in sizes |-> <<>>]

SafeMean(values) == IF values = <<>> THEN Zero ELSE <<Total(values), Len(values)>>

\* The square of _safe_std: deviations from the mean, over n - 1.
Variance(values) ==
    LET n         == Len(values)
        deviation == [i \in 1..n |-> n * values[i] - Total(values)]
        squares   == [i \in 1..n |-> deviation[i] * deviation[i]]
    IN  IF n < 2 THEN Zero ELSE <<Total(squares), n * n * (n - 1)>>

\* From the first value to the last, in a window that need not be full.
PctChange(values) ==
    IF Len(values) < 2 \/ Head(values) = 0 THEN Zero
    ELSE <<Last(values) - Head(values), Head(values)>>

-----------------------------------------------------------------------------
(* TradeFeatureCalculator.                                                 *)

Trades == [price : Int, quantity : Int, maker : {0, 1}, ts : Int]

ValidTrade(trade) == trade.price > 0 /\ trade.quantity > 0

\* A trade that is not valid leaves the windows alone; its vector has the
\* metadata only.
UpdateTrades(deques, trade) == IF ValidTrade(trade) THEN Slid(deques, trade) ELSE deques

Million == 1000000

\* Trades per second; elapsed time, in ms, counts as a microsecond at least.
TradeRate(ts) ==
    LET elapsed == Last(ts) - Head(ts)
    IN  IF Len(ts) < 2 THEN Zero
        ELSE IF elapsed > 0 THEN <<1000 * Len(ts), elapsed>> ELSE <<Million * Len(ts), 1>>

TradeFeatures(window) ==
    LET p == Column(window, "price")
        q == Column(window, "quantity")
    IN  [price_mean   |-> SafeMean(p),
         price_var    |-> Variance(p),
         price_change |-> PctChange(p),
         vol_mean     |-> SafeMean(q),
         vol_var      |-> Variance(q),
         vol_total    |-> Total(q),
         buy_ratio    |-> SafeMean(Column(window, "maker")),
         trade_rate   |-> TradeRate(Column(window, "ts"))]

-----------------------------------------------------------------------------
(* KlineFeatureCalculator.  Its state is [windows, ema, volumes].          *)

Klines == [high : Int, low : Int, close : Int, volume : Nat, is_closed : BOOLEAN]

KlineCalculators(sizes) ==
    [windows : [sizes -> Seq(Klines)], ema : [sizes -> Int \X (Nat \ {0})], volumes : Seq(Nat)]

ValidKline(kline) == kline.is_closed /\ kline.close > 0

NewKlines(sizes) ==
    [windows |-> Empty(sizes), ema |-> [w \in sizes |-> Zero], volumes |-> <<>>]

\* Mutant of Smoothed: the weight of the old average is not reduced by k.
SmoothedUnweighted(ema, close, w) == <<2 * close * ema[2] + (w + 1) * ema[1], (w + 1) * ema[2]>>

\* close * k + ema * (1 - k) for k = 2 / (w + 1)
Smoothed(ema, close, w) == <<2 * close * ema[2] + (w - 1) * ema[1], (w + 1) * ema[2]>>

\* A candle that is open, or without a positive close, has no vector at all.
UpdateKlines(calc, kline, vol_history) ==
    IF ~ValidKline(kline) THEN calc
    ELSE [windows |-> Slid(calc.windows, kline),
          ema     |-> [w \in DOMAIN calc.ema |->
                          IF calc.volumes = <<>> THEN <<kline.close, 1>>
                          ELSE Smoothed(calc.ema[w], kline.close, w)],
          volumes |-> Slide(calc.volumes, kline.volume, vol_history)]

Vwap(window) ==
    LET volume   == Total(Column(window, "volume"))
        notional == Total([i \in DOMAIN window |-> window[i].close * window[i].volume])
    IN  IF volume > 0 THEN <<notional, volume>> ELSE Zero

KlineFeatures(calc, w) ==
    LET window   == calc.windows[w]
        h        == Column(window, "high")
        l        == Column(window, "low")
        c        == Column(window, "close")
        v        == Column(window, "volume")
        baseline == SafeMean(calc.volumes)
    IN  [atr       |-> SafeMean([i \in DOMAIN window |-> h[i] - l[i]]),
         hl_ratio  |-> IF Total(c) > 0
                       THEN Over(Minus(SafeMean(h), SafeMean(l)), SafeMean(c)) ELSE Zero,
         sma       |-> SafeMean(c),
         ema       |-> calc.ema[w],
         momentum  |-> PctChange(c),
         vwap      |-> Vwap(window),
         vol_ratio |-> IF baseline[1] > 0 THEN Over(SafeMean(v), baseline) ELSE One]

-----------------------------------------------------------------------------
(* What the features are, said without the windows.                        *)

LastOf(seq, n) == IF Len(seq) <= n THEN seq ELSE SubSeq(seq, Len(seq) - n + 1, Len(seq))

\* The inputs, of a set all, that are in a set valid.
Only(valid, all, inputs) ==
    After([p \in Seq(all) \X all |-> IF p[2] \in valid THEN Append(p[1], p[2]) ELSE p[1]],
          <<>>, inputs)

Within(x, values) ==
    /\ \E v \in values : AtMost(<<v, 1>>, x)
    /\ \E v \in values : AtMost(x, <<v, 1>>)

AfterTrades(trades, sizes) ==
    After([p \in [sizes -> Seq(Trades)] \X Trades |-> UpdateTrades(p[1], p[2])],
          Empty(sizes), trades)

\* After any trades: each window is the last valid ones, means are within
\* their values, no spread means no deviation, and the rate is not beyond a
\* trade per microsecond.
TradesSound(trades, sizes) ==
    LET deques   == AfterTrades(trades, sizes)
        accepted == Only({t \in Trades : ValidTrade(t)}, Trades, trades)
    IN  \A w \in sizes :
            LET window == deques[w]
                f      == TradeFeatures(window)
                prices == ToSet(Column(window, "price"))
            IN  /\ window = LastOf(accepted, w)
                /\ window # <<>> =>
                      /\ Within(f.price_mean, prices)
                      /\ AtMost(Zero, f.buy_ratio) /\ AtMost(f.buy_ratio, One)
                      /\ Len(window) > 1 =>
                            (f.price_var[1] = 0 <=> Cardinality(prices) = 1)
                      /\ AtMost(f.trade_rate, <<Million * Len(window), 1>>)

AfterKlines(klines, sizes, vol_history) ==
    After([p \in KlineCalculators(sizes) \X Klines |-> UpdateKlines(p[1], p[2], vol_history)],
          NewKlines(sizes), klines)

\* After any candles: each window is the last valid ones, the averages are
\* within the closes (the EMA within all since the start), a VWAP of nothing
\* is 0, the two measures of volatility agree, and the volume of a window is
\* its history's until the window is full, and no more than the whole of it
\* when the history is not the shorter.
KlinesSound(klines, sizes, vol_history) ==
    LET calc     == AfterKlines(klines, sizes, vol_history)
        accepted == Only({k \in Klines : ValidKline(k)}, Klines, klines)
    IN  \A w \in sizes :
            LET window == calc.windows[w]
                f      == KlineFeatures(calc, w)
                traded == {k \in ToSet(window) : k.volume > 0}
            IN  /\ window = LastOf(accepted, w)
                /\ window # <<>> =>
                      /\ Within(f.sma, ToSet(Column(window, "close")))
                      /\ Within(f.ema, ToSet(Column(accepted, "close")))
                      /\ IF traded = {} THEN f.vwap = Zero
                         ELSE Within(f.vwap, {k.close : k \in traded})
                      /\ Equals(Times(f.hl_ratio, f.sma), f.atr)
                      /\ w <= vol_history =>
                            AtMost(f.vol_ratio, <<Len(calc.volumes), Len(window)>>)
                      /\ Len(window) = Len(calc.volumes) => Equals(f.vol_ratio, One)
=============================================================================
