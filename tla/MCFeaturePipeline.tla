------------------------ MODULE MCFeaturePipeline ------------------------
\* Instances of FeaturePipeline and of the calculators for TLC.
EXTENDS FeaturePipeline

\* Prices, times and candles that meet every branch of the calculators: what
\* is refused, equal and reversed times, candles without volume or range.
SomeTrades ==
    [price : {0, 1, 4}, quantity : {1}, maker : {0}, ts : {7}]
        \cup [price : {2}, quantity : {0, 3}, maker : {1}, ts : {6, 9}]

SomeKlines ==
    {[high |-> c + 2, low |-> c - r, close |-> c, volume |-> v, is_closed |-> c # 5] :
        c \in {0, 1, 4, 5}, r \in {0, 1}, v \in {0, 3}}

MaxInputs == 4

AllTradesSound == \A trades \in BoundedSeq(SomeTrades, MaxInputs) : TradesSound(trades, Sizes)

AllKlinesSound ==
    \A klines \in BoundedSeq(SomeKlines, MaxInputs - 1) : KlinesSound(klines, Sizes, 3)

\* When the vector of an entry is computed, its features are sound whatever
\* the calculators were given before: every sequence of at most MaxInputs
\* inputs, for the windows of this instance and a volume history of one more
\* candle than the largest.
FeaturesSound == pc = "row" => AllTradesSound /\ AllKlinesSound
==========================================================================
