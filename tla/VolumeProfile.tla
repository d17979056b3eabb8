---------------------------- MODULE VolumeProfile ----------------------------
(***************************************************************************)
(* VolumeProfileEngine.analyze: VWAP, the histogram of volume by price     *)
(* with its point of control and value area, and what the last bar's       *)
(* volume says.  Prices are ticks, quotients are multiplied out; bins are  *)
(* numbered from below.                                                    *)
(***************************************************************************)
EXTENDS Candles   \* Bars are [hi, lo, close, vol]

CONSTANTS Bins,       \* bins of the histogram: 24
          MinBars     \* bars that are enough, and bars averaged over: 20

ProfileAssumption == Bins \in Nat \ {0} /\ MinBars \in Nat /\ MinBars >= 2

Enough(f) == Len(f) >= MinBars
LastBar(f) == f[Len(f)]
Sum(f, Value(_), S) == MapThenSumSet(LAMBDA i : Value(f[i]), S)

Highest(f) == Max({f[i].hi : i \in DOMAIN f})
Lowest(f) == Min({f[i].lo : i \in DOMAIN f})

\* Three times the typical price of a bar.
Typical(b) == b.hi + b.lo + b.close
Volume(b) == b.vol
Total(f) == Sum(f, Volume, DOMAIN f)

-----------------------------------------------------------------------------
(* VWAP; a frame without any volume has a VWAP of zero *)

PriceVsVwap(f) ==
    LET turnover == Sum(f, LAMBDA b : Typical(b) * b.vol, DOMAIN f)
        vsum == IF Total(f) = 0 THEN 1 ELSE Total(f)
        gap == 1000 * (3 * vsum * LastBar(f).close - turnover)
        tol == 3 * vsum * (Highest(f) - Lowest(f))
    IN  IF gap > tol THEN "above" ELSE IF gap < -tol THEN "below" ELSE "at"

Bias(f) == CASE PriceVsVwap(f) = "above" -> "bullish"
             [] PriceVsVwap(f) = "below" -> "bearish"
             [] OTHER -> "neutral"

-----------------------------------------------------------------------------
(* The histogram *)

\* A frame without height has everything in the last bin.
Bin(typical, low, high) ==
    IF low = high THEN Bins
    ELSE LET n == 1 + (Bins * (typical - 3 * low)) \div (3 * (high - low))
         IN  Max({1, Min({Bins, n})})

Hist(f) == LET low == Lowest(f)
               high == Highest(f)
           IN  [n \in 1 .. Bins |->
                  Sum(f, Volume, {i \in DOMAIN f : Bin(Typical(f[i]), low, high) = n})]
In(hist, S) == MapThenSumSet(LAMBDA n : hist[n], S)

\* Wrong on purpose: the bins are taken from below.
Before_ByPrice(hist, m, n) == m < n

\* Bins by volume, the lower one first among equals.
Before(hist, m, n) == hist[m] > hist[n] \/ (hist[m] = hist[n] /\ m < n)

Poc(hist) == CHOOSE n \in 1 .. Bins : \A m \in 1 .. Bins \ {n} : Before(hist, n, m)

\* A bin is taken while those before it do not hold 70% of the volume.
ValueArea(hist) ==
    {n \in 1 .. Bins :
        LET larger == {m \in 1 .. Bins \ {n} : Before(hist, m, n)}
        IN  larger = {} \/ 10 * In(hist, larger) < 7 * In(hist, 1 .. Bins)}

Val(f) == Min(ValueArea(Hist(f)))
Vah(f) == Max(ValueArea(Hist(f)))

\* The close is between the centres of the outermost bins of the value area.
InValueArea(f) ==
    LET height == Highest(f) - Lowest(f)
        at == 2 * Bins * (LastBar(f).close - Lowest(f))
    IN  (2 * Val(f) - 1) * height <= at /\ at <= (2 * Vah(f) - 1) * height

-----------------------------------------------------------------------------
(* The last bar's volume, against the average of up to MinBars before it *)

Averaged(f) == IF Len(f) > MinBars THEN Len(f) - MinBars .. Len(f) - 1 ELSE 1 .. Len(f) - 1
AvgSum(f) == LET sum == Sum(f, Volume, Averaged(f))
             IN  IF sum = 0 /\ Len(f) <= MinBars THEN Cardinality(Averaged(f)) ELSE sum

\* The ratio to the average is at least n tenths; without an average it is 0.
RatioAtLeast(f, n) ==
    AvgSum(f) > 0 /\ 10 * Cardinality(Averaged(f)) * LastBar(f).vol >= n * AvgSum(f)
Spike(f) == RatioAtLeast(f, 20)

Absorption(f) ==
    LET spans == Sum(f, LAMBDA b : b.hi - b.lo, Averaged(f))
        span == LastBar(f).hi - LastBar(f).lo
    IN  /\ Spike(f) /\ Len(f) > MinBars /\ spans > 0
        /\ 10 * Cardinality(Averaged(f)) * span < 6 * spans

FiveBefore(f) == (Len(f) - 5 .. Len(f) - 1) \cap DOMAIN f
Exhaustion(f) == /\ ~RatioAtLeast(f, 8)
                 /\ \/ LastBar(f).close >= Max({f[i].hi : i \in FiveBefore(f)})
                    \/ LastBar(f).close <= Min({f[i].lo : i \in FiveBefore(f)})

VpScore(f) ==
    (IF Spike(f) THEN 30 ELSE 0) + (IF PriceVsVwap(f) # "at" THEN 25 ELSE 0)
    + (IF InValueArea(f) THEN 20 ELSE 10) + (IF Exhaustion(f) THEN 0 ELSE 15)
    + (IF Absorption(f) THEN 0 ELSE 10)

-----------------------------------------------------------------------------
(* The value area is the smallest there is: it holds 70% of the volume,    *)
(* no smaller number of price levels does, and the point of control is     *)
(* between its ends.                                                       *)
ValueAreaIsSmallest == Enough(frame) /\ Total(frame) > 0 =>
    LET hist == Hist(frame)
        area == ValueArea(hist)
        all == In(hist, 1 .. Bins)
    IN  /\ all = Total(frame)
        /\ 10 * In(hist, area) >= 7 * all
        /\ \A S \in SUBSET (1 .. Bins) :
             Cardinality(S) < Cardinality(area) => 10 * In(hist, S) < 7 * all
        /\ Min(area) <= Poc(hist) /\ Poc(hist) <= Max(area)

(* "Grow out from POC": the value area is one block of neighbouring bins.  *)
ValueAreaIsContiguous ==
    Enough(frame) => ValueArea(Hist(frame)) = Val(frame) .. Vah(frame)

(* "it never trades on volume alone": without volume there is no bias.     *)
NoVolumeNoBias == Enough(frame) /\ Total(frame) = 0 => Bias(frame) = "neutral"
=============================================================================
