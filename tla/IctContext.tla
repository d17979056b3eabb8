------------------------------ MODULE IctContext ------------------------------
(***************************************************************************)
(* ICTEngine.analyze on the swings and the trend of the same frame, as the *)
(* pipeline calls it: which half of the dealing range the close is in, the *)
(* 62-79% retracement (OTE), the kill zone of the hour, the Judas swing,   *)
(* the AMD phase and the score.  The pipeline passes no correlated asset,  *)
(* so there is no SMT divergence, and nothing ever sets a breaker block.   *)
(*                                                                         *)
(* Prices are ticks; comparisons are multiplied out.  The edges of the     *)
(* ranges are at no tick unless the range is a multiple of 10 (half) or of *)
(* 50 ticks (OTE), where the program's floating point could go either way. *)
(***************************************************************************)
EXTENDS MarketStructure

CONSTANT AmdBars      \* bars of the recent and of the prior range: 10

ASSUME AmdAssumption == AmdBars \in Nat \ {0}

-----------------------------------------------------------------------------
(* The dealing range: from the lowest to the highest pivot *)

Pivots(f, k) == {Price(f, i) : i \in OfKind(f, k)}
RangeHigh(f) == IF OfKind(f, "high") # {} THEN Max(Pivots(f, "high"))
                ELSE Max({f[i].hi : i \in DOMAIN f})
RangeLow(f) == IF OfKind(f, "low") # {} THEN Min(Pivots(f, "low"))
               ELSE Min({f[i].lo : i \in DOMAIN f})

\* The range is negative when every high pivot lies below every low pivot.
Half(f) ==
    LET high == RangeHigh(f)
        low == RangeLow(f)
        above == 20 * Close(f) - 10 * (high + low)   \* the equilibrium, times 20
    IN  IF above > high - low THEN "Premium"
        ELSE IF above < low - high THEN "Discount" ELSE "Equilibrium"

Bullish(f) == Trend(f) = "bullish"

\* Wrong on purpose: the leg is measured from its origin.
Retraced_FromOrigin(f, high, low) == IF Bullish(f) THEN Close(f) - low ELSE high - Close(f)

\* How far the close has come back; a sideways trend is measured as a bearish one.
Retraced(f, high, low) == IF Bullish(f) THEN high - Close(f) ELSE Close(f) - low

Between(x, a, b) == (a <= x /\ x <= b) \/ (b <= x /\ x <= a)
Ote(f) == LET high == RangeHigh(f)
              low == RangeLow(f)
          IN  /\ high # low
              /\ Between(100 * Retraced(f, high, low), 62 * (high - low), 79 * (high - low))

-----------------------------------------------------------------------------
(* Sessions: hours are UTC; the windows start and end on the hour *)

KillZones == <<[name |-> "asian", start |-> 0, end |-> 4],
               [name |-> "london", start |-> 7, end |-> 10],
               [name |-> "new_york", start |-> 12, end |-> 15],
               [name |-> "ln_ny_overlap", start |-> 12, end |-> 16]>>

InWindow(h, w) == IF w.start <= w.end THEN w.start <= h /\ h < w.end
                                      ELSE w.start <= h \/ h < w.end

\* The first window in the order of sessions.yaml.
KillZone(h) == LET open == {i \in DOMAIN KillZones : InWindow(h, KillZones[i])}
               IN  IF open = {} THEN "none" ELSE KillZones[Min(open)].name

-----------------------------------------------------------------------------
(* _judas_swing, _amd_phase, _score *)

Judas(f, h) ==
    /\ KillZone(h) # "none"
    /\ LET b == f[Len(f)] IN
         \/ b.hi > RangeHigh(f) /\ b.close < RangeHigh(f)
         \/ b.lo < RangeLow(f) /\ b.close > RangeLow(f)

Span(f, S) == Max({f[i].hi : i \in S}) - Min({f[i].lo : i \in S})
AmdPhase(f) ==
    IF Len(f) < 2 * AmdBars THEN "none"
    ELSE LET n == Len(f)
             recent == Span(f, n - AmdBars + 1 .. n)
             prior == Span(f, n - 2 * AmdBars + 1 .. n - AmdBars)
         IN  CASE prior <= 0 -> "none"
               [] prior > 0 /\ 10 * recent < 7 * prior -> "Accumulation"
               [] prior > 0 /\ 10 * recent > 14 * prior -> "Distribution"
               [] OTHER -> "Manipulation"

Textbook(f, half) == half = IF Bullish(f) THEN "Discount" ELSE "Premium"
Score(f, h) ==
    LET half == Half(f)
    IN  25 + (IF Textbook(f, half) THEN 25 ELSE IF half = "Equilibrium" THEN 8 ELSE 0)
           + (IF Ote(f) THEN 22 ELSE 0)
           + (IF KillZone(h) # "none" THEN 13 ELSE 0)
           + (IF Judas(f, h) THEN 8 ELSE 0)

-----------------------------------------------------------------------------
(* An optimal entry is at the textbook location: as long as the pivots are *)
(* in order the OTE of the trend lies in the half that the location gate   *)
(* of RuleEngine.evaluate wants for it, so the OTE bonus of the confidence *)
(* never goes to a chart that is rejected for its half, and an OTE scores  *)
(* 72 at least, in a kill zone (8 h) or out of one (5 h).                  *)
OteInTextbookHalf ==
    Ote(frame) /\ RangeHigh(frame) > RangeLow(frame) =>
        Textbook(frame, Half(frame)) /\ \A h \in {5, 8} : Score(frame, h) >= 72
=============================================================================
