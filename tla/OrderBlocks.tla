----------------------------- MODULE OrderBlocks -----------------------------
(***************************************************************************)
(* OrderBlockEngine.analyze on a frame of candles: a displacement, a body  *)
(* well above the average one, turns the opposing candle before it into an *)
(* order block; its score decides whether it is recorded, _dedup merges    *)
(* recorded blocks whose zones overlap, and the best one is what the rule  *)
(* engine looks at.  Prices are ticks; the score is exact, rounded as      *)
(* Python rounds it.                                                       *)
(***************************************************************************)
EXTENDS Candles, SequencesExt, ScoreMath   \* Bars are [op, hi, lo, close]

CONSTANTS MinDisp,    \* minimum_displacement_atr, in tenths
          BodyBars,   \* bars of the average body
          Atr,        \* ATR, the average body of bars without a body
          MinRecord   \* minimum_score

BlockAssumption == /\ FrameAssumption
                   /\ MinDisp \in Nat \ {0} /\ BodyBars \in Nat \ {0} /\ MinRecord \in 0 .. 100
                   /\ Atr \in Nat \ {0} /\ Bars \subseteq [op : Int, hi : Int, lo : Int, close : Int]
                   /\ \A b \in Bars : {b.op, b.close} \subseteq b.lo .. b.hi

-----------------------------------------------------------------------------
(* Displacement *)

Body(b) == IF b.close > b.op THEN b.close - b.op ELSE b.op - b.close
Up(b) == b.close > b.op
Down(b) == b.close < b.op

\* The average body is BodySum over BodyCount.
BodyCount(f) == IF Len(f) < BodyBars THEN Len(f) ELSE BodyBars
BodySum(f) == LET sum == MapThenSumSet(LAMBDA j : Body(f[j]), Len(f) - BodyCount(f) + 1 .. Len(f))
              IN  IF sum = 0 THEN BodyCount(f) * Atr ELSE sum

\* Bars whose predecessor is an order block; the newest bar cannot be one.
Displaces(f, i) == /\ 10 * BodyCount(f) * Body(f[i]) >= MinDisp * BodySum(f)
                   /\ \/ Up(f[i]) /\ Down(f[i - 1])
                      \/ Down(f[i]) /\ Up(f[i - 1])

Displacements(f) == {i \in 3 .. Len(f) - 1 : Displaces(f, i)}

-----------------------------------------------------------------------------
(* One block *)

After(f, i) == i + 1 .. Len(f)

Touched(f, i) == \E j \in After(f, i) : f[j].lo <= f[i - 1].hi /\ f[j].hi >= f[i - 1].lo

Height(f, i) == f[i - 1].hi - f[i - 1].lo

\* How far price went beyond the zone since, in the direction of displacement.
Beyond(f, i) == Max({0} \cup {IF Up(f[i]) THEN f[j].hi - f[i - 1].hi
                              ELSE f[i - 1].lo - f[j].lo : j \in After(f, i)})

\* _score: 40, up to 25 for the body, up to 20 for the follow-through and 15
\* for a fresh zone, over the common divisor d.  The 1e-9 that guards the
\* follow-through's division makes it a hair smaller.
Score(f, i) ==
    LET d == 3 * BodySum(f) * Height(f, i)
        body == Smaller(25 * d, 45 * Body(f[i]) * BodyCount(f) * Height(f, i))
        follow == Smaller(20 * d, 20 * Beyond(f, i) * BodySum(f))
        sum == 40 * d + body + follow + Award(~Touched(f, i), 15 * d)
    IN  IF 0 < follow /\ follow < 20 * d THEN RoundedBelow(sum, d) ELSE Rounded(sum, d)

OrderBlock(f, i) == [idx |-> i - 1, type |-> IF Up(f[i]) THEN "bullish" ELSE "bearish",
                     lo |-> f[i - 1].lo, hi |-> f[i - 1].hi,
                     fresh |-> ~Touched(f, i), score |-> Score(f, i)]

\* What the scan records, by the displacements.
Recorded(f) == {i \in Displacements(f) : Score(f, i) >= MinRecord}
Blocks(f) == {OrderBlock(f, i) : i \in Recorded(f)}

-----------------------------------------------------------------------------
(* _dedup and the best block *)

Overlap(a, b) == a.type = b.type /\ a.lo <= b.hi /\ b.lo <= a.hi

\* Wrong on purpose: of two zones that overlap the newer one is kept.
Merge_Newest(out, b) ==
    IF out = <<>> \/ ~Overlap(out[Len(out)], b) THEN Append(out, b)
    ELSE [out EXCEPT ![Len(out)] = b]

\* A block is compared with the last one kept only; the higher score stays.
Merge(out, b) ==
    IF out = <<>> \/ ~Overlap(out[Len(out)], b) THEN Append(out, b)
    ELSE IF b.score > out[Len(out)].score THEN [out EXCEPT ![Len(out)] = b]
    ELSE out

\* Block by block, in the order of the bars.
Kept(f) ==
    LET recorded == Recorded(f)
        kept[n \in 0 .. Len(f)] ==
            IF n = 0 THEN <<>>
            ELSE IF n \in recorded THEN Merge(kept[n - 1], OrderBlock(f, n)) ELSE kept[n - 1]
    IN  kept[Len(f)]

Ranks(a, b) == (a.fresh /\ ~b.fresh) \/ (a.fresh = b.fresh /\ a.score >= b.score)

\* The first of the highest by freshness, then score.
Best(f) == LET top == {k \in DOMAIN Kept(f) : \A m \in DOMAIN Kept(f) : Ranks(Kept(f)[k], Kept(f)[m])}
           IN IF top = {} THEN <<>> ELSE <<Kept(f)[Min(top)]>>

-----------------------------------------------------------------------------
(* Merging zones never costs a direction its strongest block: the highest  *)
(* score recorded on a side is still there after _dedup.                   *)
StrongestSurvives == \A b \in Blocks(frame) :
    \E k \in ToSet(Kept(frame)) : k.type = b.type /\ k.score >= b.score

(* A used zone stays used: once price has come back into a block, no later *)
(* bar makes it fresh again, whatever happens to its score meanwhile.      *)
UsedStaysUsed ==
    [][\A a \in Blocks(frame) : \A b \in Blocks(frame') :
         b.idx = Moved(a.idx) /\ b.fresh => a.fresh]_frame

(* An untouched zone behind a displacement is never refused by its score:  *)
(* the threshold of the body, the points it earns and minimum_score fit.   *)
FreshIsRecorded == \A i \in Displacements(frame) :
    ~Touched(frame, i) => \E b \in Blocks(frame) : b.idx = i - 1

(* A zone that was used is kept only where it has paid: price ran more     *)
(* than 1.4 heights beyond it since.                                       *)
UsedMustHavePaid == \A i \in Displacements(frame) :
    (\E b \in ToSet(Kept(frame)) : b.idx = i - 1 /\ ~b.fresh)
        => 10 * Beyond(frame, i) > 14 * Height(frame, i)

(* The kept zones are said to be ranked "fresh + score": a side that has a *)
(* fresh block still has one after _dedup.                                 *)
FreshSurvives == \A b \in Blocks(frame) : b.fresh =>
    \E k \in ToSet(Kept(frame)) : k.type = b.type /\ k.fresh
=============================================================================
