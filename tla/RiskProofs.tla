------------------------------ MODULE RiskProofs ------------------------------
(***************************************************************************)
(* Proofs about the two halves of RiskEngine.evaluate, for every watchlist,*)
(* correlation table, contract, account and limit: what the gate tests of  *)
(* one order is what holds of the whole book after any order of fills and  *)
(* closes, a losing run is bounded, and no trade risks more than the       *)
(* policy's maximum, although no line of the code tests that.              *)
(***************************************************************************)
EXTENDS MCRisk, FiniteSetTheorems, TLAPS

USE MarketsAssumption, CapsAssumption, LocksAssumption

(* The part of the types the proofs use.                                   *)
Typed == /\ open \subseteq Position /\ IsFiniteSet(open) /\ booked \subseteq open
         /\ streak \in Nat /\ unbooked \in Nat /\ behind \in Nat
         /\ blind \in BOOLEAN

RiskInv == Typed /\ BookWithinCaps /\ LosingRunBounded

-----------------------------------------------------------------------------
(* Books *)

LEMMA CountType ==
    ASSUME NEW ps, IsFiniteSet(ps)
    PROVE  Cardinality(ps) \in Nat
  BY FS_CardinalityType

LEMMA MarketIsFinite ==
    ASSUME NEW ps, IsFiniteSet(ps), NEW m
    PROVE  IsFiniteSet(InMarket(m, ps)) /\ Cardinality(InMarket(m, ps)) \in Nat
<1>1. InMarket(m, ps) \subseteq ps
  BY DEF InMarket
<1> QED BY <1>1, FS_Subset, CountType

\* A correlation runs both ways.
LEMMA PeersSymmetric ==
    ASSUME NEW s, NEW t, s \in Peers(t)
    PROVE  t \in Peers(s)
<1>1. s # t /\ \E g \in Groups : t \in g /\ s \in g
  BY DEF Peers
<1>2. PICK g \in Groups : t \in g /\ s \in g
  BY <1>1
<1>3. t \in UNION {h \in Groups : s \in h}
  BY <1>2
<1> QED BY <1>1, <1>3 DEF Peers

\* A new position in a book adds one to it and one to its own market.
LEMMA AddToBook ==
    ASSUME NEW ps, IsFiniteSet(ps), NEW p, p \notin ps
    PROVE  LET qs == ps \cup {p}
           IN  /\ IsFiniteSet(qs) /\ Cardinality(qs) = Cardinality(ps) + 1
               /\ \A m : Cardinality(InMarket(m, qs)) =
                    IF Market[p.sym] = m THEN Cardinality(InMarket(m, ps)) + 1
                                         ELSE Cardinality(InMarket(m, ps))
<1> DEFINE qs == ps \cup {p}
<1>1. IsFiniteSet(qs) /\ Cardinality(qs) = Cardinality(ps) + 1
  BY FS_AddElement
<1>2. ASSUME NEW m
      PROVE  Cardinality(InMarket(m, qs)) =
               IF Market[p.sym] = m THEN Cardinality(InMarket(m, ps)) + 1
                                    ELSE Cardinality(InMarket(m, ps))
  <2>1. CASE Market[p.sym] = m
    <3>1. InMarket(m, qs) = InMarket(m, ps) \cup {p} /\ p \notin InMarket(m, ps)
      BY <2>1 DEF InMarket
    <3>2. IsFiniteSet(InMarket(m, ps))
      BY MarketIsFinite
    <3> QED BY <2>1, <3>1, <3>2, FS_AddElement
  <2>2. CASE Market[p.sym] # m
    <3>1. InMarket(m, qs) = InMarket(m, ps)
      BY <2>2 DEF InMarket
    <3> QED BY <2>2, <3>1
  <2> QED BY <2>1, <2>2
<1> QED BY <1>1, <1>2

\* A position that ends leaves a book that is smaller by one and no larger in
\* any market.
LEMMA TakeFromBook ==
    ASSUME NEW ps, IsFiniteSet(ps), NEW p \in ps
    PROVE  LET qs == ps \ {p}
           IN  /\ IsFiniteSet(qs) /\ Cardinality(qs) = Cardinality(ps) - 1
               /\ \A m : Cardinality(InMarket(m, qs)) <= Cardinality(InMarket(m, ps))
<1> DEFINE qs == ps \ {p}
<1>1. IsFiniteSet(qs) /\ Cardinality(qs) = Cardinality(ps) - 1
  BY FS_RemoveElement
<1>2. ASSUME NEW m
      PROVE  Cardinality(InMarket(m, qs)) <= Cardinality(InMarket(m, ps))
  <2>1. InMarket(m, qs) \subseteq InMarket(m, ps)
    BY DEF InMarket
  <2>2. IsFiniteSet(InMarket(m, ps))
    BY MarketIsFinite
  <2> QED BY <2>1, <2>2, FS_Subset
<1> QED BY <1>1, <1>2

\* The positions whose row is open: fewer than all of them.
LEMMA LiveIsFinite ==
    ASSUME NEW ps, IsFiniteSet(ps), NEW qs
    PROVE  /\ IsFiniteSet(ps \ qs)
           /\ Cardinality(ps \ qs) \in Nat /\ Cardinality(ps \ qs) <= Cardinality(ps)
  BY FS_Subset, CountType, ps \ qs \subseteq ps

\* One of them less.
LEMMA OneLiveLess ==
    ASSUME NEW ps, IsFiniteSet(ps), NEW qs, NEW p \in ps \ qs, NEW us,
           us = (ps \ qs) \ {p}
    PROVE  Cardinality(us) = Cardinality(ps \ qs) - 1
  BY LiveIsFinite, FS_RemoveElement

-----------------------------------------------------------------------------
\* An order, approved on whatever book, adds one well-formed position and leaves
\* the journal alone.
LEMMA EnterTypes ==
    ASSUME Typed, NEW s \in Symbols, NEW d \in Directions, NEW ps, Enter(s, d, ps)
    PROVE  /\ open' \subseteq Position /\ IsFiniteSet(open') /\ open \subseteq open'
           /\ UNCHANGED <<booked, unbooked, streak>>
           /\ behind' \in Nat /\ behind' >= behind /\ behind' >= unbooked
<1>1. PICK k \in Tickets : open' = open \cup {[ticket |-> k, sym |-> s, dir |-> d]}
  BY DEF Enter
<1> DEFINE new == [ticket |-> k, sym |-> s, dir |-> d]
<1>2. new \in Position
  BY DEF Position
<1>3. /\ UNCHANGED <<booked, unbooked, streak>>
      /\ behind' = IF unbooked > behind THEN unbooked ELSE behind
  BY DEF Enter, journal
<1> HIDE DEF new
<1>4. open' = open \cup {new}
  BY <1>1 DEF new
<1>5. IsFiniteSet(open')
  BY <1>4, FS_AddElement DEF Typed
<1>6. behind' \in Nat /\ behind' >= behind /\ behind' >= unbooked
  BY <1>3 DEF Typed
<1> QED BY <1>2, <1>3, <1>4, <1>5, <1>6 DEF Typed

\* An approved order leaves every cap standing.
LEMMA EnterKeepsCaps ==
    ASSUME Typed, CountCap(open), MarketCap(open), NoDoubledBet(open),
           NEW s \in Symbols, NEW d \in Directions, Enter(s, d, open)
    PROVE  /\ CountCap(open') /\ MarketCap(open') /\ NoDoubledBet(open')
           /\ open' \subseteq Position /\ IsFiniteSet(open')
           /\ Cardinality(open') = Cardinality(open) + 1
           /\ Cardinality(open') <= MaxOpen
<1>1. PICK k \in Tickets : /\ \A p \in open : p.ticket # k
                           /\ open' = open \cup {[ticket |-> k, sym |-> s, dir |-> d]}
  BY DEF Enter
<1> DEFINE new == [ticket |-> k, sym |-> s, dir |-> d]
<1>2. /\ WithinCaps(s, open) /\ Uncorrelated(s, d, open)
      /\ new \notin open /\ new \in Position
      /\ new.sym = s /\ new.dir = d
  BY <1>1 DEF Enter, Approved, Position
<1>3. /\ IsFiniteSet(open') /\ Cardinality(open') = Cardinality(open) + 1
      /\ \A m : Cardinality(InMarket(m, open')) =
           IF Market[s] = m THEN Cardinality(InMarket(m, open)) + 1
                            ELSE Cardinality(InMarket(m, open))
  <2> HIDE DEF new
  <2>1. IsFiniteSet(open) /\ open' = open \cup {new}
    BY <1>1 DEF Typed, new
  <2> QED BY <1>2, <2>1, AddToBook
<1>4. Cardinality(open) \in Nat /\ Cardinality(open) < MaxOpen
  BY <1>2, CountType DEF Typed, WithinCaps
<1>5. CountCap(open')
  BY <1>2, <1>3, <1>4 DEF CountCap, WithinCaps
<1>6. MarketCap(open')
  BY <1>2, <1>3 DEF MarketCap, WithinCaps
<1>7. NoDoubledBet(open')
  <2> SUFFICES ASSUME NEW p \in open', NEW q \in open', q.sym \in Peers(p.sym)
               PROVE  q.dir # p.dir
    BY DEF NoDoubledBet
  <2>1. CASE p \in open /\ q \in open
    BY <2>1 DEF NoDoubledBet
  <2>2. CASE p = new /\ q \in open
    BY <1>2, <2>2 DEF Uncorrelated
  <2>3. CASE p \in open /\ q = new
    <3>1. p.sym \in Peers(s)
      BY <1>2, <2>3, PeersSymmetric
    <3> QED BY <1>2, <2>3, <3>1 DEF Uncorrelated
  <2>4. CASE p = new /\ q = new
    BY <2>4 DEF Peers
  <2> QED BY <1>1, <2>1, <2>2, <2>3, <2>4
<1>8. open' \subseteq Position
  BY EnterTypes
<1>9. Cardinality(open') <= MaxOpen
  BY <1>3, <1>4
<1> QED BY <1>3, <1>5, <1>6, <1>7, <1>8, <1>9

\* What ends only makes room.
LEMMA CloseKeepsCaps ==
    ASSUME Typed, CountCap(open), MarketCap(open), NoDoubledBet(open),
           NEW p \in open, open' = open \ {p}
    PROVE  CountCap(open') /\ MarketCap(open') /\ NoDoubledBet(open')
<1>1. /\ Cardinality(open') = Cardinality(open) - 1
      /\ \A m : Cardinality(InMarket(m, open')) <= Cardinality(InMarket(m, open))
      /\ IsFiniteSet(open')
  BY TakeFromBook DEF Typed
<1>2. Cardinality(open) \in Nat /\ Cardinality(open') \in Nat
  BY <1>1, CountType DEF Typed
<1>3. CountCap(open')
  <2>1. Cardinality(open') * RiskPct <= Cardinality(open) * RiskPct
    BY <1>1, <1>2
  <2>2. Cardinality(open') * RiskPct \in Nat /\ Cardinality(open) * RiskPct \in Nat
    BY <1>2
  <2> QED BY <1>1, <1>2, <2>1, <2>2 DEF CountCap
<1>4. MarketCap(open')
  <2> SUFFICES ASSUME NEW m \in Markets
               PROVE  Cardinality(InMarket(m, open')) * RiskPct <= MaxExposure[m]
    BY DEF MarketCap
  <2> DEFINE a == Cardinality(InMarket(m, open'))
             b == Cardinality(InMarket(m, open))
  <2>1. a \in Nat /\ b \in Nat /\ a <= b
    BY <1>1, MarketIsFinite DEF Typed
  <2>2. b * RiskPct <= MaxExposure[m] /\ MaxExposure[m] \in Nat
    BY DEF MarketCap
  <2> HIDE DEF a, b
  <2>3. a * RiskPct <= b * RiskPct /\ a * RiskPct \in Nat /\ b * RiskPct \in Nat
    BY <2>1
  <2>4. a * RiskPct <= MaxExposure[m]
    BY <2>2, <2>3
  <2> QED BY <2>4 DEF a
<1>5. NoDoubledBet(open')
  BY DEF NoDoubledBet
<1> QED BY <1>3, <1>4, <1>5

-----------------------------------------------------------------------------
LEMMA InitRisk == Init => RiskInv
<1> SUFFICES ASSUME Init PROVE RiskInv
  OBVIOUS
<1>1. IsFiniteSet({}) /\ Cardinality({}) = 0
  BY FS_EmptySet
<1>2. /\ open = {} /\ booked = {} /\ unbooked = 0 /\ behind = 0
      /\ streak = 0 /\ blind = FALSE
  BY DEF Init
<1>3. \A m : InMarket(m, open) = {}
  BY <1>2 DEF InMarket
<1>4. CountCap(open)
  BY <1>1, <1>2 DEF CountCap
<1>5. MarketCap(open)
  <2> SUFFICES ASSUME NEW m \in Markets
               PROVE  Cardinality(InMarket(m, open)) * RiskPct <= MaxExposure[m]
    BY DEF MarketCap
  <2>1. Cardinality(InMarket(m, open)) = 0 /\ MaxExposure[m] \in Nat
    BY <1>1, <1>3
  <2> QED BY <2>1
<1>6. NoDoubledBet(open)
  BY <1>2 DEF NoDoubledBet
<1>7. Typed
  BY <1>1, <1>2 DEF Typed
<1>8. LosingRunBounded
  <2>1. open \ booked = {}
    BY <1>2
  <2> QED BY <1>1, <1>2, <2>1 DEF LosingRunBounded
<1> QED BY <1>4, <1>5, <1>6, <1>7, <1>8 DEF RiskInv, BookWithinCaps

LEMMA NextRisk == RiskInv /\ [Next]_vars => RiskInv'
<1> SUFFICES ASSUME RiskInv, [Next]_vars PROVE RiskInv'
  OBVIOUS
<1>1. Typed
  BY DEF RiskInv
<1>2. /\ Cardinality(open) \in Nat
      /\ Cardinality(open \ booked) \in Nat /\ IsFiniteSet(open \ booked)
  BY <1>1, CountType, LiveIsFinite DEF Typed
\* The gate is closed at MaxStreak, and the book it saw has room for one more.
<1>3. CASE Order
  <2>1. PICK s \in Symbols, d \in Directions : Enter(s, d, open) /\ UNCHANGED blind
    BY <1>3 DEF Order
  <2>2. streak < MaxStreak
    BY <2>1 DEF Enter, Approved, Unlocked
  <2>3. /\ open' \subseteq Position /\ IsFiniteSet(open') /\ open \subseteq open'
        /\ UNCHANGED <<booked, unbooked, streak>>
        /\ behind' \in Nat /\ behind' >= unbooked
    BY <1>1, <2>1, EnterTypes
  <2>4. Typed'
    BY <1>1, <2>1, <2>3 DEF Typed
  <2>5. CASE blind
    BY <2>1, <2>4, <2>5 DEF RiskInv, BookWithinCaps, LosingRunBounded
  <2>6. CASE ~blind
    <3>1. CountCap(open) /\ MarketCap(open) /\ NoDoubledBet(open)
      BY <2>6 DEF RiskInv, BookWithinCaps
    <3>2. /\ CountCap(open') /\ MarketCap(open') /\ NoDoubledBet(open')
          /\ Cardinality(open') <= MaxOpen
      BY <1>1, <2>1, <3>1, EnterKeepsCaps
    <3>3. /\ Cardinality(open') \in Nat
          /\ Cardinality(open' \ booked') \in Nat
          /\ Cardinality(open' \ booked') <= Cardinality(open')
      BY <2>3, CountType, LiveIsFinite
    <3>4. streak' + Cardinality(open' \ booked') + unbooked' < MaxStreak + MaxOpen + behind'
      BY <1>1, <2>2, <2>3, <3>2, <3>3 DEF Typed
    <3> QED BY <2>4, <3>2, <3>4 DEF RiskInv, BookWithinCaps, LosingRunBounded
  <2> QED BY <2>5, <2>6
<1>4. CASE OrderBlind
  <2>1. PICK s \in Symbols, d \in Directions : Enter(s, d, {}) /\ blind' = TRUE
    BY <1>4 DEF OrderBlind
  <2>2. Typed'
    BY <1>1, <2>1, EnterTypes DEF Typed
  <2> QED BY <2>1, <2>2 DEF RiskInv, BookWithinCaps, LosingRunBounded
\* A position that ends is one live position less and perhaps one unbooked more.
<1>5. CASE TerminalEnds
  <2>1. PICK p \in open :
          /\ open' = open \ {p} /\ UNCHANGED <<streak, blind, behind>>
          /\ \/ p \in booked /\ booked' = booked \ {p} /\ unbooked' = unbooked
             \/ p \notin booked /\ booked' = booked /\ unbooked' = unbooked + 1
    BY <1>5 DEF TerminalEnds, journal
  <2>2. IsFiniteSet(open') /\ open' \subseteq Position
    BY <1>1, <2>1, TakeFromBook DEF Typed
  <2>3. Typed'
    BY <1>1, <2>1, <2>2 DEF Typed
  <2>4. ~blind => CountCap(open') /\ MarketCap(open') /\ NoDoubledBet(open')
    BY <1>1, <2>1, CloseKeepsCaps DEF RiskInv, BookWithinCaps
  <2>5. Cardinality(open' \ booked') + unbooked' = Cardinality(open \ booked) + unbooked
    <3>1. CASE p \in booked
      <4>1. open' \ booked' = open \ booked
        BY <2>1, <3>1
      <4> QED BY <2>1, <3>1, <4>1
    <3>2. CASE p \notin booked
      <4>1. open' \ booked' = (open \ booked) \ {p}
        BY <2>1, <3>2
      <4>2. Cardinality(open' \ booked') = Cardinality(open \ booked) - 1
        BY <1>1, <3>2, <4>1, OneLiveLess DEF Typed
      <4> QED BY <1>1, <1>2, <2>1, <3>2, <4>2 DEF Typed
    <3> QED BY <3>1, <3>2
  <2>6. ~blind => streak + Cardinality(open \ booked) + unbooked < MaxStreak + MaxOpen + behind
    BY DEF RiskInv, LosingRunBounded
  <2>7. /\ Cardinality(open' \ booked') \in Nat
        /\ unbooked \in Nat /\ unbooked' \in Nat /\ streak \in Nat /\ behind \in Nat
    BY <1>1, <2>2, <2>3, LiveIsFinite DEF Typed
  <2>8. ~blind =>
          streak + Cardinality(open' \ booked') + unbooked' < MaxStreak + MaxOpen + behind
    BY <1>2, <2>5, <2>6, <2>7
  <2> QED BY <2>1, <2>3, <2>4, <2>8 DEF RiskInv, BookWithinCaps, LosingRunBounded
\* Booking it is at most one loss more.
<1>6. ASSUME NEW r \in Results, BookResult(r)
      PROVE  streak' \in Nat /\ streak' <= streak + 1 /\ UNCHANGED <<blind, behind>>
  BY <1>1, <1>6, BoundsAssumption DEF BookResult, NextStreak, Typed
<1>7. CASE BookEnded
  <2>1. /\ unbooked > 0 /\ unbooked' = unbooked - 1 /\ UNCHANGED <<open, booked>>
        /\ streak' \in Nat /\ streak' <= streak + 1 /\ UNCHANGED <<blind, behind>>
    BY <1>6, <1>7 DEF BookEnded
  <2>2. Typed'
    BY <1>1, <2>1 DEF Typed
  <2>3. ~blind => streak + Cardinality(open \ booked) + unbooked < MaxStreak + MaxOpen + behind
    BY DEF RiskInv, LosingRunBounded
  <2>4. ~blind => streak' + Cardinality(open \ booked) + unbooked' < MaxStreak + MaxOpen + behind
    BY <1>1, <1>2, <2>1, <2>3 DEF Typed
  <2>5. BookWithinCaps'
    BY <2>1 DEF RiskInv, BookWithinCaps, CountCap, MarketCap, NoDoubledBet, InMarket
  <2> QED BY <2>1, <2>2, <2>4, <2>5 DEF RiskInv, LosingRunBounded
<1>8. CASE CloseTrade
  <2>1. PICK p \in open \ booked :
          /\ streak' \in Nat /\ streak' <= streak + 1
          /\ UNCHANGED <<blind, behind, unbooked>>
          /\ \/ open' = open \ {p} /\ booked' = booked
             \/ booked' = booked \cup {p} /\ open' = open
    BY <1>6, <1>8 DEF CloseTrade
  <2>2. open' \ booked' = (open \ booked) \ {p} /\ open' \subseteq open
    BY <2>1
  <2>3. Cardinality(open' \ booked') = Cardinality(open \ booked) - 1
    BY <1>1, <2>2, OneLiveLess DEF Typed
  <2>4. IsFiniteSet(open')
    BY <1>1, <2>2, FS_Subset DEF Typed
  <2>5. Typed'
    BY <1>1, <2>1, <2>4 DEF Typed
  <2>6. ~blind => CountCap(open') /\ MarketCap(open') /\ NoDoubledBet(open')
    <3>1. CASE open' = open
      BY <3>1 DEF RiskInv, BookWithinCaps, CountCap, MarketCap, NoDoubledBet, InMarket
    <3>2. CASE open' = open \ {p}
      BY <1>1, <3>2, CloseKeepsCaps DEF RiskInv, BookWithinCaps
    <3> QED BY <2>1, <3>1, <3>2
  <2>7. ~blind => streak + Cardinality(open \ booked) + unbooked < MaxStreak + MaxOpen + behind
    BY DEF RiskInv, LosingRunBounded
  <2>8. ~blind =>
          streak' + Cardinality(open' \ booked') + unbooked' < MaxStreak + MaxOpen + behind
    BY <1>1, <1>2, <2>1, <2>3, <2>7 DEF Typed
  <2> QED BY <2>1, <2>5, <2>6, <2>8 DEF RiskInv, BookWithinCaps, LosingRunBounded
\* Time moves the windows of results only.
<1>9. CASE UNCHANGED <<book, streak, blind, behind>>
  BY <1>9 DEF RiskInv, Typed, BookWithinCaps, LosingRunBounded, CountCap, MarketCap,
     NoDoubledBet, InMarket, book
<1>10. CASE DayPasses \/ WeekPasses \/ UNCHANGED vars
  BY <1>9, <1>10 DEF DayPasses, WeekPasses, vars, journal
<1> QED BY <1>3, <1>4, <1>5, <1>7, <1>8, <1>10 DEF Next

(* Types, caps and the bound of a losing run hold in every reachable state.*)
THEOREM RiskInvHolds == Spec => []RiskInv
  BY InitRisk, NextRisk, PTL DEF Spec

(* The book as a whole is within every cap of risk.yaml, for every         *)
(* watchlist, table of correlations and limits.                            *)
THEOREM BookWithinCapsHolds == Spec => []BookWithinCaps
<1>1. RiskInv => BookWithinCaps
  BY DEF RiskInv
<1> QED BY <1>1, RiskInvHolds, PTL

(* Whatever the limits, and however far the journal is behind the terminal,*)
(* the losses in a row and what can still become one stay below            *)
(* max_consecutive_losses + maximum_open_trades and what was unbooked when *)
(* an order passed.                                                        *)
THEOREM LosingRunBoundedHolds == Spec => []LosingRunBounded
<1>1. RiskInv => LosingRunBounded
  BY DEF RiskInv
<1> QED BY <1>1, RiskInvHolds, PTL

-----------------------------------------------------------------------------
(* The size *)

(* One lot's gain per point, times the points of the stop, as evaluate     *)
(* takes it and as it is.                                                  *)
LEMMA ContractTypes ==
    ASSUME NEW a \in Size!Asks
    PROVE  /\ Contract[a.sym] \in Nat \ {0}
           /\ Size!ContractFor(a) \in Nat \ {0}
           /\ Contract[a.sym] <= Size!ContractFor(a)
           /\ a.stop \in Nat /\ a.balance \in Nat
           /\ Size!Planned(a) \in Nat
           /\ a.balanceRead \/ BL_BALANCE <= a.balance =>
                Size!Planned(a) <= a.balance * RiskPct
           /\ QuoteValue[a.sym] \in Nat
  <1>1. /\ a.sym \in Tradable /\ a.stop \in Stops /\ a.balance \in Balances
        /\ a.balanceRead \in BOOLEAN
    BY DEF Size!Asks
  <1>2. /\ Contract[a.sym] \in Nat \ {0} /\ Default[a.sym] \in Nat \ {0}
        /\ Contract[a.sym] <= Default[a.sym] /\ QuoteValue[a.sym] \in Nat
    BY <1>1, RiskAssumption DEF Size!ContractsAssumption
  <1>3. /\ Contract[a.sym] <= Contract[a.sym]
        /\ Size!ContractFor(a) = Contract[a.sym] \/ Size!ContractFor(a) = Default[a.sym]
    BY <1>2 DEF Size!ContractFor
  <1>4. a.stop \in Nat /\ a.balance \in Nat /\ BL_BALANCE \in Nat /\ RiskPct \in Nat
    BY <1>1, RiskAssumption DEF Size!MoneyAssumption, Size!PolicyAssumption
  <1>5. \A x, y \in Nat : x * y \in Nat
    OBVIOUS
  <1>6. Size!Planned(a) \in Nat
    BY <1>4, <1>5 DEF Size!Planned
  <1>7. ASSUME a.balanceRead \/ BL_BALANCE <= a.balance
        PROVE  Size!Planned(a) <= a.balance * RiskPct
    <2>1. PICK b \in {a.balance, BL_BALANCE} : Size!Planned(a) = b * RiskPct /\ b <= a.balance
      BY <1>4, <1>7 DEF Size!Planned
    <2>2. \A x, y, k \in Nat : x <= y => x * k <= y * k
      OBVIOUS
    <2> QED
      BY <1>4, <2>1, <2>2
  <1> QED
    BY <1>2, <1>3, <1>4, <1>6, <1>7

(* A size of a step or more costs at most twice what was planned: rounding *)
(* up adds half a step, and the size before rounding was half a step or    *)
(* more.                                                                   *)
LEMMA RoundingAtMostDoubles ==
    ASSUME NEW num \in Nat, NEW den \in Nat \ {0},
           NEW n \in Size!Nearest(num, den), n >= 1
    PROVE  n \in Nat /\ n * den <= 2 * num
  <1>1. num \div den \in Int
    OBVIOUS
  <1>2. n \in Int /\ 2 * (n * den - num) <= den
    BY <1>1 DEF Size!Nearest
  <1>3. n * den \in Int /\ den <= n * den
    <2>1. n - 1 \in Nat
      BY <1>2
    <2>2. (n - 1) * den \in Nat /\ (n - 1) * den = n * den - den
      BY <2>1, <1>2
    <2> QED
      BY <2>2, <1>2
  <1> QED
    BY <1>2, <1>3

(* An approved trade is one of the asks, and its size is what evaluate     *)
(* computed for it.                                                        *)
SizeInv == /\ ask \in Size!Asks \cup {Size!NoAsk}
           /\ ask = Size!NoAsk => verdict = "none"
           /\ verdict = "approved" =>
                /\ ask \in Size!Asks
                /\ lot \in Size!Lots(ask)
                /\ Size!Approves(ask, lot)

LEMMA InitSize == Size!Init => SizeInv
  BY DEF Size!Init, SizeInv

LEMMA NextSize == SizeInv /\ [Size!Next]_(Size!vars) => SizeInv'
<1> SUFFICES ASSUME SizeInv, [Size!Next]_(Size!vars) PROVE SizeInv'
  OBVIOUS
<1>1. CASE Size!Ask
  <2>1. ask' \in Size!Asks /\ verdict' = verdict /\ verdict = "none"
    BY <1>1 DEF Size!Ask, SizeInv
  <2> QED
    BY <2>1 DEF SizeInv
<1>2. CASE Size!Evaluate
  <2>1. /\ ask # Size!NoAsk /\ ask' = ask /\ ask \in Size!Asks
    BY <1>2 DEF Size!Evaluate, Size!Unsized, SizeInv
  <2>2. PICK n \in Size!Lots(ask) :
          /\ verdict' = IF Size!Approves(ask, n) THEN "approved" ELSE "vetoed"
          /\ lot' = IF Size!Approves(ask, n) THEN n ELSE 0
    BY <1>2 DEF Size!Evaluate
  <2>3. verdict' = "approved" => lot' \in Size!Lots(ask) /\ Size!Approves(ask, lot')
    BY <2>2
  <2> HIDE DEF Size!Approves, Size!Lots
  <2> QED
    BY <2>1, <2>3 DEF SizeInv
<1>3. CASE Size!NextAsk
  BY <1>3 DEF Size!NextAsk, SizeInv
<1>4. CASE UNCHANGED Size!vars
  BY <1>4 DEF Size!vars, SizeInv
<1> QED BY <1>1, <1>2, <1>3, <1>4 DEF Size!Next

(* No approved trade loses more than max_risk_per_trade_pct at its stop,   *)
(* times what the quote currency is worth in the account's if that is more *)
(* than one, for every contract, rate, balance, stop and reward: rounding  *)
(* at most doubles the planned risk, the maximum is at least twice the     *)
(* plan, and the contract that was assumed is never smaller than the true  *)
(* one.                                                                    *)
THEOREM RiskWithinMaxHolds == Size!Spec => []RiskWithinMax
<1>1. ASSUME SizeInv PROVE RiskWithinMax
  <2> SUFFICES ASSUME verdict = "approved", ask.balanceRead \/ BL_BALANCE <= ask.balance
               PROVE  lot * ask.stop * Contract[ask.sym] * QuoteValue[ask.sym]
                        <= MaxRiskPct * ask.balance * Size!Worth(ask.sym)
    BY DEF RiskWithinMax, Size!RiskWithinMax, Size!Approved, Size!Loss, Size!BalanceCovered
  <2>1. ask \in Size!Asks /\ lot \in Size!Lots(ask) /\ Size!Approves(ask, lot)
    BY <1>1 DEF SizeInv
  <2> DEFINE den == ask.stop * Size!ContractFor(ask)
             cost == lot * ask.stop * Contract[ask.sym]
             limit == MaxRiskPct * ask.balance
  <2>2. /\ Contract[ask.sym] \in Nat \ {0} /\ Size!ContractFor(ask) \in Nat \ {0}
        /\ Contract[ask.sym] <= Size!ContractFor(ask)
        /\ ask.stop \in Nat /\ ask.balance \in Nat /\ Size!Planned(ask) \in Nat
        /\ Size!Planned(ask) <= ask.balance * RiskPct
        /\ QuoteValue[ask.sym] \in Nat
    BY <2>1, ContractTypes
  <2>3. ask.stop > 0 /\ lot >= 1
    BY <2>1 DEF Size!Approves
  <2>4. lot \in Size!Nearest(Size!Planned(ask), den)
    BY <2>1, <2>3 DEF Size!Lots
  <2>5. den \in Nat \ {0}
    BY <2>2, <2>3
  <2>6. lot \in Nat /\ lot * den <= 2 * Size!Planned(ask)
    BY <2>2, <2>3, <2>4, <2>5, RoundingAtMostDoubles
  <2>7. cost <= lot * den
    <3>1. lot * ask.stop \in Nat
      BY <2>2, <2>6
    <3>2. \A k, x, y \in Nat : x <= y => k * x <= k * y
      OBVIOUS
    <3>3. lot * den = (lot * ask.stop) * Size!ContractFor(ask)
      BY <2>2, <2>6
    <3> QED
      BY <2>2, <3>1, <3>2, <3>3
  <2>8. 2 * (ask.balance * RiskPct) <= limit
    <3>1. RiskPct \in Nat /\ MaxRiskPct \in Nat /\ 2 * RiskPct <= MaxRiskPct
      BY RiskAssumption DEF Size!PolicyAssumption
    <3>2. \A k, x, y \in Nat : 2 * x <= y => 2 * (k * x) <= y * k
      OBVIOUS
    <3> QED
      BY <2>2, <3>1, <3>2
  <2>9. /\ cost \in Nat /\ limit \in Nat /\ lot * den \in Nat
        /\ ask.balance * RiskPct \in Nat
    <3>1. \A x, y \in Nat : x * y \in Nat
      OBVIOUS
    <3>2. RiskPct \in Nat /\ MaxRiskPct \in Nat
      BY RiskAssumption DEF Size!PolicyAssumption
    <3>3. lot * ask.stop \in Nat
      BY <2>2, <2>6, <3>1
    <3> QED
      BY <2>2, <2>5, <2>6, <3>1, <3>2, <3>3
  <2> HIDE DEF den, cost, limit
  <2>10. cost <= limit
    BY <2>2, <2>6, <2>7, <2>8, <2>9
  <2>11. QuoteValue[ask.sym] <= Size!Worth(ask.sym) /\ Size!Worth(ask.sym) \in Nat
    BY <2>2 DEF Size!Worth
  <2>12. cost * QuoteValue[ask.sym] <= limit * Size!Worth(ask.sym)
    <3>1. \A w, x, y, z \in Nat : w <= x /\ y <= z => w * y <= x * z
      OBVIOUS
    <3> QED
      BY <2>2, <2>9, <2>10, <2>11, <3>1
  <2> QED
    BY <2>12 DEF cost, limit
<1>2. Size!Spec => []SizeInv
  BY InitSize, NextSize, PTL DEF Size!Spec
<1> QED BY <1>1, <1>2, PTL
=============================================================================
