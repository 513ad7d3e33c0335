---------------------------- MODULE BacktestProofs ----------------------------
(***************************************************************************)
(* Proofs about Backtest and its parts, WalkForward and BacktestLedger,    *)
(* for every length of the data, configuration, number of symbols and      *)
(* rows, and all prices, targets, rates and costs.                         *)
(***************************************************************************)
EXTENDS Backtest, TLAPS, FiniteSetTheorems, WellFoundedInduction

-----------------------------------------------------------------------------
(* The folds.  The loop keeps its next window behind all tests so far, and   *)
(* exactly one step and embargo behind the last one.                         *)

\* Every window of the loop makes a fold: the folds are those of FoldsDoNotLeak and lie
\* before the next window.
FoldsPrecede ==
    \A i \in 1 .. Len(folds) :
        /\ 0 <= folds[i].trainStart /\ folds[i].trainStart < folds[i].trainEnd
        /\ folds[i].trainEnd + settings.purge <= folds[i].testStart
        /\ folds[i].testStart < folds[i].testEnd /\ folds[i].testEnd <= settings.total
        /\ folds[i].testEnd <= testStart

FoldsAreOrdered ==
    \A i, k \in 1 .. Len(folds) : i < k => folds[i].testEnd <= folds[k].testStart

FoldsAreEvenlySpaced ==
    /\ folds = <<>> => testStart = settings.train + settings.purge
    /\ folds # <<>> =>
        /\ ~Refused /\ Usable
        /\ folds[1].testStart = settings.train + settings.purge
        /\ testStart = folds[Len(folds)].testStart + Step + settings.embargo
    /\ \A i \in 1 .. Len(folds) - 1 :
           folds[i + 1].testStart = folds[i].testStart + Step + settings.embargo

WalkForwardInvariant ==
    /\ WalkForwardTypeOK
    /\ settings.train + settings.purge <= testStart
    /\ FoldsPrecede
    /\ FoldsAreOrdered
    /\ FoldsAreEvenlySpaced
    /\ outcome = "built" => folds # <<>> /\ ~Fits

\* The configuration consists of numbers, and so does the step.
LEMMA SettingsType ==
    ASSUME settings \in Settings
    PROVE  /\ settings.total \in Nat /\ settings.train \in Nat /\ settings.test \in Nat
           /\ settings.step \in Nat /\ settings.purge \in Nat /\ settings.embargo \in Nat
           /\ Step \in Nat
BY SettingsAssumption DEF Step

\* A window that is used trains on bars that end the purged bars before its test.
LEMMA BoundaryIsSound ==
    ASSUME WalkForwardTypeOK, settings.train + settings.purge <= testStart, Usable, Fits
    PROVE  /\ Boundary \in Boundaries
           /\ 0 <= Boundary.trainStart /\ Boundary.trainStart < Boundary.trainEnd
           /\ Boundary.trainEnd + settings.purge <= Boundary.testStart
           /\ Boundary.testStart < Boundary.testEnd /\ Boundary.testEnd <= settings.total
           /\ Boundary.testStart = testStart
           /\ Boundary.testEnd = testStart + settings.test
<1>1. settings \in Settings /\ testStart \in Nat
  BY DEF WalkForwardTypeOK
<1>2. /\ settings.total \in Nat /\ settings.train \in Nat /\ settings.test \in Nat
      /\ settings.purge \in Nat
      /\ settings.train > 0 /\ settings.test > 0
  BY <1>1, SettingsType DEF Usable
<1>3. /\ Boundary.trainStart = IF TrainEnd < settings.train THEN 0 ELSE TrainEnd - settings.train
      /\ Boundary.trainEnd = TrainEnd /\ Boundary.testStart = testStart
      /\ Boundary.testEnd = testStart + settings.test
  BY DEF Boundary
<1>4. TrainEnd = testStart - settings.purge /\ settings.train <= TrainEnd
  BY <1>1, <1>2 DEF TrainEnd
<1>5. Boundary \in Boundaries
  BY <1>1, <1>2, <1>4 DEF Boundary, Boundaries
<1> QED BY <1>1, <1>2, <1>3, <1>4, <1>5 DEF Fits

\* A turn of the loop appends the window to the folds and moves on behind it.
LEMMA AddFoldAppends ==
    ASSUME WalkForwardInvariant, AddFold
    PROVE  /\ folds' = Append(folds, Boundary)
           /\ folds' \in Seq(Boundaries)
           /\ testStart' \in Nat /\ testStart' = testStart + Step + settings.embargo
           /\ testStart + settings.test <= testStart'
           /\ settings' = settings /\ outcome' = outcome /\ outcome = "building"
           /\ ~Refused /\ Usable /\ Step' = Step
<1>1. Boundary \in Boundaries /\ Boundary.trainEnd > Boundary.trainStart
  BY BoundaryIsSound, SettingsType DEF WalkForwardInvariant, AddFold, Boundaries
<1>2. settings \in Settings /\ testStart \in Nat /\ folds \in Seq(Boundaries)
  BY DEF WalkForwardInvariant, WalkForwardTypeOK
<1>3. folds' = Append(folds, Boundary)
  BY <1>1 DEF AddFold
<1>4. folds' \in Seq(Boundaries)
  BY <1>1, <1>2, <1>3
<1>5. ~Refused /\ Usable /\ settings' = settings /\ outcome' = outcome /\ outcome = "building"
  BY DEF AddFold
<1>6. Step >= settings.test
  BY <1>2, <1>5, SettingsType DEF Refused
<1>7. testStart' = testStart + Step + settings.embargo
  BY DEF AddFold
<1>8. Step' = Step
  BY <1>5 DEF Step
<1> QED BY <1>2, <1>3, <1>4, <1>5, <1>6, <1>7, <1>8, SettingsType

LEMMA AddFoldPreserves ==
    ASSUME WalkForwardInvariant, AddFold
    PROVE  WalkForwardInvariant'
<1> DEFINE n == Len(folds)
           b == Boundary
<1>1. /\ folds' = Append(folds, b) /\ folds' \in Seq(Boundaries)
      /\ testStart' \in Nat /\ testStart' = testStart + Step + settings.embargo
      /\ testStart + settings.test <= testStart'
      /\ settings' = settings /\ outcome' = outcome /\ outcome = "building"
      /\ ~Refused /\ Usable /\ Step' = Step
  BY AddFoldAppends
<1>2. /\ b \in Boundaries
      /\ 0 <= b.trainStart /\ b.trainStart < b.trainEnd
      /\ b.trainEnd + settings.purge <= b.testStart
      /\ b.testStart < b.testEnd /\ b.testEnd <= settings.total
      /\ b.testStart = testStart /\ b.testEnd = testStart + settings.test
  BY BoundaryIsSound DEF WalkForwardInvariant, AddFold
<1>3. /\ settings \in Settings /\ testStart \in Nat /\ folds \in Seq(Boundaries)
      /\ settings.train + settings.purge <= testStart
  BY DEF WalkForwardInvariant, WalkForwardTypeOK
<1>4. /\ n \in Nat /\ Len(folds') = n + 1
      /\ folds'[n + 1] = b
      /\ \A i \in 1 .. n : folds'[i] = folds[i] /\ folds[i] \in Boundaries
  <2> HIDE DEF b
  <2> QED BY <1>1, <1>2, <1>3
<1>5. \A i \in 1 .. n : folds[i].testStart \in Int /\ folds[i].testEnd \in Int
  BY <1>4 DEF Boundaries
<1> HIDE DEF b
<1>6. WalkForwardTypeOK'
  BY <1>1, <1>3 DEF WalkForwardInvariant, WalkForwardTypeOK
<1>7. (settings.train + settings.purge <= testStart)'
  BY <1>1, <1>3, SettingsType
<1>8. FoldsPrecede'
  <2> SUFFICES ASSUME NEW i \in 1 .. n + 1
               PROVE  /\ 0 <= folds'[i].trainStart /\ folds'[i].trainStart < folds'[i].trainEnd
                      /\ folds'[i].trainEnd + settings.purge <= folds'[i].testStart
                      /\ folds'[i].testStart < folds'[i].testEnd
                      /\ folds'[i].testEnd <= settings.total
                      /\ folds'[i].testEnd <= testStart'
    BY <1>1, <1>4 DEF FoldsPrecede
  <2>1. CASE i = n + 1
    BY <2>1, <1>1, <1>2, <1>4
  <2>2. CASE i \in 1 .. n
    <3>1. testStart <= testStart'
      BY <1>1, <1>3, SettingsType
    <3> QED BY <2>2, <3>1, <1>1, <1>3, <1>4, <1>5 DEF WalkForwardInvariant, FoldsPrecede
  <2> QED BY <2>1, <2>2, <1>4
<1>9. FoldsAreOrdered'
  <2> SUFFICES ASSUME NEW i \in 1 .. n + 1, NEW k \in 1 .. n + 1, i < k
               PROVE  folds'[i].testEnd <= folds'[k].testStart
    BY <1>4 DEF FoldsAreOrdered
  <2>1. i \in 1 .. n
    BY <1>4
  <2>2. CASE k = n + 1
    BY <2>1, <2>2, <1>2, <1>4 DEF WalkForwardInvariant, FoldsPrecede
  <2>3. CASE k \in 1 .. n
    BY <2>1, <2>3, <1>4 DEF WalkForwardInvariant, FoldsAreOrdered
  <2> QED BY <2>2, <2>3, <1>4
<1>10. FoldsAreEvenlySpaced'
  <2>1. folds' # <<>> /\ (~Refused)' /\ Usable'
    BY <1>1, <1>4 DEF Refused, Usable
  <2>2. folds'[1].testStart = settings.train + settings.purge
    <3>1. CASE n = 0
      BY <3>1, <1>2, <1>3, <1>4 DEF WalkForwardInvariant, FoldsAreEvenlySpaced
    <3>2. CASE n > 0
      BY <3>2, <1>4 DEF WalkForwardInvariant, FoldsAreEvenlySpaced
    <3> QED BY <3>1, <3>2, <1>4
  <2>3. testStart' = folds'[n + 1].testStart + Step + settings.embargo
    BY <1>1, <1>2, <1>4
  <2>4. ASSUME NEW i \in 1 .. n
        PROVE  folds'[i + 1].testStart = folds'[i].testStart + Step + settings.embargo
    <3>1. CASE i = n
      <4>1. folds # <<>>
        BY <3>1, <1>3, <1>4
      <4> QED BY <3>1, <4>1, <1>2, <1>4 DEF WalkForwardInvariant, FoldsAreEvenlySpaced
    <3>2. CASE i \in 1 .. n - 1
      BY <3>2, <1>4 DEF WalkForwardInvariant, FoldsAreEvenlySpaced
    <3> QED BY <3>1, <3>2, <1>4
  <2> QED BY <2>1, <2>2, <2>3, <2>4, <1>1, <1>4 DEF FoldsAreEvenlySpaced
<1> QED BY <1>1, <1>6, <1>7, <1>8, <1>9, <1>10 DEF WalkForwardInvariant

LEMMA EndFoldsPreserves ==
    ASSUME WalkForwardInvariant, EndFolds
    PROVE  WalkForwardInvariant'
<1>1. settings' = settings /\ testStart' = testStart /\ folds' = folds
  BY DEF EndFolds
<1>2. WalkForwardTypeOK'
  BY <1>1 DEF WalkForwardInvariant, WalkForwardTypeOK, EndFolds
<1>3. (outcome = "built" => folds # <<>> /\ ~Fits)'
  <2> SUFFICES ASSUME outcome' = "built"
               PROVE  folds # <<>> /\ ~Fits
    BY <1>1 DEF Fits
  <2>1. folds # <<>> /\ ~Refused
    BY DEF EndFolds
  <2>2. Usable
    BY <2>1 DEF WalkForwardInvariant, FoldsAreEvenlySpaced
  <2> QED BY <2>1, <2>2 DEF EndFolds
<1> QED BY <1>1, <1>2, <1>3 DEF WalkForwardInvariant, FoldsPrecede, FoldsAreOrdered,
                                FoldsAreEvenlySpaced, Refused, Usable, Step

\* The loop keeps the invariant.
THEOREM WalkForwardInvariance == WalkForwardSpec => []WalkForwardInvariant
<1>1. WalkForwardInit => WalkForwardInvariant
  <2> SUFFICES ASSUME WalkForwardInit PROVE WalkForwardInvariant
    OBVIOUS
  <2>1. WalkForwardTypeOK /\ settings.train + settings.purge <= testStart
    BY SettingsType DEF WalkForwardInit, WalkForwardTypeOK
  <2> QED BY <2>1 DEF WalkForwardInit, WalkForwardInvariant, FoldsPrecede, FoldsAreOrdered,
                      FoldsAreEvenlySpaced
<1>2. WalkForwardInvariant /\ [WalkForwardNext]_walk => WalkForwardInvariant'
  <2> SUFFICES ASSUME WalkForwardInvariant, [WalkForwardNext]_walk
               PROVE  WalkForwardInvariant'
    OBVIOUS
  <2>1. CASE AddFold
    BY <2>1, AddFoldPreserves
  <2>2. CASE EndFolds
    BY <2>2, EndFoldsPreserves
  <2>3. CASE UNCHANGED walk
    BY <2>3 DEF walk, WalkForwardInvariant, WalkForwardTypeOK, FoldsPrecede, FoldsAreOrdered,
                FoldsAreEvenlySpaced, Refused, Usable, Fits, Step
  <2> QED BY <2>1, <2>2, <2>3 DEF WalkForwardNext
<1> QED BY <1>1, <1>2, PTL DEF WalkForwardSpec

\* No fold trains on what it is tested on or overlaps another test, whatever the windows,
\* the purge and the embargo are.
THEOREM FoldsAreClean == WalkForwardSpec => []FoldsDoNotLeak
<1>1. WalkForwardInvariant => FoldsDoNotLeak
  BY DEF WalkForwardInvariant, FoldsPrecede, FoldsAreOrdered, FoldsDoNotLeak
<1> QED BY <1>1, WalkForwardInvariance, PTL

\* The tests cover the data from the first whole training window on, with no window left
\* out that fits.
THEOREM DataIsCovered == WalkForwardSpec => []TestsCoverTheData
<1>1. WalkForwardInvariant => TestsCoverTheData
  <2> SUFFICES ASSUME WalkForwardInvariant, outcome = "built"
               PROVE  TestsCoverTheData
    BY DEF TestsCoverTheData
  <2>1. /\ folds # <<>> /\ ~Fits
        /\ settings \in Settings /\ testStart \in Nat /\ folds \in Seq(Boundaries)
    BY DEF WalkForwardInvariant, WalkForwardTypeOK
  <2>2. testStart = folds[Len(folds)].testStart + Step + settings.embargo
    BY <2>1 DEF WalkForwardInvariant, FoldsAreEvenlySpaced
  <2>3. settings.total < testStart + settings.test
    BY <2>1, SettingsType DEF Fits
  <2> QED BY <2>1, <2>2, <2>3 DEF WalkForwardInvariant, FoldsAreEvenlySpaced, TestsCoverTheData
<1> QED BY <1>1, WalkForwardInvariance, PTL
-----------------------------------------------------------------------------
(* The ledger, fill by fill: each accounts for the cash that it moves, and   *)
(* none overdraws it.                                                        *)

LedgerTypes ==
    /\ row \in Nat
    /\ prices \in [Symbols -> Nat] /\ planned \in [Symbols -> Int]
    /\ cash \in Int
    /\ positions \in [Symbols -> Positions]

\* A position is flat or has cost something, and orders are planned where there is a price.
LedgerInvariant ==
    /\ LedgerTypes
    /\ \A s \in Symbols : positions[s].quantity = 0 => positions[s].basis = 0
    /\ \A s \in Symbols : planned[s] # 0 => prices[s] > 0
    /\ stage = "idle" => planned = Nothing

\* What the fills of a position have moved in cash: what has been realized, less what the
\* open position has cost.
SignedBasis(p) == IF p.quantity < 0 THEN 0 - p.basis ELSE p.basis

Booked(p) == p.realized - p.commission - SignedBasis(p)

Flows == [s \in Symbols |-> Booked(positions[s])]

-----------------------------------------------------------------------------
(* Numbers.                                                                  *)

LEMMA Quotient ==
    ASSUME NEW m \in Nat, NEW k \in Nat \ {0}
    PROVE  m \div k \in Nat /\ k * (m \div k) <= m
OBVIOUS

LEMMA WholeType == Whole \in Nat \ {0}
BY DEF Whole

LEMMA ProductMonotone ==
    ASSUME NEW n \in Nat, NEW a \in Nat, NEW b \in Nat, a <= b
    PROVE  n * a <= n * b
<1>1. n * (b - a) >= 0
  OBVIOUS
<1> QED BY <1>1

LEMMA QuotientMonotone ==
    ASSUME NEW k \in Nat \ {0}, NEW a \in Int, NEW b \in Int, k * a <= k * b
    PROVE  a <= b
<1> SUFFICES ASSUME a >= b + 1 PROVE FALSE
  OBVIOUS
<1>1. k * (a - b - 1) >= 0
  OBVIOUS
<1> QED BY <1>1

\* A rate below one takes a part of an amount.
LEMMA BpsType ==
    ASSUME NEW n \in Nat, NEW rate \in Nat, rate < Whole
    PROVE  Bps(n, rate) \in Nat /\ Bps(n, rate) <= n /\ Whole * Bps(n, rate) <= n * rate
<1> DEFINE m == n * rate
           b == Bps(n, rate)
<1>1. m \in Nat /\ m <= n * Whole
  BY WholeType, ProductMonotone
<1>2. b = m \div Whole
  BY DEF Bps
<1> HIDE DEF m, b
<1>3. b \in Nat /\ Whole * b <= m
  BY <1>1, <1>2, WholeType, Quotient
<1>4. Whole * b <= Whole * n
  BY <1>1, <1>3, WholeType
<1>5. b <= n
  BY <1>3, <1>4, WholeType, QuotientMonotone
<1> QED BY <1>3, <1>5 DEF m, b

\* A share is a part of what is shared.
LEMMA ShareType ==
    ASSUME NEW n \in Nat, NEW part \in Nat, NEW whole \in Nat \ {0}, part <= whole
    PROVE  ShareOf(n, part, whole) \in Nat /\ ShareOf(n, part, whole) <= n
<1>1. CASE part = whole
  BY <1>1 DEF ShareOf
<1>2. CASE part # whole
  <2> DEFINE d == (n * part) \div whole
  <2>1. n * part \in Nat /\ n * part <= n * whole
    <3>1. n * (whole - part) >= 0 /\ n * part \in Nat
      OBVIOUS
    <3> QED BY <3>1
  <2>2. d \in Nat /\ whole * d <= n * part
    BY <2>1
  <2>3. whole * d <= whole * n
    BY <2>1, <2>2
  <2> HIDE DEF d
  <2>4. d <= n
    <3>1. ASSUME d > n PROVE FALSE
      <4>1. d >= n + 1
        BY <2>2, <3>1
      <4>2. whole * d >= whole * (n + 1)
        BY <2>2, <4>1
      <4> QED BY <2>2, <2>3, <4>2
    <3> QED BY <3>1, <2>2
  <2> QED BY <1>2, <2>2, <2>4 DEF ShareOf, d
<1> QED BY <1>1, <1>2

LEMMA WholeShare == ASSUME NEW n, NEW whole PROVE ShareOf(n, whole, whole) = n
BY DEF ShareOf

-----------------------------------------------------------------------------
(* Fills.                                                                    *)

\* The parts of a fill of the other direction.
LEMMA ClosingType ==
    ASSUME NEW p \in Positions, NEW quantity \in Int \ {0}, NEW fee \in Nat,
           ~SameDirection(p, quantity)
    PROVE  /\ Closing(p, quantity) \in Nat
           /\ Closing(p, quantity) = IF Size(p.quantity) < Size(quantity)
                                     THEN Size(p.quantity) ELSE Size(quantity)
           /\ ClosedFee(p, quantity, fee) \in Nat /\ ClosedFee(p, quantity, fee) <= fee
           /\ EntryFee(p, quantity) \in Nat /\ EntryFee(p, quantity) <= p.commission
           /\ ClosedBasis(p, quantity) \in Nat /\ ClosedBasis(p, quantity) <= p.basis
           /\ Size(quantity) <= Size(p.quantity) => ClosedFee(p, quantity, fee) = fee
           /\ Size(p.quantity) <= Size(quantity) =>
                  EntryFee(p, quantity) = p.commission /\ ClosedBasis(p, quantity) = p.basis
<1>1. p.quantity \in Int \ {0} /\ p.basis \in Nat /\ p.commission \in Nat
  BY DEF Positions, SameDirection
<1>2. Size(p.quantity) \in Nat \ {0} /\ Size(quantity) \in Nat \ {0}
  BY <1>1 DEF Size
<1> DEFINE c == Closing(p, quantity)
<1>3. /\ c = IF Size(p.quantity) < Size(quantity) THEN Size(p.quantity) ELSE Size(quantity)
      /\ c \in Nat /\ c <= Size(p.quantity) /\ c <= Size(quantity)
  BY <1>2 DEF Closing, Smaller
<1>4. /\ ClosedFee(p, quantity, fee) = ShareOf(fee, c, Size(quantity))
      /\ EntryFee(p, quantity) = ShareOf(p.commission, c, Size(p.quantity))
      /\ ClosedBasis(p, quantity) = ShareOf(p.basis, c, Size(p.quantity))
  BY DEF ClosedFee, EntryFee, ClosedBasis
<1> HIDE DEF c
<1>5. ClosedFee(p, quantity, fee) \in Nat /\ ClosedFee(p, quantity, fee) <= fee
  BY <1>2, <1>3, <1>4, ShareType
<1>6. EntryFee(p, quantity) \in Nat /\ EntryFee(p, quantity) <= p.commission
  BY <1>1, <1>2, <1>3, <1>4, ShareType
<1>7. ClosedBasis(p, quantity) \in Nat /\ ClosedBasis(p, quantity) <= p.basis
  BY <1>1, <1>2, <1>3, <1>4, ShareType
<1>8. Size(quantity) <= Size(p.quantity) => ClosedFee(p, quantity, fee) = fee
  <2> SUFFICES ASSUME Size(quantity) <= Size(p.quantity) PROVE ClosedFee(p, quantity, fee) = fee
    OBVIOUS
  <2>1. c = Size(quantity)
    BY <1>2, <1>3
  <2> QED BY <2>1, <1>4, WholeShare
<1>9. Size(p.quantity) <= Size(quantity) =>
          EntryFee(p, quantity) = p.commission /\ ClosedBasis(p, quantity) = p.basis
  <2> SUFFICES ASSUME Size(p.quantity) <= Size(quantity)
               PROVE  EntryFee(p, quantity) = p.commission /\ ClosedBasis(p, quantity) = p.basis
    OBVIOUS
  <2>1. c = Size(p.quantity)
    BY <1>2, <1>3
  <2> QED BY <2>1, <1>4, WholeShare
<1> QED BY <1>3, <1>5, <1>6, <1>7, <1>8, <1>9 DEF c

LEMMA SignedBasisType ==
    ASSUME NEW p, p.basis \in Nat
    PROVE  SignedBasis(p) \in Int
BY DEF SignedBasis

LEMMA BookedFrom ==
    ASSUME NEW p, NEW q, NEW quantity, NEW price, NEW fee \in Nat, NEW total \in Int,
           total = quantity * price,
           p.realized \in Int, p.commission \in Nat, SignedBasis(p) \in Int,
           q.realized - q.commission - SignedBasis(q)
               = p.realized - p.commission - SignedBasis(p) - total - fee
    PROVE  Booked(q) = Booked(p) + CashDelta(quantity, price, fee)
BY DEF Booked, CashDelta

\* A fill keeps a position a position, and a flat one without a cost; what it moves in cash
\* is what it realizes and what the position then has cost more.
LEMMA ApplyFillBalances ==
    ASSUME NEW p \in Positions, p.quantity = 0 => p.basis = 0,
           NEW quantity \in Int \ {0}, NEW price \in Nat, NEW fee \in Nat, NEW at \in Int,
           NEW q, q = ApplyFill(p, quantity, price, fee, at)
    PROVE  /\ q \in Positions
           /\ q.quantity = 0 => q.basis = 0
           /\ Booked(q) = Booked(p) + CashDelta(quantity, price, fee)
<1>1. /\ p.quantity \in Int /\ p.basis \in Nat /\ p.commission \in Nat
      /\ p.realized \in Int /\ p.opened \in Int
  BY DEF Positions
<1> DEFINE total == quantity * price
<1>2. total \in Int
  OBVIOUS
<1>3. CASE SameDirection(p, quantity)
  <2>1. /\ q.quantity = p.quantity + quantity /\ q.basis = p.basis + Size(quantity) * price
        /\ q.commission = p.commission + fee /\ q.realized = p.realized
    BY <1>3 DEF ApplyFill
  <2>2. Size(quantity) * price = (IF quantity < 0 THEN -total ELSE total)
        /\ Size(quantity) * price \in Nat
    BY DEF Size
  <2>3. q \in Positions
    BY <1>1, <1>3, <2>2 DEF ApplyFill, Positions
  <2>4. p.quantity + quantity # 0 /\ (p.quantity + quantity < 0 <=> quantity < 0)
        /\ (p.quantity # 0 => (p.quantity < 0 <=> quantity < 0))
    BY <1>1, <1>3 DEF SameDirection
  <2> HIDE DEF total
  <2>5. SignedBasis(q) = SignedBasis(p) + total
    <3>1. CASE quantity < 0
      BY <3>1, <1>1, <1>2, <2>1, <2>2, <2>4 DEF SignedBasis
    <3>2. CASE ~(quantity < 0)
      BY <3>2, <1>1, <1>2, <2>1, <2>2, <2>4 DEF SignedBasis
    <3> QED BY <3>1, <3>2
  <2>6. SignedBasis(p) \in Int
    BY <1>1 DEF SignedBasis
  <2>7. q.realized - q.commission - SignedBasis(q)
            = p.realized - p.commission - SignedBasis(p) - total - fee
    BY <1>1, <1>2, <2>1, <2>5, <2>6
  <2>8. Booked(q) = Booked(p) + CashDelta(quantity, price, fee)
    BY <1>1, <1>2, <2>6, <2>7, BookedFrom DEF total
  <2> QED BY <2>1, <2>3, <2>4, <2>7, <2>8
<1>4. CASE ~SameDirection(p, quantity)
  <2> DEFINE c == Closing(p, quantity)
             cf == ClosedFee(p, quantity, fee)
             ef == EntryFee(p, quantity)
             cb == ClosedBasis(p, quantity)
             rest == p.quantity + quantity
             brings == c * price
             pnl == Pnl(p, quantity, price, fee)
  <2>1. /\ c \in Nat
        /\ c = IF Size(p.quantity) < Size(quantity) THEN Size(p.quantity) ELSE Size(quantity)
        /\ cf \in Nat /\ cf <= fee /\ ef \in Nat /\ ef <= p.commission
        /\ cb \in Nat /\ cb <= p.basis
        /\ Size(quantity) <= Size(p.quantity) => cf = fee
        /\ Size(p.quantity) <= Size(quantity) => ef = p.commission /\ cb = p.basis
    BY <1>4, ClosingType
  <2>2. pnl = (IF p.quantity > 0 THEN brings - cb ELSE cb - brings) - ef - cf
    BY DEF Pnl, GrossPnl
  <2>3. p.quantity # 0 /\ (p.quantity > 0 <=> quantity < 0)
    BY <1>1, <1>4 DEF SameDirection
  <2>4. q = IF rest = 0 THEN [Flat EXCEPT !.realized = p.realized + pnl]
            ELSE IF (rest > 0) = (p.quantity > 0)
            THEN [quantity |-> rest, basis |-> p.basis - cb, commission |-> p.commission - ef,
                  realized |-> p.realized + pnl, opened |-> p.opened]
            ELSE [quantity |-> rest, basis |-> Size(rest) * price, commission |-> fee - cf,
                  realized |-> p.realized + pnl, opened |-> at]
    BY <1>4 DEF ApplyFill
  <2>5. brings \in Nat
    BY <2>1
  <2>6. pnl \in Int
    <3> HIDE DEF brings, cb, cf, ef, pnl
    <3> QED BY <2>1, <2>2, <2>5
  <2>7. SignedBasis(p) = IF p.quantity < 0 THEN 0 - p.basis ELSE p.basis
    BY DEF SignedBasis
  <2>8. CASE rest = 0
    <3>1. /\ q.quantity = 0 /\ q.basis = 0 /\ q.commission = 0 /\ q.realized = p.realized + pnl
          /\ q = [quantity |-> 0, basis |-> 0, commission |-> 0, realized |-> p.realized + pnl,
                  opened |-> -1]
      BY <2>4, <2>8 DEF Flat
    <3>2. q \in Positions
      BY <1>1, <2>6, <3>1 DEF Positions
    <3>3. Size(p.quantity) = Size(quantity) /\ c = Size(quantity)
      BY <1>1, <2>1, <2>8 DEF Size
    <3>4. cf = fee /\ ef = p.commission /\ cb = p.basis
      BY <1>1, <2>1, <3>3 DEF Size
    <3>5. brings = IF quantity < 0 THEN -total ELSE total
      BY <3>3 DEF Size
    <3>6. SignedBasis(q) = 0
      BY <3>1 DEF SignedBasis
    <3> HIDE DEF total, brings, cb, cf, ef, pnl, c
    <3>7. q.realized - q.commission - SignedBasis(q)
              = p.realized - p.commission - SignedBasis(p) - total - fee
      BY <1>1, <1>2, <2>2, <2>3, <2>5, <2>7, <3>1, <3>4, <3>5, <3>6
    <3> QED BY <3>1, <3>2, <3>7, <1>1, <1>2, SignedBasisType, BookedFrom DEF total
  <2>9. CASE rest # 0 /\ (rest > 0) = (p.quantity > 0)
    <3>1. /\ q.quantity = rest /\ q.basis = p.basis - cb /\ q.commission = p.commission - ef
          /\ q.realized = p.realized + pnl
          /\ q = [quantity |-> rest, basis |-> p.basis - cb, commission |-> p.commission - ef,
                  realized |-> p.realized + pnl, opened |-> p.opened]
      BY <2>4, <2>9
    <3>2. q \in Positions
      <4>1. rest \in Int
        BY <1>1
      <4> HIDE DEF cb, ef, pnl, rest
      <4> QED BY <1>1, <2>1, <2>6, <3>1, <4>1 DEF Positions
    <3>3. Size(quantity) <= Size(p.quantity) /\ c = Size(quantity)
          /\ (rest < 0 <=> p.quantity < 0)
      BY <1>1, <2>1, <2>3, <2>9 DEF Size
    <3>4. cf = fee
      BY <2>1, <3>3
    <3>5. brings = IF quantity < 0 THEN -total ELSE total
      BY <3>3 DEF Size
    <3>6. SignedBasis(q) = IF p.quantity < 0 THEN 0 - (p.basis - cb) ELSE p.basis - cb
      BY <3>1, <3>3 DEF SignedBasis
    <3> HIDE DEF total, brings, cb, cf, ef, pnl, c
    <3>7. q.realized - q.commission - SignedBasis(q)
              = p.realized - p.commission - SignedBasis(p) - total - fee
      BY <1>1, <1>2, <2>1, <2>2, <2>3, <2>5, <2>7, <3>1, <3>4, <3>5, <3>6
    <3> QED BY <3>1, <3>2, <3>7, <2>9, <1>1, <1>2, SignedBasisType, BookedFrom DEF total
  <2>10. CASE rest # 0 /\ (rest > 0) # (p.quantity > 0)
    <3>1. /\ q.quantity = rest /\ q.basis = Size(rest) * price /\ q.commission = fee - cf
          /\ q.realized = p.realized + pnl
          /\ q = [quantity |-> rest, basis |-> Size(rest) * price, commission |-> fee - cf,
                  realized |-> p.realized + pnl, opened |-> at]
      BY <2>4, <2>10
    <3>2. rest \in Int /\ Size(rest) \in Nat /\ Size(rest) * price \in Nat
      BY <1>1 DEF Size
    <3>3. q \in Positions
      <4> HIDE DEF cf, pnl, rest
      <4> QED BY <1>1, <2>1, <2>6, <3>1, <3>2 DEF Positions
    <3>4. /\ Size(p.quantity) <= Size(quantity) /\ c = Size(p.quantity)
          /\ (rest < 0 <=> p.quantity > 0)
          /\ Size(rest) = Size(quantity) - c
      BY <1>1, <2>1, <2>3, <2>10 DEF Size
    <3>5. ef = p.commission /\ cb = p.basis
      BY <2>1, <3>4
    <3>6. Size(rest) * price = (IF quantity < 0 THEN -total ELSE total) - brings
      <4>1. Size(quantity) * price = IF quantity < 0 THEN -total ELSE total
        BY DEF Size
      <4>2. (Size(quantity) - c) * price = Size(quantity) * price - c * price
        <5>1. Size(quantity) \in Nat
          BY DEF Size
        <5> HIDE DEF c
        <5> QED BY <5>1, <2>1
      <4> QED BY <3>4, <4>1, <4>2
    <3>7. SignedBasis(q) = IF p.quantity > 0 THEN 0 - q.basis ELSE q.basis
      BY <3>1, <3>4 DEF SignedBasis
    <3> HIDE DEF total, brings, cb, cf, ef, pnl, c, rest
    <3>8. q.realized - q.commission - SignedBasis(q)
              = p.realized - p.commission - SignedBasis(p) - total - fee
      <4>1. q.basis = (IF quantity < 0 THEN -total ELSE total) - brings
        BY <3>1, <3>6
      <4> QED BY <1>1, <1>2, <2>1, <2>2, <2>3, <2>5, <2>7, <3>1, <3>5, <3>7, <4>1
    <3> QED BY <3>1, <3>3, <3>8, <2>10, <1>1, <1>2, SignedBasisType, BookedFrom DEF total
  <2> QED BY <2>8, <2>9, <2>10
<1> QED BY <1>3, <1>4
-----------------------------------------------------------------------------
(* Orders.                                                                   *)

\* The price of a fill is a price, and a purchase pays for it.
LEMMA ExecutionPriceType ==
    ASSUME LedgerInvariant, NEW s \in Symbols, NEW quantity \in Int
    PROVE  /\ ExecutionPrice(s, quantity) \in Nat
           /\ quantity > 0 => prices[s] <= ExecutionPrice(s, quantity)
<1>1. prices[s] \in Nat
  BY DEF LedgerInvariant, LedgerTypes
<1>2. Bps(prices[s], AdjustmentBps) \in Nat /\ Bps(prices[s], AdjustmentBps) <= prices[s]
  <2>1. PICK rate \in Nat : rate = AdjustmentBps /\ rate < Whole
    BY RatesAssumption
  <2>2. Bps(prices[s], rate) \in Nat /\ Bps(prices[s], rate) <= prices[s]
    BY <2>1, <1>1, BpsType
  <2> QED BY <2>1, <2>2
<1> QED BY <1>1, <1>2 DEF ExecutionPrice

LEMMA FeeType ==
    ASSUME NEW quantity \in Int, NEW price \in Nat
    PROVE  /\ Size(quantity) * price \in Nat /\ Fee(quantity, price) \in Nat
           /\ Fee(quantity, price) <= Size(quantity) * price
           /\ Whole * Fee(quantity, price) <= (Size(quantity) * price) * CommissionBps
<1>1. Size(quantity) \in Nat
  BY DEF Size
<1> DEFINE amount == Size(quantity) * price
<1>2. amount \in Nat
  BY <1>1
<1> HIDE DEF amount
<1>3. /\ Bps(amount, CommissionBps) \in Nat /\ Bps(amount, CommissionBps) <= amount
      /\ Whole * Bps(amount, CommissionBps) <= amount * CommissionBps
  <2>1. PICK rate \in Nat : rate = CommissionBps /\ rate < Whole
    BY RatesAssumption
  <2>2. /\ Bps(amount, rate) \in Nat /\ Bps(amount, rate) <= amount
        /\ Whole * Bps(amount, rate) <= amount * rate
    BY <2>1, <1>2, BpsType
  <2> QED BY <2>1, <2>2
<1>4. Fee(quantity, price) = Bps(amount, CommissionBps)
  BY DEF Fee, amount
<1> QED BY <1>2, <1>3, <1>4 DEF amount

\* What can be afforded is a quantity, and costs no more than the cash with its commission.
LEMMA AffordableType ==
    ASSUME LedgerInvariant, NEW price \in Nat \ {0}
    PROVE  /\ Affordable(price) \in Int
           /\ Affordable(price) > 0 =>
                  (Affordable(price) * price) * (Whole + CommissionBps) <= cash * Whole
<1> DEFINE unit == price * (Whole + CommissionBps)
           money == cash * Whole
           n == Affordable(price)
<1>1. unit \in Nat \ {0}
  <2>1. PICK k \in Nat \ {0} : k = Whole + CommissionBps
    BY RatesAssumption, WholeType
  <2>2. price * k \in Nat \ {0}
    OBVIOUS
  <2> QED BY <2>1, <2>2
<1>2. money \in Int
  BY WholeType DEF LedgerInvariant, LedgerTypes
<1>3. n = money \div unit
  BY DEF Affordable
<1> HIDE DEF unit, money, n
<1>4. n \in Int /\ unit * n <= money
  BY <1>1, <1>2, <1>3
<1>5. (n * price) * (Whole + CommissionBps) = unit * n
  <2>1. PICK k \in Nat : k = Whole + CommissionBps
    BY RatesAssumption, WholeType
  <2>2. (n * price) * k = (price * k) * n
    BY <1>4
  <2> QED BY <2>1, <2>2 DEF unit
<1> QED BY <1>4, <1>5 DEF n, money

LEMMA FillPreserves ==
    ASSUME LedgerInvariant, NEW s \in Symbols, NEW quantity \in Int \ {0},
           Fill(s, quantity), planned' = [planned EXCEPT ![s] = 0],
           UNCHANGED <<row, prices, stage>>, stage = "orders"
    PROVE  LedgerInvariant'
<1> DEFINE price == ExecutionPrice(s, quantity)
           fee == Fee(quantity, price)
           p == positions[s]
           q == ApplyFill(p, quantity, price, fee, row)
           delta == CashDelta(quantity, price, fee)
<1>1. /\ row \in Nat /\ cash \in Int /\ p \in Positions
      /\ positions \in [Symbols -> Positions]
      /\ planned \in [Symbols -> Int] /\ prices \in [Symbols -> Nat]
      /\ p.quantity = 0 => p.basis = 0
  BY DEF LedgerInvariant, LedgerTypes
<1>2. price \in Nat
  BY ExecutionPriceType
<1> HIDE DEF price
<1>3. fee \in Nat /\ delta \in Int
  BY <1>2, FeeType DEF CashDelta
<1>4. /\ cash' = cash + delta
      /\ positions' = [positions EXCEPT ![s] = q]
  BY DEF Fill, price
<1> HIDE DEF fee
<1>5. q \in Positions /\ (q.quantity = 0 => q.basis = 0)
  <2>1. row \in Int /\ q = ApplyFill(p, quantity, price, fee, row)
    BY <1>1
  <2> HIDE DEF p, q
  <2>2. p \in Positions /\ (p.quantity = 0 => p.basis = 0) /\ fee \in Nat
    BY <1>1, <1>3
  <2>3. q \in Positions
    BY <1>2, <2>1, <2>2, ApplyFillBalances
  <2>4. q.quantity = 0 => q.basis = 0
    BY <1>2, <2>1, <2>2, ApplyFillBalances
  <2> QED BY <2>3, <2>4
<1> HIDE DEF p, q, delta
<1>6. LedgerTypes'
  <2>1. cash + delta \in Int
    BY <1>1, <1>3
  <2> QED BY <2>1, <1>1, <1>3, <1>4, <1>5 DEF LedgerTypes
<1>7. (\A r \in Symbols : positions[r].quantity = 0 => positions[r].basis = 0)'
  BY <1>1, <1>4, <1>5 DEF LedgerInvariant
<1>8. (\A r \in Symbols : planned[r] # 0 => prices[r] > 0)'
  BY <1>1 DEF LedgerInvariant
<1> QED BY <1>6, <1>7, <1>8 DEF LedgerInvariant

LEMMA OrderPreserves ==
    ASSUME LedgerInvariant, Order
    PROVE  LedgerInvariant'
<1>1. PICK s \in Upcoming :
          LET clipped == Affordable(ExecutionPrice(s, planned[s]))
          IN  /\ stage = "orders"
              /\ planned' = [planned EXCEPT ![s] = 0]
              /\ \/ Fill(s, planned[s])
                 \/ planned[s] > 0 /\ clipped > 0 /\ Fill(s, clipped)
                 \/ \E reason \in Reasons : Reject(reason)
              /\ UNCHANGED <<config, rows, row, plan, stage>>
  BY DEF Order, Reasons
<1>2. s \in Symbols /\ planned[s] \in Int \ {0} /\ prices[s] > 0 /\ prices[s] \in Nat
  BY DEF Upcoming, LedgerInvariant, LedgerTypes
<1>3. UNCHANGED <<row, prices, stage>> /\ stage = "orders"
  BY <1>1 DEF plan
<1>4. CASE Fill(s, planned[s])
  BY <1>1, <1>2, <1>3, <1>4, FillPreserves
<1>5. CASE /\ planned[s] > 0 /\ Affordable(ExecutionPrice(s, planned[s])) > 0
           /\ Fill(s, Affordable(ExecutionPrice(s, planned[s])))
  <2>1. ExecutionPrice(s, planned[s]) \in Nat \ {0}
    BY <1>2, <1>5, ExecutionPriceType
  <2>2. Affordable(ExecutionPrice(s, planned[s])) \in Int \ {0}
    BY <2>1, <1>5, AffordableType
  <2> QED BY <1>1, <1>2, <1>3, <1>5, <2>2, FillPreserves
<1>6. CASE \E reason \in Reasons : Reject(reason)
  <2>1. UNCHANGED books
    BY <1>6 DEF Reject
  <2>2. planned' \in [Symbols -> Int]
        /\ \A r \in Symbols : planned'[r] # 0 => planned[r] # 0
    BY <1>1, <1>2 DEF LedgerInvariant, LedgerTypes
  <2> QED BY <2>1, <2>2, <1>3 DEF books, LedgerInvariant, LedgerTypes
<1> QED BY <1>1, <1>4, <1>5, <1>6

LEMMA StartRowPreserves ==
    ASSUME LedgerInvariant, NEW weights \in Targets, NEW at \in PriceRows, StartRow(weights, at)
    PROVE  LedgerInvariant'
<1>1. /\ prices' = at /\ stage = "idle" /\ stage' = "orders" /\ UNCHANGED <<row, books>>
      /\ \/ \E inForce, worth : planned' = Plan(inForce, at, worth)
         \/ UNCHANGED planned
  BY DEF StartRow
<1>2. at \in [Symbols -> Nat]
  BY PricesAssumption
<1>3. /\ planned' \in [Symbols -> Int]
      /\ \A s \in Symbols : planned'[s] # 0 => at[s] > 0
  <2>1. CASE \E inForce, worth : planned' = Plan(inForce, at, worth)
    BY <2>1, <1>2 DEF Plan
  <2>2. CASE UNCHANGED planned
    BY <2>2, <1>1 DEF LedgerInvariant, LedgerTypes, Nothing
  <2> QED BY <2>1, <2>2, <1>1
<1> QED BY <1>1, <1>2, <1>3 DEF books, LedgerInvariant, LedgerTypes

LEMMA EndRowPreserves ==
    ASSUME LedgerInvariant, NEW cost \in PeriodCosts, EndRow(cost)
    PROVE  LedgerInvariant'
<1>1. /\ row' = row + 1 /\ cash' = cash - cost /\ planned = Nothing
      /\ UNCHANGED <<prices, planned, positions>>
  BY DEF EndRow, plan
<1>2. cost \in Nat
  BY RatesAssumption
<1> QED BY <1>1, <1>2 DEF LedgerInvariant, LedgerTypes

\* The ledger keeps the invariant.
THEOREM LedgerInvariance == Spec => []LedgerInvariant
<1>1. Init => LedgerInvariant
  BY NumbersAssumption DEF Init, LedgerInvariant, LedgerTypes, Nothing,
                           Flat, Positions
<1>2. LedgerInvariant /\ [Next]_vars => LedgerInvariant'
  <2> SUFFICES ASSUME LedgerInvariant, [Next]_vars
               PROVE  LedgerInvariant'
    OBVIOUS
  <2>1. ASSUME NEW n \in 1 .. MaxRows, Receive(n)
        PROVE  LedgerInvariant'
    BY <2>1 DEF Receive, plan, books, LedgerInvariant, LedgerTypes,
                Nothing
  <2>2. ASSUME NEW weights \in Targets, NEW at \in PriceRows, StartRow(weights, at)
        PROVE  LedgerInvariant'
    BY <2>2, StartRowPreserves
  <2>3. CASE Order
    BY <2>3, OrderPreserves
  <2>4. ASSUME NEW cost \in PeriodCosts, EndRow(cost)
        PROVE  LedgerInvariant'
    BY <2>4, EndRowPreserves
  <2>5. CASE UNCHANGED vars
    BY <2>5 DEF vars, plan, books, LedgerInvariant, LedgerTypes, Nothing
  <2> QED BY <2>1, <2>2, <2>3, <2>4, <2>5 DEF Next, Run
<1> QED BY <1>1, <1>2, PTL DEF Spec

\* A fill that takes cash leaves none of it missing.
LEMMA FillsAreCovered ==
    ASSUME LedgerInvariant, Order, cash' < cash
    PROVE  cash' >= 0
<1>1. PICK s \in Upcoming :
          LET clipped == Affordable(ExecutionPrice(s, planned[s]))
          IN  \/ Fill(s, planned[s]) /\ ~(planned[s] > 0 /\ CashAfter(s, planned[s]) < 0)
              \/ planned[s] > 0 /\ clipped > 0 /\ Fill(s, clipped)
              \/ \E reason \in Reasons : Reject(reason)
  BY DEF Order, Reasons
<1>2. /\ s \in Symbols /\ planned[s] \in Int \ {0} /\ prices[s] > 0 /\ prices[s] \in Nat
      /\ cash \in Int
  BY DEF Upcoming, LedgerInvariant, LedgerTypes
<1>3. CASE Fill(s, planned[s]) /\ ~(planned[s] > 0 /\ CashAfter(s, planned[s]) < 0)
  <2> DEFINE price == ExecutionPrice(s, planned[s])
             fee == Fee(planned[s], price)
             quantity == planned[s]
  <2>1. price \in Nat
    BY <1>2, ExecutionPriceType
  <2>2. cash' = cash + (0 - quantity * price - fee) /\ CashAfter(s, quantity) = cash'
    BY <1>3 DEF Fill, CashAfter, CashDelta
  <2> HIDE DEF price
  <2>3. fee \in Nat /\ fee <= Size(quantity) * price /\ Size(quantity) * price \in Nat
    <3>1. quantity \in Int
      BY <1>2
    <3> HIDE DEF quantity
    <3>2. /\ Size(quantity) * price \in Nat /\ Fee(quantity, price) \in Nat
          /\ Fee(quantity, price) <= Size(quantity) * price
      BY <2>1, <3>1, FeeType, Zenon
    <3> QED BY <3>2 DEF quantity
  <2>4. quantity * price \in Int /\ (quantity < 0 => quantity * price = -(Size(quantity) * price))
    BY <1>2, <2>1 DEF Size
  <2> HIDE DEF fee, quantity
  <2>5. quantity \in Int
    BY <1>2 DEF quantity
  <2>6. CASE quantity < 0
    BY <2>2, <2>3, <2>4, <2>6, <1>2
  <2>7. CASE ~(quantity < 0)
    <3>1. quantity > 0
      BY <1>2, <2>7 DEF quantity
    <3>2. ~(CashAfter(s, quantity) < 0)
      BY <3>1, <1>3 DEF quantity
    <3> QED BY <3>2, <2>2, <2>3, <2>4, <1>2
  <2> QED BY <2>6, <2>7
<1>4. CASE /\ planned[s] > 0 /\ Affordable(ExecutionPrice(s, planned[s])) > 0
           /\ Fill(s, Affordable(ExecutionPrice(s, planned[s])))
  <2> DEFINE price == ExecutionPrice(s, planned[s])
             n == Affordable(price)
             amount == n * price
             fee == Fee(n, price)
  <2>1. price \in Nat \ {0}
    BY <1>2, <1>4, ExecutionPriceType
  <2>2. n \in Nat \ {0} /\ amount * (Whole + CommissionBps) <= cash * Whole
    BY <1>4, <2>1, AffordableType
  <2>3. ExecutionPrice(s, n) = price
    BY <1>2, <1>4, <2>2 DEF ExecutionPrice
  <2>4. cash' = cash + (0 - amount - fee)
    BY <1>4, <2>3 DEF Fill, CashDelta
  <2> HIDE DEF price, n
  <2>5. Size(n) = n
    BY <2>2 DEF Size
  <2>6. fee \in Nat /\ Whole * fee <= amount * CommissionBps /\ amount \in Nat
    <3>1. n \in Int /\ price \in Nat
      BY <2>1, <2>2
    <3>2. /\ Size(n) * price \in Nat /\ Fee(n, price) \in Nat
          /\ Whole * Fee(n, price) <= (Size(n) * price) * CommissionBps
      BY <3>1, FeeType, Zenon
    <3> QED BY <2>5, <3>2
  <2>7. PICK c \in Nat : c = CommissionBps
    BY RatesAssumption
  <2> HIDE DEF amount, fee
  <2>8. amount * (Whole + c) = amount * Whole + amount * c
    BY <2>6, WholeType
  <2>9. Whole * (amount + fee) <= cash * Whole
    <3>1. amount * c \in Int
      BY <2>6
    <3> QED BY <3>1, <2>2, <2>6, <2>7, <2>8, <1>2, WholeType
  <2>10. Whole * (amount + fee) <= Whole * cash
    BY <2>9, <2>6, <1>2, WholeType
  <2>11. amount + fee <= cash
    BY <2>10, <2>6, <1>2, WholeType, QuotientMonotone
  <2> QED BY <2>4, <2>6, <2>11, <1>2
<1>5. CASE \E reason \in Reasons : Reject(reason)
  BY <1>5, <1>2 DEF Reject, books
<1> QED BY <1>1, <1>3, <1>4, <1>5

\* No order overdraws the cash, whatever is bought, sold short or clipped.
THEOREM NoOverdraft == Spec => FillsNeverOverdraw
<1>1. LedgerInvariant /\ [Next]_vars
      => [stage = "orders" /\ stage' = "orders" /\ cash' < cash => cash' >= 0]_vars
  <2> SUFFICES ASSUME LedgerInvariant, Next, stage = "orders", stage' = "orders", cash' < cash
               PROVE  cash' >= 0
    OBVIOUS
  <2>1. CASE Order
    BY <2>1, FillsAreCovered
  <2>2. CASE ~Order
    <3>1. cash \in Int
      BY DEF LedgerInvariant, LedgerTypes
    <3>2. UNCHANGED cash
      BY <2>2 DEF Next, Run, Receive, StartRow, EndRow, books
    <3> QED BY <3>1, <3>2
  <2> QED BY <2>1, <2>2
<1> QED BY <1>1, LedgerInvariance, PTL DEF Spec, FillsNeverOverdraw
-----------------------------------------------------------------------------
(* Sums over the symbols.  Total is a fold: a recursive function on the sets *)
(* of symbols, whose equation and laws are proved with a smallest set for    *)
(* which they would fail.                                                    *)

Pick(T) == CHOOSE x \in T : TRUE

\* What Sums[T] is in terms of the sums of smaller sets.
SumEquation(f, g, D) ==
    \A T \in D : g[T] = IF T = {} THEN 0 ELSE f[Pick(T)] + g[T \ {Pick(T)}]

Sums(f) ==
    CHOOSE g : g = [T \in SUBSET Symbols |->
                       IF T = {} THEN 0 ELSE f[Pick(T)] + g[T \ {Pick(T)}]]

LEMMA TotalIsSum == ASSUME NEW f PROVE Total(f) = Sums(f)[Symbols]
BY DEF Total, MapThenSumSet, MapThenFoldSet, Sums, Pick

\* A set of numbers that is not empty has a least one.
LEMMA LeastNumber ==
    ASSUME NEW S \in SUBSET Nat, S # {}
    PROVE  \E m \in S : \A n \in S : m <= n
<1> DEFINE R == {ss \in Nat \X Nat : ss[1] < ss[2]}
<1>1. IsWellFoundedOn(R, Nat)
  BY NatLessThanWellFounded DEF OpToRel
<1>2. PICK m \in S : \A n \in S : ~ (<<n, m>> \in R)
  <2>1. S \subseteq Nat
    OBVIOUS
  <2> HIDE DEF R
  <2> QED BY <1>1, <2>1, WFMin
<1>3. ASSUME NEW n \in S PROVE m <= n
  <2>1. m \in Nat /\ n \in Nat /\ ~ (<<n, m>> \in R)
    BY <1>2
  <2> QED BY <2>1
<1> QED BY <1>3

LEMMA SymbolsAreFinite == IsFiniteSet(Symbols) /\ Cardinality(Symbols) = NumSymbols
<1>1. NumSymbols \in Nat
  BY NumbersAssumption
<1> QED BY <1>1, FS_Interval DEF Symbols

LEMMA SubsetsAreFinite ==
    ASSUME NEW T \in SUBSET Symbols
    PROVE  /\ IsFiniteSet(T) /\ Cardinality(T) \in Nat /\ Cardinality(T) <= NumSymbols
           /\ Cardinality(T) = 0 <=> T = {}
           /\ \A x \in T : Cardinality(T \ {x}) = Cardinality(T) - 1
<1>1. IsFiniteSet(T) /\ Cardinality(T) <= NumSymbols
  BY SymbolsAreFinite, FS_Subset
<1>2. Cardinality(T) \in Nat /\ (Cardinality(T) = 0 <=> T = {})
  BY <1>1, FS_CardinalityType, FS_EmptySet
<1>3. \A x \in T : Cardinality(T \ {x}) = Cardinality(T) - 1
  BY <1>1, FS_RemoveElement
<1> QED BY <1>1, <1>2, <1>3

\* If some set of symbols is bad, one is bad without an element that can be left out:
\* the form in which the lemmas below use induction.
LEMMA SmallestSet ==
    ASSUME NEW Bad \in SUBSET (SUBSET Symbols), Bad # {}
    PROVE  \E T \in Bad : \A x \in T : T \ {x} \notin Bad
<1> DEFINE sizes == {Cardinality(T) : T \in Bad}
<1>1. sizes \in SUBSET Nat /\ sizes # {}
  BY SubsetsAreFinite
<1>2. PICK m \in sizes : \A n \in sizes : m <= n
  <2> HIDE DEF sizes
  <2> QED BY <1>1, LeastNumber
<1>3. PICK T \in Bad : m = Cardinality(T)
  BY <1>2
<1>4. ASSUME NEW x \in T, T \ {x} \in Bad PROVE FALSE
  <2>1. Cardinality(T \ {x}) = Cardinality(T) - 1 /\ Cardinality(T) \in Nat
    BY SubsetsAreFinite
  <2>2. m <= Cardinality(T \ {x})
    BY <1>2, <1>4
  <2> QED BY <1>3, <2>1, <2>2
<1> QED BY <1>4

LEMMA PickIsElement ==
    ASSUME NEW T \in SUBSET Symbols, T # {}
    PROVE  Pick(T) \in T /\ Pick(T) \in Symbols /\ T \ {Pick(T)} \in SUBSET Symbols
BY DEF Pick

\* The recursive function exists.
LEMMA SumsEquation ==
    ASSUME NEW f
    PROVE  SumEquation(f, Sums(f), SUBSET Symbols)
<1> DEFINE D(n) == {T \in SUBSET Symbols : Cardinality(T) <= n}
           Add(g, n) == [T \in D(n) |-> IF T = {} THEN 0 ELSE f[Pick(T)] + g[T \ {Pick(T)}]]
           Bad == {n \in Nat : ~ \E g : g = Add(g, n)}
<1>1. Bad = {}
  <2> SUFFICES ASSUME Bad # {} PROVE FALSE
    OBVIOUS
  <2>1. PICK m \in Bad : \A n \in Bad : m <= n
    <3>1. Bad \in SUBSET Nat
      OBVIOUS
    <3> HIDE DEF Bad
    <3> QED BY <3>1, LeastNumber
  <2>2. m # 0
    <3> SUFFICES ASSUME m = 0 PROVE FALSE
      OBVIOUS
    <3> DEFINE g == [T \in D(0) |-> 0]
    <3>1. \A T \in D(0) : T = {}
      <4> SUFFICES ASSUME NEW T \in D(0) PROVE T = {}
        OBVIOUS
      <4>1. T \in SUBSET Symbols /\ Cardinality(T) <= 0
        OBVIOUS
      <4> QED BY <4>1, SubsetsAreFinite
    <3>2. g = Add(g, 0)
      <4> HIDE DEF D
      <4> QED BY <3>1
    <3> QED BY <3>2
  <2>3. m - 1 \in Nat /\ m - 1 \notin Bad
    <3>1. m \in Nat
      OBVIOUS
    <3> HIDE DEF Bad
    <3>2. m - 1 \in Nat /\ ~ (m <= m - 1)
      BY <2>2, <3>1
    <3> QED BY <2>1, <3>2
  <2>4. PICK g : g = Add(g, m - 1)
    BY <2>3
  <2> DEFINE h == Add(g, m)
  <2>5. \A T \in D(m - 1) : T \in D(m)
    <3> SUFFICES ASSUME NEW T \in SUBSET Symbols, Cardinality(T) <= m - 1
                 PROVE  Cardinality(T) <= m
      OBVIOUS
    <3> QED BY SubsetsAreFinite, <2>3
  <2>6. \A T \in D(m) : T # {} => T \ {Pick(T)} \in D(m - 1)
    <3> SUFFICES ASSUME NEW T \in SUBSET Symbols, Cardinality(T) <= m, T # {}
                 PROVE  T \ {Pick(T)} \in D(m - 1)
      OBVIOUS
    <3>1. Cardinality(T \ {Pick(T)}) = Cardinality(T) - 1 /\ Cardinality(T) \in Nat
      BY SubsetsAreFinite, PickIsElement
    <3>2. T \ {Pick(T)} \in SUBSET Symbols
      OBVIOUS
    <3>3. Cardinality(T \ {Pick(T)}) <= m - 1
      BY <3>1, <2>3
    <3> QED BY <3>2, <3>3
  <2> HIDE DEF D
  <2>7. \A T \in D(m - 1) : h[T] = g[T]
    BY <2>4, <2>5
  <2>8. h = Add(h, m)
    BY <2>6, <2>7
  <2> QED BY <2>8, <2>1
<1>2. PICK g : g = Add(g, NumSymbols)
  <2>1. NumSymbols \in Nat
    BY NumbersAssumption
  <2> QED BY <1>1, <2>1
<1>3. D(NumSymbols) = SUBSET Symbols
  BY SubsetsAreFinite
<1> DEFINE Full(k) == [T \in SUBSET Symbols |->
                         IF T = {} THEN 0 ELSE f[Pick(T)] + k[T \ {Pick(T)}]]
<1>4. g = Full(g)
  BY <1>2, <1>3
<1>5. Sums(f) = Full(Sums(f))
  <2>1. Sums(f) = CHOOSE k : k = Full(k)
    BY DEF Sums
  <2> HIDE DEF Full
  <2> QED BY <1>4, <2>1
<1> QED BY <1>5 DEF SumEquation

LEMMA SumOfNone == ASSUME NEW f PROVE Sums(f)[{}] = 0
<1>1. {} \in SUBSET Symbols
  OBVIOUS
<1> QED BY <1>1, SumsEquation DEF SumEquation

LEMMA SumsStep ==
    ASSUME NEW f, NEW T \in SUBSET Symbols, T # {}
    PROVE  Sums(f)[T] = f[Pick(T)] + Sums(f)[T \ {Pick(T)}]
BY SumsEquation DEF SumEquation

LEMMA SumsType ==
    ASSUME NEW f \in [Symbols -> Int]
    PROVE  \A T \in SUBSET Symbols : Sums(f)[T] \in Int
<1> DEFINE Bad == {T \in SUBSET Symbols : Sums(f)[T] \notin Int}
<1> SUFFICES ASSUME Bad # {} PROVE FALSE
  OBVIOUS
<1>1. PICK T \in Bad : \A x \in T : T \ {x} \notin Bad
  <2>1. Bad \in SUBSET (SUBSET Symbols)
    OBVIOUS
  <2> HIDE DEF Bad
  <2> QED BY <2>1, SmallestSet
<1>2. T # {}
  <2> SUFFICES ASSUME T = {} PROVE FALSE
    OBVIOUS
  <2> QED BY SumOfNone
<1>3. Sums(f)[T \ {Pick(T)}] \in Int /\ f[Pick(T)] \in Int
  BY <1>1, <1>2, PickIsElement
<1>4. Sums(f)[T] = f[Pick(T)] + Sums(f)[T \ {Pick(T)}]
  BY <1>2, SumsStep
<1> QED BY <1>3, <1>4

\* Sums of sums.
LEMMA SumsPlus ==
    ASSUME NEW f \in [Symbols -> Int], NEW g \in [Symbols -> Int], NEW h \in [Symbols -> Int],
           \A s \in Symbols : h[s] = f[s] + g[s]
    PROVE  \A T \in SUBSET Symbols : Sums(h)[T] = Sums(f)[T] + Sums(g)[T]
<1> DEFINE Bad == {T \in SUBSET Symbols : Sums(h)[T] # Sums(f)[T] + Sums(g)[T]}
<1> SUFFICES ASSUME Bad # {} PROVE FALSE
  OBVIOUS
<1>1. PICK T \in Bad : \A x \in T : T \ {x} \notin Bad
  <2>1. Bad \in SUBSET (SUBSET Symbols)
    OBVIOUS
  <2> HIDE DEF Bad
  <2> QED BY <2>1, SmallestSet
<1>2. T # {}
  <2> SUFFICES ASSUME T = {} PROVE FALSE
    OBVIOUS
  <2> QED BY SumOfNone
<1> DEFINE x == Pick(T)
           U == T \ {x}
<1>3. x \in Symbols /\ U \in SUBSET Symbols /\ Sums(h)[U] = Sums(f)[U] + Sums(g)[U]
  BY <1>1, <1>2, PickIsElement
<1>4. Sums(f)[U] \in Int /\ Sums(g)[U] \in Int /\ f[x] \in Int /\ g[x] \in Int
  BY <1>3, SumsType
<1>5. /\ Sums(h)[T] = h[x] + Sums(h)[U]
      /\ Sums(f)[T] = f[x] + Sums(f)[U] /\ Sums(g)[T] = g[x] + Sums(g)[U]
  BY <1>2, SumsStep
<1> HIDE DEF U, x
<1> QED BY <1>3, <1>4, <1>5

\* What is larger for each symbol is larger in sum.
LEMMA SumsOrder ==
    ASSUME NEW f \in [Symbols -> Int], NEW g \in [Symbols -> Int],
           \A s \in Symbols : f[s] <= g[s]
    PROVE  \A T \in SUBSET Symbols : Sums(f)[T] <= Sums(g)[T]
<1> DEFINE Bad == {T \in SUBSET Symbols : ~ (Sums(f)[T] <= Sums(g)[T])}
<1> SUFFICES ASSUME Bad # {} PROVE FALSE
  OBVIOUS
<1>1. PICK T \in Bad : \A x \in T : T \ {x} \notin Bad
  <2>1. Bad \in SUBSET (SUBSET Symbols)
    OBVIOUS
  <2> HIDE DEF Bad
  <2> QED BY <2>1, SmallestSet
<1>2. T # {}
  <2> SUFFICES ASSUME T = {} PROVE FALSE
    OBVIOUS
  <2> QED BY SumOfNone
<1> DEFINE x == Pick(T)
           U == T \ {x}
<1>3. x \in Symbols /\ U \in SUBSET Symbols /\ Sums(f)[U] <= Sums(g)[U]
  BY <1>1, <1>2, PickIsElement
<1>4. Sums(f)[U] \in Int /\ Sums(g)[U] \in Int /\ f[x] \in Int /\ g[x] \in Int
  BY <1>3, SumsType
<1>5. Sums(f)[T] = f[x] + Sums(f)[U] /\ Sums(g)[T] = g[x] + Sums(g)[U]
  BY <1>2, SumsStep
<1> HIDE DEF U, x
<1> QED BY <1>3, <1>4, <1>5

\* The sum of the multiples.
LEMMA SumsTimes ==
    ASSUME NEW f \in [Symbols -> Int], NEW h \in [Symbols -> Int], NEW k \in Int,
           \A s \in Symbols : h[s] = k * f[s]
    PROVE  \A T \in SUBSET Symbols : Sums(h)[T] = k * Sums(f)[T]
<1> DEFINE Bad == {T \in SUBSET Symbols : Sums(h)[T] # k * Sums(f)[T]}
<1> SUFFICES ASSUME Bad # {} PROVE FALSE
  OBVIOUS
<1>1. PICK T \in Bad : \A x \in T : T \ {x} \notin Bad
  <2>1. Bad \in SUBSET (SUBSET Symbols)
    OBVIOUS
  <2> HIDE DEF Bad
  <2> QED BY <2>1, SmallestSet
<1>2. T # {}
  <2> SUFFICES ASSUME T = {} PROVE FALSE
    OBVIOUS
  <2> QED BY SumOfNone
<1> DEFINE x == Pick(T)
           U == T \ {x}
<1>3. x \in Symbols /\ U \in SUBSET Symbols /\ Sums(h)[U] = k * Sums(f)[U]
  BY <1>1, <1>2, PickIsElement
<1>4. Sums(f)[U] \in Int /\ f[x] \in Int
  BY <1>3, SumsType
<1>5. Sums(h)[T] = k * f[x] + Sums(h)[U] /\ Sums(f)[T] = f[x] + Sums(f)[U]
  BY <1>2, <1>3, SumsStep
<1>6. k * (f[x] + Sums(f)[U]) = k * f[x] + k * Sums(f)[U]
  <2> HIDE DEF U, x
  <2> QED BY <1>4
<1> HIDE DEF U, x
<1> QED BY <1>3, <1>5, <1>6

\* The sum of what is zero but for one symbol.
LEMMA SumsPoint ==
    ASSUME NEW f \in [Symbols -> Int], NEW s \in Symbols,
           \A r \in Symbols \ {s} : f[r] = 0
    PROVE  \A T \in SUBSET Symbols : Sums(f)[T] = IF s \in T THEN f[s] ELSE 0
<1> DEFINE Bad == {T \in SUBSET Symbols : Sums(f)[T] # IF s \in T THEN f[s] ELSE 0}
<1> SUFFICES ASSUME Bad # {} PROVE FALSE
  OBVIOUS
<1>1. PICK T \in Bad : \A x \in T : T \ {x} \notin Bad
  <2>1. Bad \in SUBSET (SUBSET Symbols)
    OBVIOUS
  <2> HIDE DEF Bad
  <2> QED BY <2>1, SmallestSet
<1>2. T # {}
  <2> SUFFICES ASSUME T = {} PROVE FALSE
    OBVIOUS
  <2> QED BY SumOfNone
<1> DEFINE x == Pick(T)
           U == T \ {x}
<1>3. /\ x \in T /\ x \in Symbols /\ U \in SUBSET Symbols
      /\ Sums(f)[U] = IF s \in U THEN f[s] ELSE 0
  BY <1>1, <1>2, PickIsElement
<1>4. Sums(f)[T] = f[x] + Sums(f)[U]
  BY <1>2, SumsStep
<1>5. f[s] \in Int /\ (x # s => f[x] = 0)
  BY <1>3
<1>6. s \in U <=> s \in T /\ s # x
  OBVIOUS
<1> HIDE DEF U, x
<1>7. Sums(f)[T] = IF s \in T THEN f[s] ELSE 0
  BY <1>3, <1>4, <1>5, <1>6
<1> QED BY <1>7

-----------------------------------------------------------------------------
(* The laws of Total that the ledger's sums need.                            *)

LEMMA TotalType == ASSUME NEW f \in [Symbols -> Int] PROVE Total(f) \in Int
BY SumsType, TotalIsSum

LEMMA TotalPlus ==
    ASSUME NEW f \in [Symbols -> Int], NEW g \in [Symbols -> Int], NEW h \in [Symbols -> Int],
           \A s \in Symbols : h[s] = f[s] + g[s]
    PROVE  Total(h) = Total(f) + Total(g)
BY SumsPlus, TotalIsSum

LEMMA TotalOrder ==
    ASSUME NEW f \in [Symbols -> Int], NEW g \in [Symbols -> Int],
           \A s \in Symbols : f[s] <= g[s]
    PROVE  Total(f) <= Total(g)
BY SumsOrder, TotalIsSum

LEMMA TotalTimes ==
    ASSUME NEW f \in [Symbols -> Int], NEW h \in [Symbols -> Int], NEW k \in Int,
           \A s \in Symbols : h[s] = k * f[s]
    PROVE  Total(h) = k * Total(f)
BY SumsTimes, TotalIsSum

\* One symbol changes, and the sum by as much.
LEMMA TotalChange ==
    ASSUME NEW f \in [Symbols -> Int], NEW h \in [Symbols -> Int], NEW s \in Symbols,
           \A r \in Symbols \ {s} : h[r] = f[r]
    PROVE  Total(h) = Total(f) + (h[s] - f[s])
<1> DEFINE g == [r \in Symbols |-> IF r = s THEN h[s] - f[s] ELSE 0]
<1>1. g \in [Symbols -> Int]
  OBVIOUS
<1>2. \A r \in Symbols : h[r] = f[r] + g[r]
  OBVIOUS
<1>3. g[s] = h[s] - f[s] /\ \A r \in Symbols \ {s} : g[r] = 0
  OBVIOUS
<1> HIDE DEF g
<1>4. Total(g) = h[s] - f[s]
  BY <1>1, <1>3, SumsPoint, TotalIsSum
<1>5. Total(h) = Total(f) + Total(g)
  BY <1>1, <1>2, TotalPlus
<1> QED BY <1>4, <1>5

LEMMA TotalOfNothing == Total(Nothing) = 0
<1>1. Nothing \in [Symbols -> Int] /\ \A s \in Symbols : Nothing[s] = 0 * Nothing[s]
  BY DEF Nothing
<1> QED BY <1>1, TotalTimes, TotalType

\* A sum of amounts is at least each of them.
LEMMA TotalIsAtLeast ==
    ASSUME NEW f \in [Symbols -> Nat], NEW s \in Symbols
    PROVE  f[s] <= Total(f)
<1> DEFINE g == [r \in Symbols |-> IF r = s THEN f[s] ELSE 0]
<1>1. g \in [Symbols -> Int] /\ f \in [Symbols -> Int] /\ \A r \in Symbols : g[r] <= f[r]
  OBVIOUS
<1>2. g[s] = f[s] /\ \A r \in Symbols \ {s} : g[r] = 0
  OBVIOUS
<1> HIDE DEF g
<1>3. Total(g) = f[s]
  BY <1>1, <1>2, SumsPoint, TotalIsSum
<1> QED BY <1>1, <1>3, TotalOrder

-----------------------------------------------------------------------------
(* The three ways in which an order ends.                                    *)

FilledWhole(s) ==
    Fill(s, planned[s]) /\ ~(planned[s] > 0 /\ CashAfter(s, planned[s]) < 0)

FilledInPart(s) ==
    /\ planned[s] > 0 /\ CashAfter(s, planned[s]) < 0
    /\ Affordable(ExecutionPrice(s, planned[s])) > 0
    /\ Fill(s, Affordable(ExecutionPrice(s, planned[s])))

NotFilled(s) ==
    /\ \/ positions[s].quantity + planned[s] < 0
       \/ /\ planned[s] > 0
          /\ ~(Size(target[s]) <= Unit /\ Affordable(ExecutionPrice(s, planned[s])) > 0)
    /\ UNCHANGED <<books, history>>

LEMMA OrderCases ==
    ASSUME LedgerInvariant, Order
    PROVE  /\ stage = "orders" /\ UNCHANGED <<config, rows, row, plan, stage>>
           /\ \E s \in Symbols :
                 /\ planned[s] \in Int \ {0} /\ prices[s] > 0 /\ prices[s] \in Nat
                 /\ planned[s] > 0 => \A o \in Symbols : planned[o] >= 0
                 /\ planned' = [planned EXCEPT ![s] = 0]
                 /\ FilledWhole(s) \/ FilledInPart(s) \/ NotFilled(s)
<1>1. PICK s \in Upcoming :
          /\ stage = "orders" /\ planned' = [planned EXCEPT ![s] = 0]
          /\ FilledWhole(s) \/ FilledInPart(s) \/ NotFilled(s)
          /\ UNCHANGED <<config, rows, row, plan, stage>>
  <2>1. PICK s \in Upcoming :
            /\ stage = "orders" /\ planned' = [planned EXCEPT ![s] = 0]
            /\ \/ /\ positions[s].quantity + planned[s] < 0
                  /\ Reject("short_sales_disabled")
               \/ FilledWhole(s)
               \/ FilledInPart(s)
               \/ /\ planned[s] > 0
                  /\ ~(Size(target[s]) <= Unit /\ Affordable(ExecutionPrice(s, planned[s])) > 0)
                  /\ Reject("insufficient_cash")
            /\ UNCHANGED <<config, rows, row, plan, stage>>
    BY Zenon DEF Order, FilledWhole, FilledInPart
  <2>2. ASSUME NEW reason, Reject(reason) PROVE UNCHANGED <<books, history>>
    BY <2>2 DEF Reject
  <2> QED BY <2>1, <2>2, Zenon DEF NotFilled
<1>2. planned \in [Symbols -> Int] /\ prices \in [Symbols -> Nat]
      /\ \A r \in Symbols : planned[r] # 0 => prices[r] > 0
  BY DEF LedgerInvariant, LedgerTypes
<1>3. s \in Symbols /\ planned[s] # 0 /\ (planned[s] > 0 => \A o \in Symbols : ~(planned[o] < 0))
  BY <1>2 DEF Upcoming
<1>4. /\ planned[s] \in Int \ {0} /\ prices[s] > 0 /\ prices[s] \in Nat
      /\ planned[s] > 0 => \A o \in Symbols : planned[o] >= 0
  BY <1>2, <1>3
<1> QED BY <1>1, <1>3, <1>4, Zenon

\* A part that is filled is a quantity.
LEMMA PartIsQuantity ==
    ASSUME LedgerInvariant, NEW s \in Symbols, prices[s] > 0, planned[s] \in Int, FilledInPart(s)
    PROVE  Affordable(ExecutionPrice(s, planned[s])) \in Nat \ {0}
<1>1. ExecutionPrice(s, planned[s]) \in Nat \ {0}
  <2>1. /\ ExecutionPrice(s, planned[s]) \in Nat
        /\ prices[s] <= ExecutionPrice(s, planned[s]) /\ prices[s] \in Nat
    BY ExecutionPriceType DEF FilledInPart, LedgerInvariant, LedgerTypes
  <2> QED BY <2>1
<1> QED BY <1>1, AffordableType DEF FilledInPart

-----------------------------------------------------------------------------
(* The books.                                                                *)

\* The cash is what the fills and the periods have left of it, and a position has a mark.
BooksInvariant ==
    /\ LedgerInvariant
    /\ marks \in [Symbols -> Nat] /\ costs \in Nat
    /\ \A s \in Symbols : prices[s] > 0 => marks[s] = prices[s]
    /\ \A s \in Symbols : positions[s].quantity # 0 => marks[s] > 0
    /\ cash = InitialCash + Total(Flows) - costs

LEMMA BookedType ==
    ASSUME NEW p \in Positions
    PROVE  Booked(p) \in Int
BY DEF Positions, Booked, SignedBasis

\* What the books say of one symbol.
LEMMA SymbolIsBooked ==
    ASSUME BooksInvariant, NEW s \in Symbols
    PROVE  /\ positions[s].realized + Unrealized(s) - positions[s].commission
                  = Booked(positions[s]) + MarketValue(s)
           /\ Booked(positions[s]) \in Int /\ MarketValue(s) \in Int
<1> DEFINE p == positions[s]
           mv == MarketValue(s)
<1>1. /\ p.quantity \in Int /\ p.basis \in Nat /\ p.commission \in Nat /\ p.realized \in Int
      /\ marks[s] \in Nat
      /\ p.quantity = 0 => p.basis = 0
      /\ p.quantity # 0 => marks[s] > 0
  BY DEF BooksInvariant, LedgerInvariant, LedgerTypes, Positions
<1>2. Booked(p) = p.realized - p.commission - SignedBasis(p)
  BY DEF Booked
<1>3. mv = p.quantity * marks[s] /\ mv \in Int /\ (p.quantity = 0 => mv = 0)
  BY <1>1 DEF MarketValue
<1>4. Unrealized(s) = IF marks[s] = 0 \/ p.quantity = 0 THEN 0
                      ELSE IF p.quantity > 0 THEN mv - p.basis ELSE p.basis + mv
  BY DEF Unrealized
<1>5. SignedBasis(p) = IF p.quantity < 0 THEN 0 - p.basis ELSE p.basis
  BY DEF SignedBasis
<1> HIDE DEF p, mv
<1>6. Booked(p) \in Int /\ SignedBasis(p) \in Int
  BY <1>1, <1>2, <1>5
<1>7. Unrealized(s) = mv - SignedBasis(p)
  BY <1>1, <1>3, <1>4, <1>5
<1>8. p.realized + Unrealized(s) - p.commission = Booked(p) + mv
  BY <1>1, <1>2, <1>3, <1>6, <1>7
<1> QED BY <1>3, <1>6, <1>8 DEF p, mv

LEMMA BooksFollow == ASSUME BooksInvariant PROVE BooksBalance
<1> DEFINE h == [s \in Symbols |-> positions[s].realized + Unrealized(s) - positions[s].commission]
           m == [s \in Symbols |-> MarketValue(s)]
<1>1. /\ h \in [Symbols -> Int] /\ m \in [Symbols -> Int]
      /\ \A s \in Symbols : h[s] = Flows[s] + m[s]
  BY SymbolIsBooked DEF Flows
<1>2. Flows \in [Symbols -> Int] /\ costs \in Nat /\ InitialCash \in Nat
  BY NumbersAssumption, SymbolIsBooked DEF BooksInvariant, Flows
<1>3. cash = InitialCash + Total(Flows) - costs
  BY DEF BooksInvariant
<1>4. PortfolioValue = cash + Total(m)
  BY DEF PortfolioValue
<1>5. BooksBalance <=> PortfolioValue = InitialCash + Total(h) - costs
  BY DEF BooksBalance
<1> HIDE DEF h, m
<1>6. Total(h) = Total(Flows) + Total(m) /\ Total(Flows) \in Int /\ Total(m) \in Int
  BY <1>1, <1>2, TotalPlus, TotalType
<1> QED BY <1>2, <1>3, <1>4, <1>5, <1>6

\* A fill moves the quantity of the position by its own.
LEMMA ApplyFillQuantity ==
    ASSUME NEW p \in Positions, NEW quantity \in Int, NEW price, NEW fee, NEW at
    PROVE  ApplyFill(p, quantity, price, fee, at).quantity = p.quantity + quantity
<1>1. CASE SameDirection(p, quantity)
  BY <1>1 DEF ApplyFill
<1>2. CASE ~SameDirection(p, quantity) /\ p.quantity + quantity = 0
  BY <1>2 DEF ApplyFill, Flat
<1>3. CASE ~SameDirection(p, quantity) /\ p.quantity + quantity # 0
  BY <1>3 DEF ApplyFill
<1> QED BY <1>1, <1>2, <1>3


\* An order is a fill of some quantity, or leaves the books alone.
LEMMA OrderSteps ==
    ASSUME LedgerInvariant, Order
    PROVE  \E s \in Symbols :
               /\ prices[s] > 0
               /\ (\E quantity \in Int \ {0} : Fill(s, quantity)) \/ UNCHANGED books
<1>1. PICK s \in Symbols :
          /\ planned[s] \in Int \ {0} /\ prices[s] > 0
          /\ FilledWhole(s) \/ FilledInPart(s) \/ NotFilled(s)
  BY OrderCases
<1>2. CASE FilledWhole(s)
  BY <1>1, <1>2 DEF FilledWhole
<1>3. CASE FilledInPart(s)
  BY <1>1, <1>3, PartIsQuantity DEF FilledInPart
<1>4. CASE NotFilled(s)
  BY <1>1, <1>4 DEF NotFilled
<1> QED BY <1>1, <1>2, <1>3, <1>4

LEMMA FillKeepsBooks ==
    ASSUME BooksInvariant, LedgerInvariant', NEW s \in Symbols, NEW quantity \in Int \ {0},
           Fill(s, quantity), prices[s] > 0, UNCHANGED <<prices, marks>>
    PROVE  BooksInvariant'
<1> DEFINE price == ExecutionPrice(s, quantity)
           fee == Fee(quantity, price)
           delta == CashDelta(quantity, price, fee)
<1>1. /\ positions \in [Symbols -> Positions] /\ cash \in Int
      /\ marks \in [Symbols -> Nat] /\ costs \in Nat /\ InitialCash \in Nat
      /\ prices[s] > 0 => marks[s] = prices[s]
  BY NumbersAssumption DEF BooksInvariant, LedgerInvariant, LedgerTypes
<1>2. /\ cash' = cash + delta /\ costs' = costs
      /\ positions' = [positions EXCEPT ![s] = ApplyFill(@, quantity, price, fee, row)]
  BY DEF Fill
<1>3. price \in Nat
  BY ExecutionPriceType DEF BooksInvariant
<1> HIDE DEF price
<1>4. fee \in Nat
  BY <1>3, FeeType
<1> HIDE DEF fee
<1>5. delta \in Int
  BY <1>3, <1>4 DEF CashDelta
<1>6. Booked(positions'[s]) = Booked(positions[s]) + delta
  <2> DEFINE p == positions[s]
             q == positions'[s]
  <2>1. q = ApplyFill(p, quantity, price, fee, row)
    BY <1>1, <1>2
  <2>2. p \in Positions /\ (p.quantity = 0 => p.basis = 0) /\ row \in Int
    BY <1>1 DEF BooksInvariant, LedgerInvariant, LedgerTypes
  <2> HIDE DEF p, q
  <2>3. Booked(q) = Booked(p) + CashDelta(quantity, price, fee)
    BY <1>3, <1>4, <2>1, <2>2, ApplyFillBalances
  <2> QED BY <2>3 DEF p, q
<1> HIDE DEF delta
<1>7. Total(Flows') = Total(Flows) + delta /\ Total(Flows) \in Int
  <2>1. Flows \in [Symbols -> Int] /\ Flows' \in [Symbols -> Int]
    <3>1. positions' \in [Symbols -> Positions]
      BY DEF LedgerInvariant, LedgerTypes
    <3> QED BY <1>1, <3>1, BookedType DEF Flows
  <2>2. \A r \in Symbols \ {s} : Flows'[r] = Flows[r]
    BY <1>1, <1>2 DEF Flows
  <2>3. Flows'[s] = Flows[s] + delta
    BY <1>1, <1>2, <1>6 DEF Flows
  <2>4. Flows'[s] - Flows[s] = delta
    BY <1>5, <2>1, <2>3
  <2>5. Total(Flows') = Total(Flows) + (Flows'[s] - Flows[s])
    BY <2>1, <2>2, TotalChange
  <2> QED BY <2>1, <2>4, <2>5, TotalType
<1>8. (cash = InitialCash + Total(Flows) - costs)'
  <2>1. cash = InitialCash + Total(Flows) - costs
    BY DEF BooksInvariant
  <2>2. cash' = InitialCash + Total(Flows') - costs
    BY <1>1, <1>2, <1>5, <1>7, <2>1
  <2> QED BY <2>2, <1>2
<1>9. (\A r \in Symbols : positions[r].quantity # 0 => marks[r] > 0)'
  BY <1>1, <1>2 DEF BooksInvariant
<1>10. (\A r \in Symbols : prices[r] > 0 => marks[r] = prices[r])'
  BY DEF BooksInvariant
<1> QED BY <1>1, <1>2, <1>8, <1>9, <1>10 DEF BooksInvariant

LEMMA StartRowKeepsBooks ==
    ASSUME BooksInvariant, LedgerInvariant',
           NEW weights \in Targets, NEW at \in PriceRows, StartRow(weights, at)
    PROVE  BooksInvariant'
<1>1. /\ prices' = at /\ UNCHANGED books
      /\ marks' = [s \in Symbols |-> IF at[s] > 0 THEN at[s] ELSE marks[s]]
  BY DEF StartRow
<1>2. at \in [Symbols -> Nat]
  BY PricesAssumption
<1>3. (cash = InitialCash + Total(Flows) - costs)'
  <2>1. Flows' = Flows
    BY <1>1 DEF Flows, books
  <2> QED BY <1>1, <2>1 DEF BooksInvariant, books
<1> QED BY <1>1, <1>2, <1>3 DEF BooksInvariant, books

LEMMA EndRowKeepsBooks ==
    ASSUME BooksInvariant, LedgerInvariant', NEW cost \in PeriodCosts, EndRow(cost)
    PROVE  BooksInvariant'
<1>1. /\ cash' = cash - cost /\ costs' = costs + cost
      /\ UNCHANGED <<prices, marks, positions>>
  BY DEF EndRow, plan
<1>2. cost \in Nat /\ InitialCash \in Nat
  BY RatesAssumption, NumbersAssumption
<1>3. Total(Flows) \in Int /\ Total(Flows') = Total(Flows)
  <2>1. positions \in [Symbols -> Positions]
    BY DEF BooksInvariant, LedgerInvariant, LedgerTypes
  <2>2. Flows \in [Symbols -> Int]
    BY <2>1, BookedType DEF Flows
  <2>3. Flows' = Flows
    BY <1>1 DEF Flows
  <2> QED BY <2>2, <2>3, TotalType
<1>4. (cash = InitialCash + Total(Flows) - costs)'
  <2>1. cash = InitialCash + Total(Flows) - costs /\ costs \in Nat
    BY DEF BooksInvariant
  <2>2. cash' = InitialCash + Total(Flows) - costs'
    BY <1>1, <1>2, <1>3, <2>1
  <2> QED BY <2>2, <1>3
<1> QED BY <1>1, <1>2, <1>4 DEF BooksInvariant

\* The ledger keeps the books.
THEOREM BooksInvariance == Spec => []BooksInvariant
<1>1. Init /\ LedgerInvariant => BooksInvariant
  <2> SUFFICES ASSUME Init, LedgerInvariant PROVE BooksInvariant
    OBVIOUS
  <2>1. cash = InitialCash /\ costs = 0 /\ marks = Nothing /\ prices = Nothing
        /\ positions = [s \in Symbols |-> Flat]
    BY DEF Init
  <2>2. cash = InitialCash + Total(Flows) - costs
    <3>1. Flows = Nothing
      BY <2>1 DEF Flows, Booked, SignedBasis, Flat, Nothing
    <3> QED BY <2>1, <3>1, TotalOfNothing, NumbersAssumption
  <2> QED BY <2>1, <2>2 DEF BooksInvariant, Nothing, Flat
<1>2. BooksInvariant /\ LedgerInvariant' /\ [Next]_vars => BooksInvariant'
  <2> SUFFICES ASSUME BooksInvariant, LedgerInvariant', [Next]_vars
               PROVE  BooksInvariant'
    OBVIOUS
  <2>1. CASE UNCHANGED <<books, prices, marks>>
    <3>1. Flows' = Flows
      BY <2>1 DEF Flows, books
    <3> QED BY <2>1, <3>1 DEF books, BooksInvariant
  <2>2. ASSUME NEW n \in 1 .. MaxRows, Receive(n)
        PROVE  BooksInvariant'
    BY <2>1, <2>2 DEF Receive, plan
  <2>3. ASSUME NEW weights \in Targets, NEW at \in PriceRows, StartRow(weights, at)
        PROVE  BooksInvariant'
    BY <2>3, StartRowKeepsBooks
  <2>4. CASE Order
    <3>1. UNCHANGED <<prices, marks>>
      BY <2>4 DEF Order, plan
    <3>2. PICK s \in Symbols :
              /\ prices[s] > 0
              /\ (\E quantity \in Int \ {0} : Fill(s, quantity)) \/ UNCHANGED books
      BY <2>4, OrderSteps DEF BooksInvariant
    <3> QED BY <2>1, <3>1, <3>2, FillKeepsBooks
  <2>5. ASSUME NEW cost \in PeriodCosts, EndRow(cost)
        PROVE  BooksInvariant'
    BY <2>5, EndRowKeepsBooks
  <2>6. CASE UNCHANGED vars
    BY <2>1, <2>6 DEF vars, plan
  <2> QED BY <2>2, <2>3, <2>4, <2>5, <2>6 DEF Next, Run
<1> QED BY <1>1, <1>2, LedgerInvariance, PTL DEF Spec

\* The accounting contract of the ledger, for every number of symbols and rows: what the
\* portfolio is worth is the initial cash and the profit and loss of every fill (apply_fill),
\* less the costs of the periods, through turns, clipped orders and missing prices.
THEOREM BooksAreBalanced == Spec => []BooksBalance
BY BooksInvariance, BooksFollow, PTL

-----------------------------------------------------------------------------
(* What an order does to the gap between a symbol and its target.            *)

LEMMA ProductOrder ==
    ASSUME NEW k \in Nat \ {0}, NEW a \in Int, NEW b \in Int, a <= b
    PROVE  k * a <= k * b
<1>1. k * (b - a) >= 0
  OBVIOUS
<1> QED BY <1>1

LEMMA TowardsZeroBounds ==
    ASSUME NEW g \in Int, NEW k \in Nat \ {0}, NEW m \in Int
    PROVE  LET n == TowardsZero(g, k)
           IN  /\ n \in Int
               /\ g - k * n < k /\ 0 - k < g - k * n
               /\ n > 0 => g >= 0
               /\ g >= k * m => n >= m
<1> DEFINE n == TowardsZero(g, k)
<1>1. CASE g < 0
  <2> DEFINE d == (-g) \div k
  <2>1. n = -d
    BY <1>1 DEF TowardsZero
  <2>2. d \in Nat /\ k * d <= -g /\ -g < k * d + k
    BY <1>1
  <2> HIDE DEF d, n
  <2>3. n \in Int /\ k * n = -(k * d) /\ ~(n > 0)
    BY <2>1, <2>2
  <2>4. g - k * n < k /\ 0 - k < g - k * n
    BY <2>2, <2>3
  <2>5. ASSUME g >= k * m PROVE n >= m
    <3>1. k * m <= k * n
      BY <2>5, <2>2, <2>3
    <3> QED BY <3>1, <2>3, QuotientMonotone
  <2> QED BY <2>3, <2>4, <2>5 DEF n
<1>2. CASE g >= 0
  <2>1. n = g \div k
    BY <1>2 DEF TowardsZero
  <2> HIDE DEF n
  <2>2. n \in Nat /\ k * n <= g /\ g < k * n + k
    BY <1>2, <2>1
  <2>3. ASSUME g >= k * m PROVE n >= m
    <3>1. SUFFICES ASSUME n + 1 <= m PROVE FALSE
      BY <2>2
    <3>2. k * (n + 1) <= k * m
      BY <3>1, <2>2, ProductOrder
    <3>3. k * (n + 1) = k * n + k
      BY <2>2
    <3> QED BY <2>2, <2>3, <3>2, <3>3
  <2>4. g - k * n < k /\ 0 - k < g - k * n
    BY <2>2
  <2> QED BY <1>2, <2>2, <2>3, <2>4 DEF n
<1> QED BY <1>1, <1>2

\* A purchase that is not more than can be afforded is covered; what is left of the cash by
\* the largest that can be afforded is less than the cost of another unit.
LEMMA AffordableIsCovered ==
    ASSUME LedgerInvariant, NEW price \in Nat \ {0}, NEW m \in Nat
    PROVE  LET n == Affordable(price)
           IN  /\ n \in Int
               /\ m > 0 /\ m <= n => 0 <= cash - m * price - Fee(m, price)
               /\ n <= 0 => cash <= price + Fee(1, price)
               /\ n > 0 => cash - n * price - Fee(n, price) <= price + Fee(1, price) + 1
<1> DEFINE n == Affordable(price)
<1>1. PICK c \in Nat : c = CommissionBps
  BY RatesAssumption
<1>2. PICK W \in Nat \ {0} : W = Whole
  BY WholeType
<1>3. cash \in Int
  BY DEF LedgerInvariant, LedgerTypes
<1> DEFINE X == price * (W + c)
           money == cash * W
<1>4. X \in Nat \ {0} /\ money \in Int /\ X = W * price + price * c /\ price * c \in Nat
  <2>1. price * c \in Nat /\ W * price \in Nat \ {0} /\ X = W * price + price * c
    OBVIOUS
  <2> QED BY <2>1, <1>3
<1>5. n = money \div X
  BY <1>1, <1>2 DEF Affordable
<1>6. money = W * cash
  BY <1>3
<1> HIDE DEF n, X, money
<1>7. n \in Int /\ X * n <= money /\ money < X * n + X
  <2>1. X \in Int /\ X > 0 /\ money \in Int
    BY <1>4
  <2>2. n \in Int /\ money = X * n + (money % X) /\ money % X \in 0 .. X - 1
    BY <2>1, <1>5
  <2>3. X * n \in Int
    BY <2>1, <2>2
  <2> QED BY <2>1, <2>2, <2>3
<1>8. ASSUME NEW j \in Nat
      PROVE  /\ Fee(j, price) \in Nat
             /\ W * Fee(j, price) <= j * (price * c)
             /\ j * (price * c) < W * Fee(j, price) + W
             /\ X * j = W * (j * price) + j * (price * c)
             /\ j * price \in Nat /\ j * (price * c) \in Nat
  <2> DEFINE f == Fee(j, price)
             a == j * price
  <2>1. Size(j) = j
    BY DEF Size
  <2>2. f = (a * c) \div W
    BY <1>1, <1>2, <2>1 DEF Fee, Bps
  <2>3. a * c = j * (price * c) /\ a * c \in Nat /\ a \in Nat
    OBVIOUS
  <2>4. X * j = W * a + j * (price * c)
    <3>1. (W * price + price * c) * j = W * (j * price) + j * (price * c)
      OBVIOUS
    <3> QED BY <3>1, <1>4
  <2>5. f \in Nat /\ W * f <= a * c /\ a * c < W * f + W
    <3> DEFINE b == a * c
    <3> HIDE DEF f, a, b
    <3>1. b \in Nat /\ f = b \div W
      BY <2>2, <2>3 DEF b
    <3>2. f \in Nat /\ W * f <= b /\ b < W * f + W
      BY <3>1
    <3> QED BY <3>2 DEF b
  <2> QED BY <2>3, <2>4, <2>5
<1> DEFINE f1 == Fee(1, price)
           y == price * c
<1>9. f1 \in Nat /\ y \in Nat /\ y < W * f1 + W
  <2>1. 1 * (price * c) = price * c
    OBVIOUS
  <2> QED BY <1>8, <2>1
<1> HIDE DEF f1, y
<1>10. X < W * (price + f1 + 1)
  BY <1>4, <1>9 DEF y
<1>11. m > 0 /\ m <= n => 0 <= cash - m * price - Fee(m, price)
  <2> SUFFICES ASSUME m > 0, m <= n PROVE 0 <= cash - m * price - Fee(m, price)
    OBVIOUS
  <2> DEFINE a == m * price
             f == Fee(m, price)
             b == m * (price * c)
  <2>1. a \in Nat /\ f \in Nat /\ b \in Nat /\ W * f <= b /\ X * m = W * a + b
    BY <1>8
  <2> HIDE DEF a, f, b
  <2>2. X * m <= X * n
    BY <1>4, <1>7, ProductOrder
  <2>3. W * (a + f) <= W * cash
    BY <1>3, <1>4, <1>6, <1>7, <2>1, <2>2
  <2>4. a + f <= cash
    BY <1>3, <2>1, <2>3, QuotientMonotone
  <2> QED BY <1>3, <2>1, <2>4 DEF a, f
<1>12. n <= 0 => cash <= price + f1
  <2> SUFFICES ASSUME n <= 0 PROVE cash <= price + f1
    OBVIOUS
  <2>1. X * n <= X * 0
    BY <1>4, <1>7, ProductOrder
  <2>2. W * cash < W * (price + f1 + 1)
    BY <1>3, <1>4, <1>6, <1>7, <1>10, <1>9, <2>1
  <2>3. ~(price + f1 + 1 <= cash)
    <3> SUFFICES ASSUME price + f1 + 1 <= cash PROVE FALSE
      OBVIOUS
    <3>1. W * (price + f1 + 1) <= W * cash
      BY <1>3, <1>9, ProductOrder
    <3> QED BY <3>1, <2>2, <1>3, <1>9
  <2> QED BY <2>3, <1>3, <1>9
<1>13. n > 0 => cash - n * price - Fee(n, price) <= price + f1 + 1
  <2> SUFFICES ASSUME n > 0 PROVE cash - n * price - Fee(n, price) <= price + f1 + 1
    OBVIOUS
  <2> DEFINE a == n * price
             f == Fee(n, price)
             b == n * (price * c)
  <2>1. /\ a \in Nat /\ f \in Nat /\ b \in Nat /\ b < W * f + W
        /\ X * n = W * a + b
    <3>1. n \in Nat
      BY <1>7
    <3> QED BY <3>1, <1>8
  <2> HIDE DEF a, f, b
  <2> DEFINE left == cash - a - f
  <2>2. W * left = W * cash - W * a - W * f /\ left \in Int
    BY <1>3, <2>1
  <2> HIDE DEF left
  <2>3. W * (price + f1 + 2) = W * (price + f1 + 1) + W
    BY <1>9
  <2>4. W * left < W * (price + f1 + 2)
    BY <1>3, <1>4, <1>6, <1>7, <1>9, <1>10, <2>1, <2>2, <2>3
  <2>5. ~(price + f1 + 2 <= left)
    <3> SUFFICES ASSUME price + f1 + 2 <= left PROVE FALSE
      OBVIOUS
    <3>1. W * (price + f1 + 2) <= W * left
      BY <2>2, <1>9, ProductOrder
    <3> QED BY <3>1, <2>4, <2>2, <1>9
  <2>6. left <= price + f1 + 1
    BY <2>5, <2>2, <1>9
  <2> QED BY <2>6 DEF left, a, f
<1> QED BY <1>7, <1>11, <1>12, <1>13 DEF n, f1

-----------------------------------------------------------------------------
(* Rebalancing.                                                              *)

Gap(s) == target[s] * value - Unit * positions[s].quantity * prices[s]

\* No shorts and no leverage, and a price for each symbol.
Investable ==
    /\ source >= 0 /\ value > 0
    /\ \A s \in Symbols : prices[s] > 0 /\ target[s] >= 0
    /\ Total(target) <= Unit

\* Not above the target, and below it only if the cash is spent and nothing is left to sell.
Settled(s) ==
    /\ 0 - Unit * prices[s] <= Gap(s)
    /\ Gap(s) <= Unit * prices[s] \/ (cash <= UnitCost(s) /\ \A o \in Symbols : planned[o] >= 0)

\* What is in cash, in positions and lost in fills is the value that the plan goes by; what
\* is still planned closes the gap, and a symbol that is done is settled.
RebalanceInvariant ==
    /\ BooksInvariant
    /\ target \in [Symbols -> Int] /\ signal \in [Symbols -> Int]
    /\ value \in Int /\ lost \in Nat
    /\ stage = "orders" =>
        /\ value = cash + Total([s \in Symbols |-> positions[s].quantity * marks[s]]) + lost
        /\ source >= 0 =>
            \A s \in Symbols :
                planned[s] # 0 => planned[s] = TowardsZero(Gap(s), Unit * prices[s])
        /\ Investable => \A s \in Symbols : planned[s] = 0 => Settled(s)

LEMMA GapType ==
    ASSUME RebalanceInvariant, NEW s \in Symbols, prices[s] > 0
    PROVE  /\ Gap(s) \in Int /\ Unit * prices[s] \in Nat \ {0}
           /\ prices[s] \in Nat \ {0} /\ positions[s].quantity \in Int /\ target[s] \in Int
           /\ planned[s] \in Int /\ marks[s] = prices[s]
<1>1. /\ prices[s] \in Nat \ {0} /\ positions[s].quantity \in Int /\ target[s] \in Int
      /\ value \in Int /\ planned[s] \in Int /\ marks[s] = prices[s]
  BY DEF RebalanceInvariant, BooksInvariant, LedgerInvariant, LedgerTypes, Positions
<1>2. PICK u \in Nat \ {0} : u = Unit
  BY WeightsAssumption
<1>3. u * prices[s] \in Nat \ {0} /\ target[s] * value - u * positions[s].quantity * prices[s] \in Int
  BY <1>1
<1> QED BY <1>1, <1>2, <1>3 DEF Gap

\* What a fill does to its symbol, and to what the portfolio is worth.
LEMMA FillMoves ==
    ASSUME RebalanceInvariant, stage = "orders", NEW s \in Symbols, prices[s] > 0,
           NEW quantity \in Int \ {0}, Fill(s, quantity),
           UNCHANGED <<target, prices, marks, value>>
    PROVE  /\ Gap(s)' = Gap(s) - (Unit * prices[s]) * quantity
           /\ \A o \in Symbols \ {s} : Gap(o)' = Gap(o)
           /\ value' = cash' + Total([o \in Symbols |-> positions'[o].quantity * marks'[o]]) + lost'
           /\ lost' \in Nat
           /\ quantity > 0 => cash' <= cash
           /\ cash' = cash - quantity * ExecutionPrice(s, quantity)
                           - Fee(quantity, ExecutionPrice(s, quantity))
<1> DEFINE price == ExecutionPrice(s, quantity)
           fee == Fee(quantity, price)
           q == positions[s].quantity
           p == prices[s]
           mv == [o \in Symbols |-> positions[o].quantity * marks[o]]
           mvNext == [o \in Symbols |-> positions'[o].quantity * marks'[o]]
<1>1. /\ p \in Nat \ {0} /\ q \in Int /\ marks[s] = p /\ Gap(s) \in Int
  BY GapType
<1>2. /\ cash \in Int /\ lost \in Nat /\ value = cash + Total(mv) + lost
      /\ positions \in [Symbols -> Positions] /\ marks \in [Symbols -> Nat]
      /\ target[s] \in Int /\ value \in Int
  BY DEF RebalanceInvariant, BooksInvariant, LedgerInvariant, LedgerTypes
<1>3. price \in Nat /\ (quantity > 0 => p <= price) /\ (quantity < 0 => price <= p)
  <2>1. price \in Nat /\ (quantity > 0 => p <= price)
    BY ExecutionPriceType DEF RebalanceInvariant, BooksInvariant
  <2>2. Bps(p, AdjustmentBps) \in Nat
    BY <1>1, RatesAssumption, BpsType
  <2> QED BY <2>1, <2>2, <1>1 DEF ExecutionPrice
<1>4. /\ cash' = cash + CashDelta(quantity, price, fee)
      /\ positions' = [positions EXCEPT ![s] = ApplyFill(@, quantity, price, fee, row)]
      /\ lost' = lost + Size(quantity) * Size(price - p) + fee
  BY DEF Fill
<1> HIDE DEF price
<1>5. fee \in Nat
  BY <1>3, FeeType
<1> HIDE DEF fee
<1>6. /\ positions'[s].quantity = q + quantity
      /\ \A o \in Symbols \ {s} : positions'[o] = positions[o]
  <2>1. positions[s] \in Positions
    BY <1>2
  <2> QED BY <1>2, <1>4, <2>1, ApplyFillQuantity
<1>7. Gap(s)' = Gap(s) - (Unit * p) * quantity
  <2>1. PICK u \in Nat \ {0} : u = Unit
    BY WeightsAssumption
  <2>2. Gap(s) = target[s] * value - u * q * p
    BY <2>1 DEF Gap
  <2>3. Gap(s)' = target[s] * value - u * (q + quantity) * p
    BY <2>1, <1>6 DEF Gap
  <2> DEFINE tv == target[s] * value
  <2>4. tv \in Int
    BY <1>2
  <2> HIDE DEF tv, q, p
  <2>5. u * (q + quantity) * p = u * q * p + (u * p) * quantity
    BY <1>1
  <2>6. u * q * p \in Int /\ (u * p) * quantity \in Int
    BY <1>1
  <2> QED BY <2>1, <2>2, <2>3, <2>4, <2>5, <2>6 DEF tv, q, p
<1>8. \A o \in Symbols \ {s} : Gap(o)' = Gap(o)
  BY <1>6 DEF Gap
<1> DEFINE pay == quantity * price
           worth == quantity * p
           slip == Size(quantity) * Size(price - p)
<1>9. /\ pay \in Int /\ worth \in Int /\ slip \in Nat /\ slip = pay - worth
      /\ quantity > 0 => pay >= 0
  <2> HIDE DEF p
  <2>1. CASE quantity > 0
    <3>1. Size(quantity) = quantity /\ Size(price - p) = price - p
      BY <2>1, <1>1, <1>3 DEF Size
    <3>2. quantity * (price - p) = pay - worth /\ quantity * (price - p) \in Nat
      BY <2>1, <1>1, <1>3
    <3>3. pay \in Nat /\ worth \in Int
      BY <2>1, <1>1, <1>3
    <3> QED BY <3>1, <3>2, <3>3
  <2>2. CASE quantity < 0
    <3>1. Size(quantity) = -quantity /\ Size(price - p) = p - price
      BY <2>2, <1>1, <1>3 DEF Size
    <3>2. (-quantity) * (p - price) = pay - worth /\ (-quantity) * (p - price) \in Nat
      BY <2>2, <1>1, <1>3
    <3>3. pay \in Int /\ worth \in Int
      BY <1>1, <1>3
    <3> QED BY <2>2, <3>1, <3>2, <3>3
  <2> QED BY <2>1, <2>2
<1>10. Total(mvNext) = Total(mv) + worth /\ Total(mv) \in Int
  <2>1. /\ mv \in [Symbols -> Int]
        /\ \A o \in Symbols : mv[o] = positions[o].quantity * marks[o]
    BY <1>2 DEF Positions
  <2>2. /\ \A o \in Symbols \ {s} : mvNext[o] = mv[o]
        /\ mvNext[s] = (q + quantity) * p /\ mv[s] = q * p
    BY <1>1, <1>6
  <2> HIDE DEF p, q
  <2>3. mvNext[s] - mv[s] = worth /\ mvNext[s] \in Int
    BY <2>2, <1>1
  <2>4. mvNext \in [Symbols -> Int]
    <3>1. \A o \in Symbols : mvNext[o] \in Int
      BY <2>1, <2>2, <2>3
    <3> HIDE DEF mv
    <3> QED BY <3>1
  <2> HIDE DEF mv, mvNext, worth
  <2>5. Total(mvNext) = Total(mv) + (mvNext[s] - mv[s])
    BY <2>1, <2>2, <2>4, TotalChange
  <2> QED BY <2>1, <2>3, <2>5, TotalType
<1>11. cash' = cash - pay - fee
  BY <1>2, <1>4, <1>5, <1>9 DEF CashDelta
<1> HIDE DEF pay, worth, slip, mv, mvNext
<1>12. value' = cash' + Total(mvNext) + lost' /\ lost' \in Nat
  <2>1. lost' = lost + slip + fee
    BY <1>4 DEF slip
  <2> QED BY <2>1, <1>2, <1>5, <1>9, <1>10, <1>11
<1>13. quantity > 0 => cash' <= cash
  BY <1>2, <1>5, <1>9, <1>11
<1> QED BY <1>7, <1>8, <1>11, <1>12, <1>13 DEF pay, fee, price, mvNext

LEMMA UnitCostType ==
    ASSUME RebalanceInvariant, NEW s \in Symbols, prices[s] > 0
    PROVE  UnitCost(s) \in Nat /\ prices[s] <= UnitCost(s)
<1>1. ExecutionPrice(s, 1) \in Nat /\ prices[s] <= ExecutionPrice(s, 1)
  BY ExecutionPriceType DEF RebalanceInvariant, BooksInvariant
<1>2. Fee(1, ExecutionPrice(s, 1)) \in Nat
  BY <1>1, FeeType
<1>3. prices[s] \in Nat
  BY GapType
<1> QED BY <1>1, <1>2, <1>3 DEF UnitCost

\* The weights of an investable row are none above a hundred percent.
LEMMA WeightsAreParts ==
    ASSUME RebalanceInvariant, Investable, NEW s \in Symbols
    PROVE  target[s] \in Nat /\ Size(target[s]) <= Unit
<1>1. target \in [Symbols -> Nat]
  BY DEF RebalanceInvariant, Investable
<1>2. target[s] <= Total(target) /\ Total(target) <= Unit /\ Total(target) \in Int
  BY <1>1, TotalIsAtLeast, TotalType DEF Investable
<1>3. Unit \in Nat
  BY WeightsAssumption
<1> QED BY <1>1, <1>2, <1>3 DEF Size

\* An investable plan sells no more than there is.
LEMMA NothingIsSoldShort ==
    ASSUME RebalanceInvariant, stage = "orders", Investable, NEW s \in Symbols, planned[s] # 0
    PROVE  positions[s].quantity + planned[s] >= 0
<1> DEFINE q == positions[s].quantity
           k == Unit * prices[s]
           g == Gap(s)
<1>1. g \in Int /\ k \in Nat \ {0} /\ q \in Int /\ planned[s] \in Int
  BY GapType DEF Investable
<1>2. planned[s] = TowardsZero(g, k)
  BY DEF RebalanceInvariant, Investable
<1>3. g >= k * (0 - q)
  <2>1. PICK u \in Nat \ {0} : u = Unit
    BY WeightsAssumption
  <2>2. target[s] \in Nat /\ value \in Nat /\ prices[s] \in Nat
    BY WeightsAreParts, GapType DEF Investable, RebalanceInvariant
  <2> DEFINE tv == target[s] * value
  <2>3. tv \in Nat
    BY <2>2
  <2>4. g = tv - u * q * prices[s]
    BY <2>1 DEF Gap
  <2>5. u * q * prices[s] = (u * prices[s]) * q /\ (u * prices[s]) * q \in Int
    BY <1>1, <2>2
  <2>6. k * (0 - q) = 0 - (u * prices[s]) * q
    BY <1>1, <2>1, <2>2
  <2> HIDE DEF tv, k, g
  <2> QED BY <2>3, <2>4, <2>5, <2>6
<1> HIDE DEF g, k
<1>4. planned[s] >= 0 - q
  <2>1. 0 - q \in Int
    BY <1>1
  <2> HIDE DEF q
  <2> QED BY <1>1, <1>2, <1>3, <2>1, TowardsZeroBounds
<1> QED BY <1>1, <1>4

\* A symbol is settled by its order.
LEMMA OrderSettles ==
    ASSUME RebalanceInvariant, stage = "orders", Investable, NEW s \in Symbols, planned[s] # 0,
           planned[s] > 0 => \A o \in Symbols : planned[o] >= 0,
           planned' = [planned EXCEPT ![s] = 0],
           FilledWhole(s) \/ FilledInPart(s) \/ NotFilled(s),
           UNCHANGED plan
    PROVE  Settled(s)'
<1> DEFINE n == planned[s]
           k == Unit * prices[s]
           g == Gap(s)
           price == ExecutionPrice(s, n)
           m == Affordable(price)
<1>1. /\ g \in Int /\ k \in Nat \ {0} /\ n \in Int \ {0} /\ prices[s] \in Nat \ {0}
      /\ prices[s] > 0 /\ planned \in [Symbols -> Int]
  BY GapType DEF Investable, RebalanceInvariant, BooksInvariant, LedgerInvariant, LedgerTypes
<1>2. n = TowardsZero(g, k)
  BY DEF RebalanceInvariant, Investable
<1>3. UNCHANGED <<target, prices, marks, source>>
  BY DEF plan
<1>4. k' = k /\ UnitCost(s)' = UnitCost(s)
  BY <1>3 DEF UnitCost, ExecutionPrice
<1>5. Settled(s)' <=> /\ 0 - k <= g'
                      /\ \/ g' <= k
                         \/ cash' <= UnitCost(s) /\ \A o \in Symbols : planned'[o] >= 0
  BY <1>4 DEF Settled
<1>6. n > 0 => \A o \in Symbols : planned'[o] >= 0
  BY <1>1
<1>7. /\ cash \in Int
      /\ n > 0 => price \in Nat \ {0} /\ UnitCost(s) = price + Fee(1, price) + 1
  <2> SUFFICES ASSUME n > 0
               PROVE  price \in Nat \ {0} /\ UnitCost(s) = price + Fee(1, price) + 1
    BY DEF RebalanceInvariant, BooksInvariant, LedgerInvariant, LedgerTypes
  <2>1. price \in Nat /\ prices[s] <= price
    BY <1>1, ExecutionPriceType DEF RebalanceInvariant, BooksInvariant
  <2>2. ExecutionPrice(s, 1) = price
    BY <1>1 DEF ExecutionPrice
  <2> QED BY <1>1, <2>1, <2>2 DEF UnitCost
<1>8. LedgerInvariant
  BY DEF RebalanceInvariant, BooksInvariant
<1>9. /\ g - k * n < k /\ 0 - k < g - k * n
      /\ n > 0 => g >= 0
  <2> HIDE DEF g, k, n
  <2> QED BY <1>1, <1>2, TowardsZeroBounds
<1>10. CASE FilledWhole(s)
  <2>1. Fill(s, n) /\ UNCHANGED value
    BY <1>10 DEF FilledWhole, Fill
  <2>2. g' = g - k * n
    BY <1>1, <1>3, <2>1, FillMoves
  <2> HIDE DEF g, k, n
  <2>3. k * n \in Int
    BY <1>1
  <2> QED BY <1>1, <1>5, <1>9, <2>2, <2>3
<1>11. CASE FilledInPart(s)
  <2>1. n > 0 /\ m > 0 /\ Fill(s, m) /\ UNCHANGED value /\ CashAfter(s, n) < 0
    BY <1>11 DEF FilledInPart, Fill
  <2>2. price \in Nat \ {0} /\ m \in Int \ {0}
    BY <1>7, <1>8, <2>1, AffordableType
  <2>3. /\ g' = g - k * m
        /\ cash' = cash - m * ExecutionPrice(s, m) - Fee(m, ExecutionPrice(s, m))
    BY <1>1, <1>3, <2>1, <2>2, FillMoves
  <2>4. ExecutionPrice(s, m) = price
    BY <1>1, <2>1, <2>2 DEF ExecutionPrice
  <2>5. CashAfter(s, n) = cash - n * price - Fee(n, price)
    <3>1. CashAfter(s, n) = cash + (0 - n * price - Fee(n, price))
      BY DEF CashAfter, CashDelta
    <3> HIDE DEF price, n
    <3>2. n * price \in Int /\ Fee(n, price) \in Int
      BY <1>1, <2>2, FeeType
    <3> QED BY <1>7, <3>1, <3>2
  <2> HIDE DEF n, k, g, m, price
  <2>6. m < n
    <3> SUFFICES ASSUME n <= m PROVE FALSE
      BY <1>1, <2>2
    <3>1. 0 <= cash - n * price - Fee(n, price)
      <4>1. n \in Nat /\ n > 0 /\ n <= Affordable(price)
        BY <1>1, <2>1 DEF m
      <4>2. \A j \in Nat : j > 0 /\ j <= Affordable(price)
                             => 0 <= cash - j * price - Fee(j, price)
        BY <1>8, <2>2, AffordableIsCovered
      <4> QED BY <4>1, <4>2
    <3>2. n * price \in Int /\ Fee(n, price) \in Int
      BY <1>1, <2>2, FeeType
    <3> QED BY <3>1, <3>2, <1>7, <2>1, <2>5
  <2>7. cash' <= UnitCost(s)
    <3>1. m = Affordable(price)
      BY DEF m
    <3>2. cash - m * price - Fee(m, price) <= price + Fee(1, price) + 1
      BY <3>1, <1>8, <2>1, <2>2, AffordableIsCovered
    <3> QED BY <3>2, <1>7, <2>1, <2>3, <2>4
  <2>8. k * m <= k * n /\ k * m \in Int /\ k * n \in Int
    BY <1>1, <2>2, <2>6, ProductOrder
  <2> QED BY <1>1, <1>5, <1>6, <1>9, <2>1, <2>3, <2>7, <2>8
<1>12. CASE NotFilled(s)
  <2>1. UNCHANGED <<cash, positions, value>>
    BY <1>12 DEF NotFilled, books, history
  <2>2. g' = g
    BY <1>3, <2>1 DEF Gap
  <2>3. positions[s].quantity + n >= 0 /\ positions[s].quantity \in Int
    BY NothingIsSoldShort, GapType DEF Investable
  <2>4. n > 0 /\ ~(m > 0)
    BY <1>1, <1>12, <2>3, WeightsAreParts DEF NotFilled
  <2> HIDE DEF n, k, g, m, price
  <2>5. m \in Int /\ cash <= price + Fee(1, price)
    <3>1. m = Affordable(price) /\ price \in Nat \ {0}
      BY <1>7, <2>4 DEF m
    <3>2. m \in Int
      BY <3>1, <1>8, AffordableType
    <3>3. m <= 0
      BY <3>2, <2>4
    <3> QED BY <3>1, <3>2, <3>3, <1>8, AffordableIsCovered
  <2>6. cash' <= UnitCost(s)
    <3>1. price \in Nat \ {0} /\ Fee(1, price) \in Nat
      BY <1>7, <2>4, FeeType
    <3> QED BY <3>1, <2>1, <2>4, <2>5, <1>7
  <2>7. 0 - k <= g
    BY <1>1, <1>9, <2>4
  <2> QED BY <1>5, <1>6, <2>2, <2>4, <2>6, <2>7
<1> QED BY <1>10, <1>11, <1>12

\* The orders of the other symbols leave a symbol settled.
LEMMA OrderKeepsOthers ==
    ASSUME RebalanceInvariant, stage = "orders", Investable,
           NEW s \in Symbols, planned[s] # 0, prices[s] > 0,
           planned[s] > 0 => \A o \in Symbols : planned[o] >= 0,
           planned' = [planned EXCEPT ![s] = 0],
           FilledWhole(s) \/ FilledInPart(s) \/ NotFilled(s),
           UNCHANGED plan,
           NEW o \in Symbols \ {s}, Settled(o)
    PROVE  Settled(o)'
<1>1. UNCHANGED <<target, prices, marks, source>>
  BY DEF plan
<1>2. (Unit * prices[o])' = Unit * prices[o] /\ UnitCost(o)' = UnitCost(o)
  BY <1>1 DEF UnitCost, ExecutionPrice
<1>3. planned \in [Symbols -> Int] /\ cash \in Int /\ planned[s] \in Int \ {0}
  BY DEF RebalanceInvariant, BooksInvariant, LedgerInvariant, LedgerTypes
<1>4. Gap(o)' = Gap(o) /\ (planned[s] > 0 => cash' <= cash) /\ cash' \in Int
  <2>1. ASSUME NEW quantity \in Int \ {0}, Fill(s, quantity), planned[s] > 0 => quantity > 0
        PROVE  Gap(o)' = Gap(o) /\ (planned[s] > 0 => cash' <= cash) /\ cash' \in Int
    <3>1. UNCHANGED value
      BY <2>1 DEF Fill
    <3>2. /\ Gap(o)' = Gap(o) /\ (quantity > 0 => cash' <= cash)
          /\ cash' = cash - quantity * ExecutionPrice(s, quantity)
                          - Fee(quantity, ExecutionPrice(s, quantity))
      BY <1>1, <2>1, <3>1, FillMoves
    <3>3. PICK price \in Nat : price = ExecutionPrice(s, quantity)
      BY ExecutionPriceType DEF RebalanceInvariant, BooksInvariant
    <3>4. Fee(quantity, price) \in Nat /\ quantity * price \in Int
      BY FeeType
    <3> QED BY <1>3, <2>1, <3>2, <3>3, <3>4
  <2>2. CASE FilledWhole(s)
    BY <1>3, <2>1, <2>2 DEF FilledWhole
  <2>3. CASE FilledInPart(s)
    <3>2. Affordable(ExecutionPrice(s, planned[s])) \in Int \ {0}
      BY <1>3, <2>3, PartIsQuantity DEF RebalanceInvariant, BooksInvariant
    <3> QED BY <2>1, <2>3, <3>2 DEF FilledInPart
  <2>4. CASE NotFilled(s)
    BY <1>1, <1>3, <2>4 DEF NotFilled, books, history, Gap
  <2> QED BY <2>2, <2>3, <2>4
<1>5. (\A r \in Symbols : planned[r] >= 0) => planned[s] > 0 /\ \A r \in Symbols : planned'[r] >= 0
  BY <1>3
<1>6. UnitCost(o) \in Nat
  BY UnitCostType DEF Investable
<1>7. CASE cash <= UnitCost(o) /\ \A r \in Symbols : planned[r] >= 0
  <2>1. cash' <= UnitCost(o)
    BY <1>3, <1>4, <1>5, <1>6, <1>7
  <2> QED BY <1>2, <1>4, <1>5, <1>7, <2>1 DEF Settled
<1>8. CASE Gap(o) <= Unit * prices[o]
  BY <1>2, <1>4, <1>8 DEF Settled
<1> QED BY <1>7, <1>8 DEF Settled

LEMMA OrderRebalances ==
    ASSUME RebalanceInvariant, BooksInvariant', Order
    PROVE  RebalanceInvariant'
<1>1. PICK s \in Symbols :
          /\ planned[s] \in Int \ {0} /\ prices[s] > 0 /\ prices[s] \in Nat
          /\ planned[s] > 0 => \A o \in Symbols : planned[o] >= 0
          /\ planned' = [planned EXCEPT ![s] = 0]
          /\ FilledWhole(s) \/ FilledInPart(s) \/ NotFilled(s)
  BY OrderCases DEF RebalanceInvariant, BooksInvariant
<1>2. stage = "orders" /\ UNCHANGED <<target, signal, source, prices, marks>> /\ UNCHANGED plan
  BY OrderCases DEF RebalanceInvariant, BooksInvariant, plan
<1>3. planned \in [Symbols -> Int]
  BY DEF RebalanceInvariant, BooksInvariant, LedgerInvariant, LedgerTypes
<1>4. UNCHANGED value
  BY <1>1 DEF FilledWhole, FilledInPart, NotFilled, Fill, history
<1>5. /\ value' = cash' + Total([o \in Symbols |-> positions'[o].quantity * marks'[o]]) + lost'
      /\ lost' \in Nat
      /\ \A o \in Symbols \ {s} : Gap(o)' = Gap(o)
  <2>1. ASSUME NEW quantity \in Int \ {0}, Fill(s, quantity)
        PROVE  /\ value' = cash' + Total([o \in Symbols |-> positions'[o].quantity * marks'[o]])
                           + lost'
               /\ lost' \in Nat
               /\ \A o \in Symbols \ {s} : Gap(o)' = Gap(o)
    BY <1>1, <1>2, <1>4, <2>1, FillMoves
  <2>2. CASE FilledWhole(s)
    BY <1>1, <2>1, <2>2 DEF FilledWhole
  <2>3. CASE FilledInPart(s)
    <3>2. Affordable(ExecutionPrice(s, planned[s])) \in Int \ {0}
      BY <1>1, <2>3, PartIsQuantity DEF RebalanceInvariant, BooksInvariant
    <3> QED BY <2>1, <2>3, <3>2 DEF FilledInPart
  <2>4. CASE NotFilled(s)
    <3>1. UNCHANGED <<cash, positions, lost>>
      BY <2>4 DEF NotFilled, books, history
    <3>2. value = cash + Total([o \in Symbols |-> positions[o].quantity * marks[o]]) + lost
          /\ lost \in Nat
      BY <1>2 DEF RebalanceInvariant
    <3> QED BY <1>2, <1>4, <3>1, <3>2 DEF Gap
  <2> QED BY <1>1, <2>2, <2>3, <2>4
<1>6. ASSUME source' >= 0, NEW o \in Symbols, planned'[o] # 0
      PROVE  planned'[o] = TowardsZero(Gap(o)', (Unit * prices[o])')
  <2>1. o # s /\ planned'[o] = planned[o]
    BY <1>1, <1>3, <1>6
  <2>2. planned[o] = TowardsZero(Gap(o), Unit * prices[o])
    BY <1>2, <1>6, <2>1 DEF RebalanceInvariant
  <2> QED BY <1>2, <1>5, <2>1, <2>2
<1>7. ASSUME Investable', NEW o \in Symbols, planned'[o] = 0
      PROVE  Settled(o)'
  <2>1. Investable
    BY <1>2, <1>4, <1>7 DEF Investable
  <2>2. CASE o = s
    BY <1>1, <1>2, <2>1, <2>2, OrderSettles
  <2>3. CASE o # s
    <3>1. planned[o] = 0
      BY <1>1, <1>3, <1>7, <2>3
    <3>2. Settled(o)
      BY <1>2, <2>1, <3>1 DEF RebalanceInvariant
    <3> QED BY <1>1, <1>2, <2>1, <2>3, <3>2, OrderKeepsOthers
  <2> QED BY <2>2, <2>3
<1>8. /\ target' \in [Symbols -> Int] /\ signal' \in [Symbols -> Int] /\ value' \in Int
      /\ stage' = "orders"
  BY <1>2, <1>4, OrderCases DEF RebalanceInvariant, BooksInvariant
<1> QED BY <1>5, <1>6, <1>7, <1>8 DEF RebalanceInvariant

LEMMA StartRowRebalances ==
    ASSUME RebalanceInvariant, BooksInvariant',
           NEW weights \in Targets, NEW at \in PriceRows, StartRow(weights, at)
    PROVE  RebalanceInvariant'
<1> DEFINE inForce == IF Source = row THEN weights ELSE signal
           marked == [s \in Symbols |-> IF at[s] > 0 THEN at[s] ELSE marks[s]]
           held == [s \in Symbols |-> positions[s].quantity * marked[s]]
           worth == cash + Total(held)
<1>1. /\ stage = "idle" /\ stage' = "orders"
      /\ signal' = weights /\ prices' = at /\ marks' = marked
      /\ source' = Source /\ value' = worth /\ lost' = 0
      /\ UNCHANGED books
  BY DEF StartRow
<1>2. \/ Source >= 0 /\ target' = inForce /\ planned' = Plan(inForce, at, worth)
      \/ Source < 0 /\ UNCHANGED <<target, planned>>
  BY DEF StartRow
<1>3. /\ weights \in [Symbols -> Int] /\ at \in [Symbols -> Nat]
      /\ target \in [Symbols -> Int] /\ signal \in [Symbols -> Int]
      /\ cash \in Int /\ marks \in [Symbols -> Nat]
      /\ positions \in [Symbols -> Positions] /\ planned = Nothing
      /\ row \in Nat
  BY <1>1, WeightsAssumption, PricesAssumption
     DEF RebalanceInvariant, BooksInvariant, LedgerInvariant, LedgerTypes
<1>4. Source \in Int
  BY <1>3 DEF Source
<1>5. inForce \in [Symbols -> Int]
  BY <1>3
<1>6. worth \in Int
  <2>1. held \in [Symbols -> Int]
    BY <1>3 DEF Positions
  <2> HIDE DEF held
  <2> QED BY <1>3, <2>1, TotalType
<1>7. value' = cash' + Total([s \in Symbols |-> positions'[s].quantity * marks'[s]]) + lost'
  <2>1. [s \in Symbols |-> positions'[s].quantity * marks'[s]] = held /\ cash' = cash
    BY <1>1 DEF books
  <2> QED BY <1>1, <1>6, <2>1
<1> HIDE DEF inForce, worth
<1>8. ASSUME Source >= 0, NEW s \in Symbols
      PROVE  /\ planned'[s] # 0 => planned'[s] = TowardsZero(Gap(s)', (Unit * prices[s])')
             /\ at[s] > 0 => planned'[s] = TowardsZero(Gap(s)', (Unit * prices[s])')
  <2>1. /\ target' = inForce /\ planned' = Plan(inForce, at, worth)
    BY <1>2, <1>4, <1>8
  <2>2. Needed(s, inForce[s], at, worth) = TowardsZero(Gap(s)', (Unit * prices[s])')
    BY <1>1, <2>1 DEF Needed, Gap, books
  <2>3. at[s] > 0 => Needed(s, inForce[s], at, worth) \in Int
    <3> SUFFICES ASSUME at[s] > 0 PROVE Needed(s, inForce[s], at, worth) \in Int
      OBVIOUS
    <3>1. PICK u \in Nat \ {0} : u = Unit
      BY WeightsAssumption
    <3>2. PICK g \in Int : g = inForce[s] * worth - u * positions[s].quantity * at[s]
      BY <1>3, <1>5, <1>6 DEF Positions
    <3>3. PICK k \in Nat \ {0} : k = u * at[s]
      BY <1>3
    <3> QED BY <3>1, <3>2, <3>3, TowardsZeroBounds DEF Needed
  <2> QED BY <2>1, <2>2, <2>3 DEF Plan
<1>9. ASSUME Investable', NEW s \in Symbols, planned'[s] = 0
      PROVE  Settled(s)'
  <2> DEFINE k == Unit * prices'[s]
             g == Gap(s)'
  <2>1. Source >= 0 /\ at[s] > 0
    BY <1>1, <1>9 DEF Investable
  <2>2. TowardsZero(g, k) = 0
    BY <1>8, <1>9, <2>1
  <2>3. k \in Nat \ {0} /\ g \in Int
    <3>1. PICK u \in Nat \ {0} : u = Unit
      BY WeightsAssumption
    <3>2. u * at[s] \in Nat \ {0}
      BY <1>3, <2>1
    <3>3. target'[s] \in Int /\ value' \in Int /\ positions'[s].quantity \in Int
      BY <1>1, <1>2, <1>3, <1>4, <1>5, <1>6, <2>1 DEF books, Positions
    <3>4. target'[s] * value' - u * positions'[s].quantity * at[s] \in Int
      BY <1>3, <3>3
    <3> QED BY <1>1, <3>1, <3>2, <3>4 DEF Gap
  <2> HIDE DEF k, g
  <2>4. g - k * 0 < k /\ 0 - k < g - k * 0
    BY <2>2, <2>3, TowardsZeroBounds
  <2>5. 0 - k <= g /\ g <= k
    BY <2>3, <2>4
  <2> QED BY <2>5 DEF Settled, k, g
<1>10. /\ target' \in [Symbols -> Int] /\ signal' \in [Symbols -> Int]
       /\ value' \in Int /\ lost' \in Nat
  BY <1>1, <1>2, <1>3, <1>5, <1>6
<1> QED BY <1>1, <1>7, <1>8, <1>9, <1>10 DEF RebalanceInvariant

\* The invariant of a row's orders: no value is lost but for commissions and slippage, what
\* is planned is what the target lacks, and who has no order left is at the target.
THEOREM RebalanceInvariance == Spec => []RebalanceInvariant
<1>1. Init /\ BooksInvariant => RebalanceInvariant
  BY NumbersAssumption DEF Init, RebalanceInvariant, Nothing
<1>2. RebalanceInvariant /\ BooksInvariant' /\ [Next]_vars => RebalanceInvariant'
  <2> SUFFICES ASSUME RebalanceInvariant, BooksInvariant', [Next]_vars
               PROVE  RebalanceInvariant'
    OBVIOUS
  <2>1. CASE UNCHANGED <<target, signal, value, lost>> /\ stage' # "orders"
    BY <2>1 DEF RebalanceInvariant
  <2>2. ASSUME NEW n \in 1 .. MaxRows, Receive(n)
        PROVE  RebalanceInvariant'
    BY <2>2 DEF Receive, plan, books, history, RebalanceInvariant, Investable, Settled, Gap,
                UnitCost, ExecutionPrice
  <2>3. ASSUME NEW weights \in Targets, NEW at \in PriceRows, StartRow(weights, at)
        PROVE  RebalanceInvariant'
    BY <2>3, StartRowRebalances
  <2>4. CASE Order
    BY <2>4, OrderRebalances
  <2>5. ASSUME NEW cost \in PeriodCosts, EndRow(cost)
        PROVE  RebalanceInvariant'
    BY <2>1, <2>5 DEF EndRow, plan, history
  <2>6. CASE UNCHANGED vars
    BY <2>6 DEF vars, plan, books, history, RebalanceInvariant, Investable, Settled, Gap,
                UnitCost, ExecutionPrice
  <2> QED BY <2>2, <2>3, <2>4, <2>5, <2>6 DEF Next, Run
<1> QED BY <1>1, <1>2, BooksInvariance, PTL DEF Spec

\* A symbol below its target: the others are not above theirs, so that what it lacks is
\* what was lost and the little that is left of the cash.
LEMMA SettledIsNear ==
    ASSUME RebalanceInvariant, stage = "orders", Investable, planned = Nothing,
           NEW s \in Symbols
    PROVE  Size(target[s] * value - Unit * MarketValue(s))
               <= Unit * (lost + Total([o \in Symbols |-> UnitCost(o)]))
<1> DEFINE unitCosts == [o \in Symbols |-> UnitCost(o)]
           gaps == [o \in Symbols |-> Gap(o)]
           C == Total(unitCosts)
           mv == [o \in Symbols |-> positions[o].quantity * marks[o]]
<1>1. PICK u \in Nat \ {0} : u = Unit
  BY WeightsAssumption
<1>2. unitCosts \in [Symbols -> Nat] /\ \A o \in Symbols : prices[o] <= unitCosts[o]
  BY UnitCostType DEF Investable
<1>3. C \in Int /\ unitCosts[s] <= C /\ unitCosts[s] \in Nat
  <2>1. unitCosts \in [Symbols -> Int]
    BY <1>2
  <2> HIDE DEF unitCosts
  <2> QED BY <1>2, <2>1, TotalType, TotalIsAtLeast
<1>4. \A o \in Symbols : /\ Gap(o) \in Int /\ prices[o] \in Nat
                         /\ 0 - u * prices[o] <= Gap(o)
                         /\ Gap(o) <= u * prices[o] \/ cash <= unitCosts[o]
  <2> SUFFICES ASSUME NEW o \in Symbols
               PROVE  /\ Gap(o) \in Int /\ prices[o] \in Nat
                      /\ 0 - u * prices[o] <= Gap(o)
                      /\ Gap(o) <= u * prices[o] \/ cash <= unitCosts[o]
    OBVIOUS
  <2>1. Settled(o)
    BY DEF RebalanceInvariant, Nothing
  <2>2. Gap(o) \in Int /\ prices[o] \in Nat
    BY GapType DEF Investable
  <2> QED BY <1>1, <2>1, <2>2 DEF Settled
<1>5. /\ cash \in Int /\ lost \in Nat /\ value \in Nat /\ value = cash + Total(mv) + lost
      /\ Total(target) <= u /\ target \in [Symbols -> Int] /\ Total(target) \in Int
  BY <1>1, TotalType
     DEF RebalanceInvariant, BooksInvariant, LedgerInvariant, LedgerTypes, Investable
<1>6. Gap(s) = target[s] * value - Unit * MarketValue(s)
  <2>1. MarketValue(s) = positions[s].quantity * prices[s] /\ positions[s].quantity \in Int
        /\ prices[s] \in Nat
    BY GapType DEF Investable, MarketValue
  <2>2. u * positions[s].quantity * prices[s] = u * (positions[s].quantity * prices[s])
    BY <2>1
  <2> QED BY <1>1, <2>1, <2>2 DEF Gap
<1> DEFINE bound == u * (lost + C)
<1>7. bound \in Int /\ u * unitCosts[s] <= bound
  <2> HIDE DEF C, unitCosts
  <2>1. unitCosts[s] <= lost + C
    BY <1>3, <1>5
  <2> QED BY <1>3, <1>5, <2>1, ProductOrder
<1>8. u * prices[s] <= bound /\ u * prices[s] \in Nat
  <2>1. u * prices[s] <= u * unitCosts[s] /\ u * prices[s] \in Nat /\ u * unitCosts[s] \in Nat
    BY <1>2, <1>3, <1>4, ProductOrder
  <2> HIDE DEF bound, unitCosts
  <2> QED BY <1>7, <2>1
<1>9. 0 - bound <= Gap(s)
  <2> HIDE DEF bound
  <2> QED BY <1>4, <1>7, <1>8
<1>10. Gap(s) <= bound
  <2>1. CASE Gap(s) <= u * prices[s]
    <3> HIDE DEF bound
    <3> QED BY <1>4, <1>7, <1>8, <2>1
  <2>2. CASE cash <= unitCosts[s]
    <3> DEFINE floor == [o \in Symbols |-> IF o = s THEN Gap(s) ELSE 0 - u * unitCosts[o]]
               below == [o \in Symbols |-> 0 - u * unitCosts[o]]
               tv == [o \in Symbols |-> target[o] * value]
               av == [o \in Symbols |-> (0 - u) * mv[o]]
    <3>1. /\ gaps \in [Symbols -> Int] /\ floor \in [Symbols -> Int] /\ below \in [Symbols -> Int]
          /\ \A o \in Symbols : floor[o] <= gaps[o]
      <4>1. \A o \in Symbols : u * unitCosts[o] \in Nat /\ u * prices[o] <= u * unitCosts[o]
                               /\ u * prices[o] \in Nat
        BY <1>2, <1>4, ProductOrder
      <4> HIDE DEF unitCosts
      <4> QED BY <4>1, <1>4
    <3>2. Total(floor) <= Total(gaps) /\ Total(floor) \in Int /\ Total(gaps) \in Int
          /\ Total(below) \in Int
      <4> HIDE DEF floor, gaps, below
      <4> QED BY <3>1, TotalOrder, TotalType
    <3>3. Total(floor) = Total(below) + (floor[s] - below[s])
      <4>1. \A o \in Symbols \ {s} : floor[o] = below[o]
        OBVIOUS
      <4> HIDE DEF floor, below
      <4> QED BY <3>1, <4>1, TotalChange
    <3>4. floor[s] = Gap(s) /\ below[s] = 0 - u * unitCosts[s]
      OBVIOUS
    <3>5. Total(below) = (0 - u) * C
      <4>1. \A o \in Symbols : below[o] = (0 - u) * unitCosts[o]
        BY <1>2
      <4>2. unitCosts \in [Symbols -> Int] /\ 0 - u \in Int
        BY <1>2
      <4> HIDE DEF below, unitCosts
      <4> QED BY <3>1, <4>1, <4>2, TotalTimes
    <3>6. Total(gaps) = Total(tv) + Total(av)
      <4>1. /\ tv \in [Symbols -> Int] /\ av \in [Symbols -> Int]
            /\ \A o \in Symbols : gaps[o] = tv[o] + av[o]
        <5> SUFFICES ASSUME NEW o \in Symbols
                     PROVE  tv[o] \in Int /\ av[o] \in Int /\ gaps[o] = tv[o] + av[o]
          OBVIOUS
        <5>1. target[o] \in Int /\ positions[o].quantity \in Int /\ prices[o] \in Nat
              /\ marks[o] = prices[o]
          BY GapType DEF Investable
        <5>2. gaps[o] = target[o] * value - u * positions[o].quantity * prices[o]
          BY <1>1 DEF Gap
        <5>3. av[o] = (0 - u) * (positions[o].quantity * prices[o])
          BY <5>1
        <5>4. u * positions[o].quantity * prices[o] \in Int /\ target[o] * value \in Int
              /\ (0 - u) * (positions[o].quantity * prices[o])
                     = 0 - u * positions[o].quantity * prices[o]
          BY <1>5, <5>1
        <5>5. tv[o] = target[o] * value
          OBVIOUS
        <5> HIDE DEF tv, av, gaps
        <5> QED BY <5>2, <5>3, <5>4, <5>5
      <4>2. gaps \in [Symbols -> Int]
        BY <3>1
      <4> HIDE DEF gaps, tv, av, floor, below, mv, unitCosts
      <4> QED BY <4>1, <4>2, TotalPlus
    <3>7. Total(tv) = value * Total(target)
      <4>1. tv \in [Symbols -> Int] /\ \A o \in Symbols : tv[o] = value * target[o]
        BY <1>5
      <4>2. target \in [Symbols -> Int] /\ value \in Int
        BY <1>5
      <4> HIDE DEF tv, mv
      <4> QED BY <4>1, <4>2, TotalTimes
    <3>8. Total(av) = (0 - u) * Total(mv) /\ Total(mv) \in Int
      <4>1. mv \in [Symbols -> Int]
        <5>1. \A o \in Symbols : positions[o].quantity \in Int /\ marks[o] \in Nat
          BY GapType DEF Investable
        <5> QED BY <5>1
      <4>2. av \in [Symbols -> Int] /\ \A o \in Symbols : av[o] = (0 - u) * mv[o]
        <5> HIDE DEF mv
        <5> QED BY <4>1
      <4> HIDE DEF mv, av
      <4> QED BY <4>1, <4>2, TotalTimes, TotalType
    <3> HIDE DEF mv, av, tv, floor, below, gaps
    <3>9. value * Total(target) <= u * value
      <4>1. value * Total(target) <= value * u
        <5>1. value * (u - Total(target)) >= 0
          BY <1>5
        <5> QED BY <5>1, <1>5
      <4> QED BY <4>1, <1>5
    <3>10. u * value = u * cash + u * Total(mv) + u * lost
      BY <1>5, <3>8
    <3>11. u * cash <= u * unitCosts[s]
      BY <1>3, <1>5, <2>2, ProductOrder
    <3>12. u * (lost + C) = u * lost + u * C /\ (0 - u) * C = 0 - u * C
           /\ (0 - u) * Total(mv) = 0 - u * Total(mv)
      <4> HIDE DEF C
      <4> QED BY <1>3, <1>5, <3>8
    <3>13. /\ u * cash \in Int /\ u * Total(mv) \in Int /\ u * lost \in Int /\ u * C \in Int
           /\ u * unitCosts[s] \in Int /\ u * value \in Int /\ value * Total(target) \in Int
      <4> HIDE DEF C, unitCosts
      <4> QED BY <1>3, <1>5, <3>8
    <3>14. Gap(s) \in Int
      BY <1>4
    <3> HIDE DEF C, unitCosts
    <3>15. Gap(s) <= u * lost + u * C
      BY <3>2, <3>3, <3>4, <3>5, <3>6, <3>7, <3>8, <3>9, <3>10, <3>11, <3>12, <3>13, <3>14
    <3> QED BY <3>12, <3>15
  <2> QED BY <1>4, <2>1, <2>2
<1>11. Size(Gap(s)) <= bound
  <2> HIDE DEF bound
  <2> QED BY <1>4, <1>7, <1>9, <1>10 DEF Size
<1> QED BY <1>1, <1>6, <1>11

\* The sales of a rotation pay for its purchases (_rebalance), for every number of symbols,
\* prices and rates: a portfolio without shorts or leverage ends a row at its targets, up to
\* what the fills cost and the cost of one unit of each symbol.
THEOREM RebalancingReachesTargets == Spec => []RebalanceReachesTargets
<1>1. RebalanceInvariant => RebalanceReachesTargets
  BY SettledIsNear DEF RebalanceReachesTargets, Investable
<1> QED BY <1>1, RebalanceInvariance, PTL

-----------------------------------------------------------------------------
(* The backtest.  It is a walk forward and a ledger, so that what is proved  *)
(* of each holds of it; what joins them is which fold a row comes from.      *)

\* The backtest walks forward: its folds are clean and cover the data.
THEOREM BacktestWalksForward == BacktestSpec => WalkForwardSpec
<1>1. BacktestInit => WalkForwardInit
  BY DEF BacktestInit
<1>2. [BacktestNext]_<<vars, walk>> => [WalkForwardNext]_walk
  BY DEF BacktestNext
<1> QED BY <1>1, <1>2, PTL DEF BacktestSpec, WalkForwardSpec

\* The backtest keeps a ledger: it is called with rows, and the books balance, the
\* portfolio reaches its targets, and no order overdraws the cash.
THEOREM BacktestKeepsALedger == BacktestSpec => Spec
<1>1. BacktestInit => Init
  BY DEF BacktestInit
<1>2. WalkForwardInvariant /\ [BacktestNext]_<<vars, walk>> => [Next]_vars
  <2> SUFFICES ASSUME WalkForwardInvariant, BacktestNext
               PROVE  [Next]_vars
    BY DEF vars
  <2>1. CASE WalkForwardNext /\ UNCHANGED vars
    BY <2>1
  <2>2. CASE /\ outcome = "built" /\ Len(folds) * settings.test <= MaxRows
             /\ Receive(Len(folds) * settings.test)
    <3>1. Len(folds) \in Nat \ {0} /\ settings.test \in Nat \ {0}
      <4>1. folds # <<>> /\ folds \in Seq(Boundaries) /\ Usable /\ settings \in Settings
        BY <2>2 DEF WalkForwardInvariant, WalkForwardTypeOK, FoldsAreEvenlySpaced
      <4>2. settings.test \in Nat /\ settings.test > 0
        BY <4>1, SettingsType DEF Usable
      <4> QED BY <4>1, <4>2
    <3>2. Len(folds) * settings.test \in Nat \ {0}
      BY <3>1
    <3>3. Len(folds) * settings.test \in 1 .. MaxRows
      BY <2>2, <3>2, NumbersAssumption
    <3> QED BY <2>2, <3>3 DEF Next
  <2>3. CASE Run
    BY <2>3 DEF Next
  <2> QED BY <2>1, <2>2, <2>3 DEF BacktestNext
<1> QED BY <1>1, <1>2, BacktestWalksForward, WalkForwardInvariance, PTL DEF BacktestSpec, Spec

\* A test is as long as the configuration says, the ledger's rows are those of all tests,
\* and a row in progress is one of them.
DecisionInvariant ==
    /\ WalkForwardInvariant
    /\ LedgerInvariant
    /\ \A i \in 1 .. Len(folds) : folds[i].testEnd = folds[i].testStart + settings.test
    /\ rows # 0 => outcome = "built" /\ rows = Len(folds) * settings.test
    /\ stage = "orders" => row < rows /\ source = Source

\* The rows of a test.
LEMMA RowsOfTests ==
    ASSUME NEW T \in Nat, T > 0, NEW a \in Nat
    PROVE  /\ a \div T \in Nat /\ a % T \in Nat /\ a % T < T
           /\ a = T * (a \div T) + (a % T)
           /\ \A n \in Nat : a < n * T => (a \div T) + 1 \in 1 .. n
<1>1. T \in Int /\ a \in Int
  OBVIOUS
<1> DEFINE d == a \div T
           m == a % T
<1>2. d \in Int /\ m \in 0 .. T - 1 /\ a = T * d + m
  BY <1>1
<1>3. d \in Nat
  BY <1>1
<1> HIDE DEF d, m
<1>4. ASSUME NEW n \in Nat, a < n * T PROVE d + 1 \in 1 .. n
  <2> SUFFICES ASSUME n <= d PROVE FALSE
    BY <1>3
  <2>1. T * n <= T * d
    BY <1>3, ProductOrder
  <2>2. T * d \in Nat /\ T * n = n * T
    BY <1>3
  <2> QED BY <1>2, <1>4, <2>1, <2>2
<1>5. \A n \in Nat : a < n * T => d + 1 \in 1 .. n
  BY <1>4
<1>6. d \in Nat /\ m \in Nat /\ m < T /\ a = T * d + m
  BY <1>1, <1>2, <1>3
<1> QED BY <1>5, <1>6 DEF d, m

LEMMA NextRowOfTests ==
    ASSUME NEW T \in Nat, T > 0, NEW a \in Nat, NEW b \in Nat, b = a + 1
    PROVE  \/ b \div T = a \div T /\ b % T = (a % T) + 1
           \/ b \div T = (a \div T) + 1
<1> DEFINE d == a \div T
           m == a % T
           e == b \div T
           r == b % T
<1>1. /\ d \in Nat /\ m \in Nat /\ m < T /\ a = T * d + m
      /\ e \in Nat /\ r \in Nat /\ r < T /\ b = T * e + r
  BY RowsOfTests
<1> HIDE DEF d, m, e, r
<1>2. T * d + m + 1 = T * e + r
  BY <1>1
<1>3. ~(e + 1 <= d)
  <2> SUFFICES ASSUME e + 1 <= d PROVE FALSE
    OBVIOUS
  <2>1. T * (e + 1) <= T * d /\ T * (e + 1) = T * e + T
    BY <1>1, ProductOrder
  <2> QED BY <1>1, <1>2, <2>1
<1>4. ~(d + 2 <= e)
  <2> SUFFICES ASSUME d + 2 <= e PROVE FALSE
    OBVIOUS
  <2>1. T * (d + 2) <= T * e /\ T * (d + 2) = T * d + T + T
    BY <1>1, ProductOrder
  <2> QED BY <1>1, <1>2, <2>1
<1>5. e = d \/ e = d + 1
  BY <1>1, <1>3, <1>4
<1>6. CASE e = d
  <2>1. T * e \in Int /\ T * e = T * d
    BY <1>1, <1>6
  <2> QED BY <1>1, <1>2, <1>6, <2>1 DEF d, m, e, r
<1> QED BY <1>5, <1>6 DEF d, e

LEMMA DecisionsFollow == ASSUME DecisionInvariant PROVE DecisionsUseThePast
<1> SUFFICES ASSUME stage = "orders", source >= 0
             PROVE  /\ FoldOf(source).trainEnd + settings.purge <= BarOf(source)
                    /\ BarOf(source) <= BarOf(row)
                    /\ "next_bar" \in config => BarOf(source) < BarOf(row)
  BY DEF DecisionsUseThePast
<1> DEFINE T == settings.test
           L == Len(folds)
           i == (source \div T) + 1
           k == (row \div T) + 1
<1>1. row < rows /\ row \in Nat /\ source = Source
  BY DEF DecisionInvariant, LedgerInvariant, LedgerTypes
<1>2. rows # 0 /\ outcome = "built" /\ rows = L * T
  <2>1. rows # 0
    BY <1>1
  <2> QED BY <2>1 DEF DecisionInvariant
<1>3. /\ folds \in Seq(Boundaries) /\ L \in Nat /\ settings \in Settings /\ Usable
      /\ FoldsPrecede /\ FoldsAreOrdered
  BY <1>2 DEF DecisionInvariant, WalkForwardInvariant, WalkForwardTypeOK, FoldsAreEvenlySpaced
<1>4. T \in Nat /\ T > 0 /\ settings.purge \in Nat
  BY <1>3, SettingsType DEF Usable
<1>5. /\ source \in Nat /\ source <= row
      /\ source = row \/ (row = source + 1)
      /\ "next_bar" \in config => row = source + 1
  BY <1>1 DEF Source
<1> HIDE DEF T, L
<1>6. /\ source % T \in Nat /\ source % T < T /\ row % T \in Nat /\ i \in 1 .. L /\ k \in 1 .. L
      /\ i \in Nat /\ k \in Nat
  <2>1. source < L * T /\ row < L * T
    <3>1. L * T \in Nat
      BY <1>3, <1>4
    <3> QED BY <1>1, <1>2, <1>5, <3>1
  <2> QED BY <1>1, <1>3, <1>4, <1>5, <2>1, RowsOfTests
<1>7. /\ FoldOf(source) = folds[i] /\ BarOf(source) = folds[i].testStart + (source % T)
      /\ BarOf(row) = folds[k].testStart + (row % T)
  BY DEF FoldOf, BarOf, T
<1>8. \A j \in 1 .. L : /\ folds[j].trainEnd \in Int /\ folds[j].testStart \in Int
                        /\ folds[j].testEnd \in Int
                        /\ folds[j].testEnd = folds[j].testStart + T
                        /\ folds[j].trainEnd + settings.purge <= folds[j].testStart
  <2> SUFFICES ASSUME NEW j \in 1 .. L
               PROVE  /\ folds[j].trainEnd \in Int /\ folds[j].testStart \in Int
                      /\ folds[j].testEnd \in Int
                      /\ folds[j].testEnd = folds[j].testStart + T
                      /\ folds[j].trainEnd + settings.purge <= folds[j].testStart
    OBVIOUS
  <2>1. folds[j] \in Boundaries
    BY <1>3 DEF L
  <2> QED BY <1>3, <2>1 DEF Boundaries, L, T, FoldsPrecede, DecisionInvariant
<1>9. row = source + 1 => (k = i /\ row % T = (source % T) + 1) \/ k = i + 1
  BY <1>1, <1>4, <1>5, NextRowOfTests
<1> HIDE DEF i, k
<1>10. FoldOf(source).trainEnd + settings.purge <= BarOf(source)
  BY <1>4, <1>6, <1>7, <1>8
<1>11. CASE row = source + 1
  <2>1. CASE k = i /\ row % T = (source % T) + 1
    BY <1>6, <1>7, <1>8, <1>10, <2>1
  <2>2. CASE k = i + 1
    <3>1. folds[i].testEnd <= folds[k].testStart
      BY <1>3, <1>6, <2>2 DEF FoldsAreOrdered, L
    <3> QED BY <1>4, <1>6, <1>7, <1>8, <1>10, <3>1
  <2> QED BY <1>9, <1>11, <2>1, <2>2
<1>12. CASE source = row
  <2>1. BarOf(source) \in Int /\ BarOf(source) = BarOf(row)
    BY <1>6, <1>7, <1>8, <1>12
  <2> QED BY <1>5, <1>10, <1>12, <2>1
<1> QED BY <1>5, <1>11, <1>12

\* Folds and ledger stay in step.
THEOREM DecisionInvariance == BacktestSpec => []DecisionInvariant
<1>1. BacktestInit /\ WalkForwardInvariant /\ LedgerInvariant => DecisionInvariant
  BY DEF BacktestInit, Init, WalkForwardInit, DecisionInvariant
<1>2. /\ DecisionInvariant /\ WalkForwardInvariant' /\ LedgerInvariant'
      /\ [BacktestNext]_<<vars, walk>>
      => DecisionInvariant'
  <2> SUFFICES ASSUME DecisionInvariant, WalkForwardInvariant', LedgerInvariant',
                      [BacktestNext]_<<vars, walk>>
               PROVE  DecisionInvariant'
    OBVIOUS
  <2>1. CASE AddFold /\ UNCHANGED vars
    <3>1. /\ folds' = Append(folds, Boundary) /\ settings' = settings /\ outcome = "building"
          /\ folds \in Seq(Boundaries)
      BY <2>1, AddFoldAppends DEF DecisionInvariant, WalkForwardInvariant, WalkForwardTypeOK
    <3>2. rows = 0 /\ rows' = 0 /\ stage' # "orders"
      <4>1. rows = 0
        BY <3>1 DEF DecisionInvariant
      <4>2. UNCHANGED <<rows, row, stage>> /\ row \in Nat
        BY <2>1 DEF vars, DecisionInvariant, LedgerInvariant, LedgerTypes
      <4> QED BY <4>1, <4>2 DEF DecisionInvariant
    <3>3. Boundary.testEnd = Boundary.testStart + settings.test
      BY DEF Boundary
    <3>4. ASSUME NEW i \in 1 .. Len(folds')
          PROVE  folds'[i].testEnd = folds'[i].testStart + settings.test
      <4> DEFINE b == Boundary
      <4>1. folds' = Append(folds, b) /\ b.testEnd = b.testStart + settings.test
        BY <3>1, <3>3
      <4> HIDE DEF b
      <4>2. CASE i = Len(folds) + 1
        <5>1. folds'[i] = b
          BY <3>1, <4>1, <4>2
        <5> QED BY <4>1, <5>1
      <4>3. CASE i \in 1 .. Len(folds)
        BY <3>1, <4>1, <4>3 DEF DecisionInvariant
      <4>4. i = Len(folds) + 1 \/ i \in 1 .. Len(folds)
        BY <3>1, <4>1
      <4> QED BY <4>2, <4>3, <4>4
    <3> QED BY <3>1, <3>2, <3>4 DEF DecisionInvariant
  <2>2. CASE EndFolds /\ UNCHANGED vars
    <3>1. rows = 0 /\ UNCHANGED <<rows, row, stage, folds, settings, source, config>>
      BY <2>2 DEF EndFolds, DecisionInvariant, vars, plan
    <3> QED BY <3>1 DEF DecisionInvariant, Source
  <2>3. CASE /\ outcome = "built"
             /\ Receive(Len(folds) * settings.test) /\ UNCHANGED walk
    <3>1. /\ rows' = Len(folds) * settings.test /\ rows = 0 /\ row \in Nat
          /\ UNCHANGED <<row, stage, folds, settings, outcome, source, config>>
      BY <2>3 DEF Receive, walk, plan, DecisionInvariant, LedgerInvariant, LedgerTypes
    <3>2. stage # "orders"
      BY <3>1 DEF DecisionInvariant
    <3> QED BY <2>3, <3>1, <3>2 DEF DecisionInvariant
  <2>4. CASE Run /\ UNCHANGED walk
    <3>1. UNCHANGED <<rows, config, folds, settings, outcome>>
      BY <2>4 DEF Run, StartRow, Order, EndRow, walk
    <3>2. (stage = "orders" => row < rows /\ source = Source)'
      <4>1. ASSUME NEW weights \in Targets, NEW at \in PriceRows, StartRow(weights, at)
            PROVE  (stage = "orders" => row < rows /\ source = Source)'
        BY <4>1 DEF StartRow, Source
      <4>2. CASE Order
        BY <4>2 DEF Order, plan, Source, DecisionInvariant
      <4>3. ASSUME NEW cost \in PeriodCosts, EndRow(cost)
            PROVE  (stage = "orders" => row < rows /\ source = Source)'
        BY <4>3 DEF EndRow
      <4> QED BY <2>4, <4>1, <4>2, <4>3 DEF Run
    <3> QED BY <3>1, <3>2 DEF DecisionInvariant
  <2>5. CASE UNCHANGED <<vars, walk>>
    BY <2>5 DEF vars, walk, plan, DecisionInvariant, Source
  <2> QED BY <2>1, <2>2, <2>3, <2>4, <2>5 DEF BacktestNext, WalkForwardNext
<1> QED BY <1>1, <1>2, BacktestWalksForward, BacktestKeepsALedger, WalkForwardInvariance,
           LedgerInvariance, PTL DEF BacktestSpec

\* What is traded at a bar was decided from the past, whatever the folds are.
THEOREM DecisionsAreFromThePast == BacktestSpec => []DecisionsUseThePast
BY DecisionInvariance, DecisionsFollow, PTL
=============================================================================
