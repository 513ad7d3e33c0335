--------------------------- MODULE BacktestLedger ---------------------------
(***************************************************************************)
(* The ledger of a backtest (pairs_trading/engines/ledger.py): for each    *)
(* row of the strategy's frame the portfolio is rebalanced to the target   *)
(* weights in force, orders are filled, clipped or rejected, positions are *)
(* kept at average cost, and the costs of the period are paid.             *)
(*                                                                         *)
(* Prices, quantities and money, floats in the code, are integers: an      *)
(* order's quantity is rounded towards zero, so that what is below one     *)
(* unit is below min_order_notional, and fees and shares are rounded down. *)
(* A position has its cost basis, average_cost * abs(quantity).  The       *)
(* costs of a period (borrow, funding, latency, the strategy's estimate)   *)
(* are any amount of a set.                                                *)
(***************************************************************************)
EXTENDS Integers, FiniteSetsExt

CONSTANTS
    NumSymbols,
    InitialCash,
    Unit,            \* a weight of 100%
    Targets,         \* the rows of target weights: a set of [Symbols -> Int]
    PriceRows,       \* the rows of prices: a set of [Symbols -> Nat], 0 if missing
    AdjustmentBps,   \* spread, slippage and market impact
    CommissionBps,
    PeriodCosts,
    Configs,         \* the configurations: sets of the options "next_bar", "short"
    MaxRows          \* bound: the rows of the frame

Symbols == 1 .. NumSymbols
Whole == 10000     \* the basis points of an amount

ASSUME NumbersAssumption == NumSymbols \in Nat /\ InitialCash \in Nat /\ MaxRows \in Nat
ASSUME WeightsAssumption == Unit \in Nat \ {0} /\ Targets \subseteq [Symbols -> Int]
ASSUME PricesAssumption == PriceRows \subseteq [Symbols -> Nat]
ASSUME RatesAssumption == /\ AdjustmentBps \in Nat /\ AdjustmentBps < Whole
                          /\ CommissionBps \in Nat /\ CommissionBps < Whole
                          /\ PeriodCosts \subseteq Nat
ASSUME ConfigsAssumption == Configs \subseteq SUBSET {"next_bar", "short"}

VARIABLES
    config,
    rows,        \* the number of rows of the frame, 0 before the ledger is run
    row,         \* the number of rows that have been done: the row that is being done
    signal,      \* the target weights of the last row that was read
    source,      \* the row whose targets are in force, or -1
    target,      \* the targets in force
    prices,      \* the prices at which orders can be filled, 0 if missing
    marks,       \* the last known prices, 0 if there is none
    planned,     \* the quantities still to be ordered, 0 for none
    stage,
    cash,
    positions,
    costs,       \* history: what the costs of the periods have taken
    rejected,    \* the reasons why orders of this row were rejected
    trade,       \* the trade that the last fill has closed
    value,       \* history: the value of the portfolio that the row's plan goes by
    lost         \* history: what the fills of this row have cost

books == <<cash, positions, costs>>
plan == <<signal, source, target, prices, marks>>
history == <<value, lost>>
vars == <<config, rows, row, plan, planned, stage, books, rejected, trade, history>>

Flat == [quantity |-> 0, basis |-> 0, commission |-> 0, realized |-> 0, opened |-> -1]
Positions == [quantity : Int, basis : Nat, commission : Nat, realized : Int, opened : Int]
NoTrade == [quantity |-> 0, opened |-> 0, closed |-> 0, held |-> 0]
Trades == [quantity : Nat, opened : Int, closed : Nat, held : Nat]
Reasons == {"missing_or_invalid_fill_price", "short_sales_disabled", "insufficient_cash"}

TypeOK ==
    /\ config \in Configs
    /\ rows \in Nat /\ row \in Nat
    /\ signal \in [Symbols -> Int] /\ target \in [Symbols -> Int]
    /\ source \in Int
    /\ prices \in [Symbols -> Nat] /\ marks \in [Symbols -> Nat]
    /\ planned \in [Symbols -> Int]
    /\ stage \in {"idle", "orders"}
    /\ cash \in Int
    /\ positions \in [Symbols -> Positions]
    /\ costs \in Nat
    /\ rejected \subseteq Reasons
    /\ trade \in Trades
    /\ value \in Int /\ lost \in Int

Nothing == [s \in Symbols |-> 0]

Init ==
    /\ config \in Configs
    /\ rows = 0 /\ row = 0
    /\ signal = Nothing /\ source = -1 /\ target = Nothing
    /\ prices = Nothing /\ marks = Nothing
    /\ planned = Nothing
    /\ stage = "idle"
    /\ cash = InitialCash
    /\ positions = [s \in Symbols |-> Flat]
    /\ costs = 0
    /\ rejected = {}
    /\ trade = NoTrade
    /\ value = InitialCash /\ lost = 0

-----------------------------------------------------------------------------
(* Numbers.                                                                  *)

Size(n) == IF n < 0 THEN -n ELSE n
Smaller(m, n) == IF m < n THEN m ELSE n
TowardsZero(m, n) == IF m < 0 THEN -((-m) \div n) ELSE m \div n
Bps(n, rate) == (n * rate) \div Whole

\* What falls to `part` of `whole` units that carry n.
ShareOf(n, part, whole) == IF part = whole THEN n ELSE (n * part) \div whole

Total(f) == MapThenSumSet(LAMBDA s : f[s], Symbols)

-----------------------------------------------------------------------------
(* Positions.                                                                *)

MarketValue(s) == positions[s].quantity * marks[s]

Unrealized(s) ==
    IF marks[s] = 0 \/ positions[s].quantity = 0 THEN 0
    ELSE IF positions[s].quantity > 0 THEN MarketValue(s) - positions[s].basis
    ELSE positions[s].basis + MarketValue(s)

PortfolioValue == cash + Total([s \in Symbols |-> MarketValue(s)])

SameDirection(p, quantity) == p.quantity = 0 \/ (p.quantity > 0) = (quantity > 0)

\* What a fill of the other direction closes, and what that part has cost and brings in.
Closing(p, quantity) == Smaller(Size(p.quantity), Size(quantity))
ClosedFee(p, quantity, fee) == ShareOf(fee, Closing(p, quantity), Size(quantity))
EntryFee(p, quantity) == ShareOf(p.commission, Closing(p, quantity), Size(p.quantity))
ClosedBasis(p, quantity) == ShareOf(p.basis, Closing(p, quantity), Size(p.quantity))
GrossPnl(p, quantity, price) ==
    IF p.quantity > 0
    THEN Closing(p, quantity) * price - ClosedBasis(p, quantity)
    ELSE ClosedBasis(p, quantity) - Closing(p, quantity) * price
Pnl(p, quantity, price, fee) ==
    GrossPnl(p, quantity, price) - EntryFee(p, quantity) - ClosedFee(p, quantity, fee)

\* Mutant: a fill that turns the position leaves its whole commission to the new one.
ApplyFillAllFees(p, quantity, price, fee, at) ==
    IF SameDirection(p, quantity)
    THEN [quantity |-> p.quantity + quantity, basis |-> p.basis + Size(quantity) * price,
          commission |-> p.commission + fee, realized |-> p.realized,
          opened |-> IF p.quantity = 0 THEN at ELSE p.opened]
    ELSE LET rest == p.quantity + quantity
             realized == p.realized + Pnl(p, quantity, price, fee)
         IN  IF rest = 0 THEN [Flat EXCEPT !.realized = realized]
             ELSE IF (rest > 0) = (p.quantity > 0)
             THEN [quantity |-> rest, basis |-> p.basis - ClosedBasis(p, quantity),
                   commission |-> p.commission - EntryFee(p, quantity), realized |-> realized,
                   opened |-> p.opened]
             ELSE [quantity |-> rest, basis |-> Size(rest) * price, commission |-> fee,
                   realized |-> realized, opened |-> at]

\* PositionState.apply_fill: the position is enlarged, closed, reduced or turned.
ApplyFill(p, quantity, price, fee, at) ==
    IF SameDirection(p, quantity)
    THEN [quantity |-> p.quantity + quantity, basis |-> p.basis + Size(quantity) * price,
          commission |-> p.commission + fee, realized |-> p.realized,
          opened |-> IF p.quantity = 0 THEN at ELSE p.opened]
    ELSE LET rest == p.quantity + quantity
             realized == p.realized + Pnl(p, quantity, price, fee)
         IN  IF rest = 0 THEN [Flat EXCEPT !.realized = realized]
             ELSE IF (rest > 0) = (p.quantity > 0)
             THEN [quantity |-> rest, basis |-> p.basis - ClosedBasis(p, quantity),
                   commission |-> p.commission - EntryFee(p, quantity), realized |-> realized,
                   opened |-> p.opened]
             ELSE [quantity |-> rest, basis |-> Size(rest) * price,
                   commission |-> fee - ClosedFee(p, quantity, fee),
                   realized |-> realized, opened |-> at]

\* The closed trade; the code takes an opened_bar of 0 for none.
ClosedTrade(p, quantity, at) ==
    IF SameDirection(p, quantity) THEN NoTrade
    ELSE [quantity |-> Closing(p, quantity), opened |-> p.opened, closed |-> at,
          held |-> IF p.opened = 0 THEN 0 ELSE at - p.opened]

-----------------------------------------------------------------------------
(* The rows.                                                                 *)

\* run is called with a frame of n rows.
Receive(n) ==
    /\ rows = 0
    /\ rows' = n
    /\ UNCHANGED <<config, row, plan, planned, stage, books, rejected, trade, history>>

\* The quantity that takes a symbol to its target weight.
Needed(s, weight, at, worth) ==
    TowardsZero(weight * worth - Unit * positions[s].quantity * at[s], Unit * at[s])

\* Orders of a finite quantity of at least min_order_notional are placed, for the symbols
\* that have a price.
Plan(weights, at, worth) ==
    [s \in Symbols |-> IF at[s] > 0 /\ Needed(s, weights[s], at, worth) \in Int
                       THEN Needed(s, weights[s], at, worth) ELSE 0]

\* Mutant: the orders are placed in the order of the symbols.
UpcomingUnsorted == {s \in Symbols : planned[s] # 0}

\* Sales come first.
Upcoming ==
    LET sales == {s \in Symbols : planned[s] < 0}
    IN  IF sales # {} THEN sales ELSE {s \in Symbols : planned[s] # 0}

\* Mutant: the targets of the row itself, whatever the mode.
SourceIsThisRow == row

\* The row whose targets are in force: none in the first row of next_bar_close.
Source == IF "next_bar" \in config THEN row - 1 ELSE row

\* A row is read, its targets come into force or wait for the next, and orders are planned.
StartRow(weights, at) ==
    LET inForce == IF Source = row THEN weights ELSE signal
        marked == [s \in Symbols |-> IF at[s] > 0 THEN at[s] ELSE marks[s]]
        worth == cash + Total([s \in Symbols |-> positions[s].quantity * marked[s]])
    IN  /\ stage = "idle" /\ row < rows
        /\ stage' = "orders"
        /\ signal' = weights /\ prices' = at /\ marks' = marked
        /\ source' = Source
        /\ value' = worth /\ lost' = 0
        /\ \/ /\ Source >= 0
              /\ target' = inForce
              /\ planned' = Plan(inForce, at, worth)
              /\ rejected' = IF \E s \in Symbols : at[s] = 0 /\ inForce[s] # 0
                             THEN {"missing_or_invalid_fill_price"} ELSE {}
           \/ /\ Source < 0
              /\ rejected' = {}
              /\ UNCHANGED <<target, planned>>
        /\ UNCHANGED <<config, rows, row, books, trade>>

\* Mutant: the commission is left out of what can be afforded.
AffordableFeeless(price) == cash \div price

\* What a purchase can afford.
Affordable(price) == (cash * Whole) \div (price * (Whole + CommissionBps))

ExecutionPrice(s, quantity) ==
    IF quantity > 0 THEN prices[s] + Bps(prices[s], AdjustmentBps)
    ELSE prices[s] - Bps(prices[s], AdjustmentBps)

Fee(quantity, price) == Bps(Size(quantity) * price, CommissionBps)

\* What a fill moves in cash.
CashDelta(quantity, price, fee) == 0 - quantity * price - fee

\* The order of a symbol is filled: cash and position move together.
Fill(s, quantity) ==
    LET price == ExecutionPrice(s, quantity)
        fee == Fee(quantity, price)
    IN  /\ cash' = cash + CashDelta(quantity, price, fee)
        /\ positions' = [positions EXCEPT ![s] = ApplyFill(@, quantity, price, fee, row)]
        /\ trade' = ClosedTrade(positions[s], quantity, row)
        /\ lost' = lost + Size(quantity) * Size(price - prices[s]) + fee
        /\ UNCHANGED <<costs, rejected, value>>

Reject(reason) ==
    /\ rejected' = rejected \cup {reason}
    /\ UNCHANGED <<books, trade, history>>

CashAfter(s, quantity) ==
    LET price == ExecutionPrice(s, quantity)
    IN  cash + CashDelta(quantity, price, Fee(quantity, price))

\* The next order: filled, filled as far as the cash goes, or rejected.
Order ==
    \E s \in Upcoming :
        LET quantity == planned[s]
            short == "short" \notin config /\ positions[s].quantity + quantity < 0
            overdraws == quantity > 0 /\ CashAfter(s, quantity) < 0
            clipped == Affordable(ExecutionPrice(s, quantity))
            clips == Size(target[s]) <= Unit /\ clipped > 0
        IN  /\ stage = "orders" /\ \A other \in Upcoming : s <= other
            /\ planned' = [planned EXCEPT ![s] = 0]
            /\ \/ short /\ Reject("short_sales_disabled")
               \/ ~short /\ ~overdraws /\ Fill(s, quantity)
               \/ ~short /\ overdraws /\ clips /\ Fill(s, clipped)
               \/ ~short /\ overdraws /\ ~clips /\ Reject("insufficient_cash")
            /\ UNCHANGED <<config, rows, row, plan, stage>>

\* _apply_period_costs and the snapshot.
EndRow(cost) ==
    /\ stage = "orders" /\ planned = Nothing
    /\ stage' = "idle"
    /\ row' = row + 1
    /\ cash' = cash - cost
    /\ costs' = costs + cost
    /\ UNCHANGED <<config, rows, plan, planned, positions, rejected, trade, history>>

Run ==
    \/ \E weights \in Targets, at \in PriceRows : StartRow(weights, at)
    \/ Order
    \/ \E cost \in PeriodCosts : EndRow(cost)

Next == (\E n \in 1 .. MaxRows : Receive(n)) \/ Run

Spec == Init /\ [][Next]_vars

-----------------------------------------------------------------------------
\* The accounting contract: at every point the portfolio is worth what it started with,
\* what closed trades have realized and open ones have not, less the commissions of open
\* positions and the costs of the periods, through every enlarging, reducing and turning
\* fill, long or short.
BooksBalance ==
    PortfolioValue =
        InitialCash
        + Total([s \in Symbols |-> positions[s].realized + Unrealized(s) - positions[s].commission])
        - costs

\* What the last unit of a purchase that is clipped to the cash would have cost.
UnitCost(s) == ExecutionPrice(s, 1) + Fee(1, ExecutionPrice(s, 1)) + 1

\* When the row's orders are done and each symbol had a price, a portfolio without shorts
\* or leverage is at its targets, up to what the fills have cost and the cost of a unit of
\* each symbol: the sales of a rotation have paid for its purchases.
RebalanceReachesTargets ==
    /\ stage = "orders" /\ planned = Nothing /\ source >= 0 /\ value > 0
    /\ \A s \in Symbols : prices[s] > 0 /\ target[s] >= 0
    /\ Total(target) <= Unit
    => \A s \in Symbols :
           Size(target[s] * value - Unit * MarketValue(s))
               <= Unit * (lost + Total([o \in Symbols |-> UnitCost(o)]))

\* No order leaves an overdraft: cash that a step of the row's orders takes was there.
FillsNeverOverdraw == [][stage = "orders" /\ stage' = "orders" /\ cash' < cash => cash' >= 0]_vars

=============================================================================
