------------------------------ MODULE Backtest ------------------------------
(***************************************************************************)
(* WalkForwardBacktester.run (pairs_trading/engines/backtesting.py): the   *)
(* strategy is trained and tested fold by fold, and the ledger is run on   *)
(* the targets of all tests.  What the strategy returns for a bar is any   *)
(* row of targets.  (The ledgers of the progress reports are this one on   *)
(* fewer folds.)                                                           *)
(***************************************************************************)
EXTENDS BacktestLedger, WalkForward

BacktestInit == Init /\ WalkForwardInit

\* The bar and the fold of a row of the concatenated tests.
FoldOf(r) == folds[(r \div settings.test) + 1]
BarOf(r) == FoldOf(r).testStart + (r % settings.test)

\* The folds, then the ledger over their tests.
BacktestNext ==
    \/ WalkForwardNext /\ UNCHANGED vars
    \/ outcome = "built" /\ Len(folds) * settings.test <= MaxRows
       /\ Receive(Len(folds) * settings.test) /\ UNCHANGED walk
    \/ Run /\ UNCHANGED walk

BacktestSpec == BacktestInit /\ [][BacktestNext]_<<vars, walk>>

-----------------------------------------------------------------------------
\* What is traded at a bar was decided from the past: the strategy was trained on bars that
\* end the purged bars before the bar of its signal, and with next_bar_close the signal is
\* of an earlier bar than the price that fills the order.
DecisionsUseThePast ==
    stage = "orders" /\ source >= 0 =>
        /\ FoldOf(source).trainEnd + settings.purge <= BarOf(source)
        /\ BarOf(source) <= BarOf(row)
        /\ "next_bar" \in config => BarOf(source) < BarOf(row)
=============================================================================
