---------------------------- MODULE WalkForward ----------------------------
(***************************************************************************)
(* The folds of a walk-forward backtest: _fold_boundaries                  *)
(* (pairs_trading/engines/backtesting.py) and the loop of                  *)
(* build_walk_forward_boundaries (engines/validation.py).  Bars are        *)
(* numbered from 0; a window contains its start and not its end.           *)
(***************************************************************************)
EXTENDS Integers, Sequences

CONSTANT Settings     \* the configurations that a backtest may be run with

ASSUME SettingsAssumption ==
    Settings \subseteq [total : Nat, train : Nat, test : Nat, step : Nat, purge : Nat, embargo : Nat]

VARIABLES
    settings,
    testStart,     \* raw_test_start
    folds,         \* the boundaries
    outcome        \* "building", "built", or "refused" by an error

walk == <<settings, testStart, folds, outcome>>

Boundaries == [trainStart : Int, trainEnd : Int, testStart : Int, testEnd : Int]

WalkForwardTypeOK ==
    /\ settings \in Settings
    /\ testStart \in Nat
    /\ folds \in Seq(Boundaries)
    /\ outcome \in {"building", "built", "refused"}

WalkForwardInit ==
    /\ settings \in Settings
    /\ testStart = settings.train + settings.purge
    /\ folds = <<>>
    /\ outcome = "building"

\* step_bars, or test_bars when it is 0 or None.
Step == IF settings.step = 0 THEN settings.test ELSE settings.step

\* Overlapping test windows are refused, and so is a backtest without folds.
Refused == Step < settings.test

Usable == settings.total > 0 /\ settings.train > 0 /\ settings.test > 0

\* Mutant: the last window that fits is not used.
FitsNotQuite == testStart + settings.test < settings.total

Fits == testStart + settings.test <= settings.total

\* Mutant: the bars to be purged stay in the training window.
TrainEndUnpurged == testStart

TrainEnd == testStart - settings.purge

Boundary ==
    [trainStart |-> IF TrainEnd < settings.train THEN 0 ELSE TrainEnd - settings.train,
     trainEnd |-> TrainEnd, testStart |-> testStart, testEnd |-> testStart + settings.test]

\* One turn of the loop.
AddFold ==
    /\ outcome = "building" /\ ~Refused /\ Usable /\ Fits
    /\ folds' = IF Boundary.trainEnd > Boundary.trainStart THEN Append(folds, Boundary) ELSE folds
    /\ testStart' = testStart + Step + settings.embargo
    /\ UNCHANGED <<settings, outcome>>

EndFolds ==
    /\ outcome = "building"
    /\ Refused \/ ~Usable \/ ~Fits
    /\ outcome' = IF Refused \/ folds = <<>> THEN "refused" ELSE "built"
    /\ UNCHANGED <<settings, testStart, folds>>

WalkForwardNext == AddFold \/ EndFolds

WalkForwardSpec == WalkForwardInit /\ [][WalkForwardNext]_walk

-----------------------------------------------------------------------------
\* No fold has seen what it is tested on: its training ends at least the purged bars before
\* its test, and the tests of the folds follow each other without an overlap, so that the
\* ledger gets every bar at most once.
FoldsDoNotLeak ==
    \A i \in 1 .. Len(folds) :
        /\ 0 <= folds[i].trainStart /\ folds[i].trainStart < folds[i].trainEnd
        /\ folds[i].trainEnd + settings.purge <= folds[i].testStart
        /\ folds[i].testStart < folds[i].testEnd /\ folds[i].testEnd <= settings.total
        /\ \A k \in 1 .. Len(folds) : i < k => folds[i].testEnd <= folds[k].testStart

\* A window is left out only if it does not fit: from the first bar after a whole training
\* window to the end of the data, the tests are no further apart than the step and the
\* embargo, and what is left at the end is too short for another.
TestsCoverTheData ==
    outcome = "built" =>
        /\ folds[1].testStart = settings.train + settings.purge
        /\ \A i \in 1 .. Len(folds) - 1 :
               folds[i + 1].testStart = folds[i].testStart + Step + settings.embargo
        /\ settings.total < folds[Len(folds)].testStart + Step + settings.embargo + settings.test
=============================================================================
