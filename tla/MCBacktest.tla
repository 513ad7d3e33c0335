----------------------------- MODULE MCBacktest -----------------------------
(***************************************************************************)
(* An instance of Backtest for TLC.                                        *)
(***************************************************************************)
EXTENDS Backtest

SomeTargets == {<<0, 0>>, <<2, 0>>, <<0, 2>>, <<-1, 2>>, <<1, 1>>, <<3, 0>>}
SomePrices == {<<100, 100>>, <<120, 90>>, <<0, 110>>}
Modes == {{"next_bar", "short"}, {"short"}, {"next_bar"}}

Setting(total, train, test, step, purge, embargo) ==
    [total |-> total, train |-> train, test |-> test, step |-> step, purge |-> purge,
     embargo |-> embargo]

\* Three tests of one bar; two of one bar with an embargo between them; one of two bars;
\* long ones without a ledger; overlapping ones, and none.
SomeSettings == {Setting(6, 2, 1, 0, 1, 0), Setting(5, 1, 1, 1, 0, 1), Setting(6, 2, 2, 3, 1, 1),
                 Setting(12, 3, 2, 3, 2, 1), Setting(6, 1, 2, 1, 0, 0), Setting(3, 2, 1, 0, 1, 0)}
=============================================================================
