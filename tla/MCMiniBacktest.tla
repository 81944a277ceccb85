---------------------------- MODULE MCMiniBacktest ----------------------------
(***************************************************************************)
(* MiniBacktest on small instances.  The trading strategies keep their     *)
(* order; tickers and requests are interchangeable where none is singled   *)
(* out.                                                                    *)
(***************************************************************************)
EXTENDS MiniBacktest, TLC

FourStrategies == <<"GoldenCross", "RSI", "BollingerBand", "MACD">>
OneStrategy    == <<"GoldenCross">>
TwoStrategies  == <<"GoldenCross", "MACD">>

Symmetry == Permutations(Requests) \union Permutations(Tickers)

===============================================================================
