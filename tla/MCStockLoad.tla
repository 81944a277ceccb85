------------------------------ MODULE MCStockLoad ------------------------------
(***************************************************************************)
(* StockLoad on small instances.  Workers are interchangeable; so are      *)
(* tickers that trade on the same days when the market list names none.    *)
(***************************************************************************)
EXTENDS StockLoad, TLC

CONSTANTS t1, t2, t3

NoMarket    == << >>
BothListed  == <<t1, t2>>
EveryDay    == [t \in Tickers |-> Days]
OneHoliday  == [t \in Tickers |-> IF t = t2 THEN Days ELSE Days \ {2}]
OneWorker   == {1}
FewWorkers  == {-1, 0, 1, 2, 3}
OneOrTwo    == {1, 2}

Symmetry == Permutations(Workers) \union Permutations(Loads)
TickerSymmetry == Symmetry \union Permutations(Tickers)

===============================================================================
