------------------------------ MODULE MCDashboard ------------------------------
(*****************************************************************************)
(* Dashboard on a small instance: two tickers are on the page to begin with, *)
(* one of them with settings of its own, and the search finds both.          *)
(*****************************************************************************)
EXTENDS Dashboard

CONSTANTS t1, t2

Start ==
  <<[Bare(t1) EXCEPT !.tech = "GoldenCross"],
    [Bare(t2) EXCEPT !.tech = "GoldenCross", !.val = "own", !.ref = 1]>>

SearchFinds == [t \in Terms |-> CASE t = ""  -> <<>>
                                  [] t = "a" -> <<t1>>
                                  [] t = "b" -> <<t2, t1>>]

SomeFindings == {<<t1>>, <<t2>>}
===============================================================================
