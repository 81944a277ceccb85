----------------------------- MODULE MCServerWrites -----------------------------
(*****************************************************************************)
(* ServerWrites on a small instance: an administrator who is signed in, a    *)
(* member who is not, an address that is free, and every pair of requests.   *)
(*****************************************************************************)
EXTENDS ServerWrites, TLC

CONSTANTS ann, bob, cat, g1, g2

AtFirst  == [e \in Emails |-> CASE e = ann -> "Admin"
                                 [] e = bob -> "Normal"
                                 [] e = cat -> None]
SomeLists == {<<g2>>, <<g2, g2>>, <<g1, g2>>}

Symmetry == Permutations(Requests)
===============================================================================
