----------------------------- MODULE MCClientReads -----------------------------
(*****************************************************************************)
(* ClientReads on a small instance.                                          *)
(*****************************************************************************)
EXTENDS ClientReads
===============================================================================
