------------------------------ MODULE TaskLedger ------------------------------
(***************************************************************************)
(* What the queue between the business server and the data-analysis server *)
(* promises about a backtest request it has accepted: the request keeps    *)
(* its identity and its strategy, is handed to at most one worker, never   *)
(* goes back to the queue, and ends; at most Capacity requests are being   *)
(* worked on at a time.  A request whose worker process dies ends too: the *)
(* promise is at-most-once, nothing is delivered twice.                    *)
(*                                                                         *)
(* BacktestPipeline implements this specification.                         *)
(***************************************************************************)
EXTENDS Naturals, FiniteSets

CONSTANTS
  Strategies,   (* strategy codes                                        *)
  Tasks,        (* task ids; each is used once                           *)
  Capacity      (* number of worker processes                            *)

VARIABLES
  phase,        (* phase[t]: where the request is in its life            *)
  about         (* about[t]: the strategies it concerns: none or one     *)

vars == <<phase, about>>

Phases == {"unused", "queued", "running", "ended"}

Running == {t \in Tasks : phase[t] = "running"}

Init ==
  /\ phase = [t \in Tasks |-> "unused"]
  /\ about = [t \in Tasks |-> {}]

Accept(t, s) ==
  /\ phase[t] = "unused"
  /\ phase' = [phase EXCEPT ![t] = "queued"]
  /\ about' = [about EXCEPT ![t] = {s}]

Begin(t) ==
  /\ phase[t] = "queued"
  /\ Cardinality(Running) < Capacity
  /\ phase' = [phase EXCEPT ![t] = "running"]
  /\ UNCHANGED about

End(t) ==
  /\ phase[t] = "running"
  /\ phase' = [phase EXCEPT ![t] = "ended"]
  /\ UNCHANGED about

Next ==
  \E t \in Tasks :
    \/ \E s \in Strategies : Accept(t, s)
    \/ Begin(t)
    \/ End(t)

Spec == Init /\ [][Next]_vars

(* With workers that never stop working, no accepted request waits for     *)
(* ever and none is worked on for ever.                                    *)
FairSpec ==
  /\ Spec
  /\ \A t \in Tasks : WF_vars(Begin(t)) /\ WF_vars(End(t))
===============================================================================
