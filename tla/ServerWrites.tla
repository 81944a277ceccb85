------------------------------ MODULE ServerWrites ------------------------------
(*****************************************************************************)
(* The Nest server with its members, its strategies and its pictures: one    *)
(* process, one database, and requests of every kind under way at once.      *)
(*****************************************************************************)
EXTENDS MemberService, StrategyFeeds, UploadService

vars == <<gatewayVars, memberVars, strategyVars, uploadVars, past>>

Init == GatewayInit /\ MemberInit /\ StrategyInit /\ UploadInit /\ PastInit

Step ==
  \/ \E r \in Requests :
       \/ MemberStep(r) /\ UNCHANGED <<strategyVars, uploadVars>>
       \/ StrategyStep(r) /\ UNCHANGED <<memberVars, uploadVars>>
       \/ FeedStep(r) /\ UNCHANGED <<memberVars, uploadVars>>
       \/ UploadStep(r) /\ UNCHANGED <<memberVars, strategyVars>>
  \/ Tick /\ UNCHANGED <<memberVars, strategyVars>>

Next == Step /\ Remembers

Spec == Init /\ [][Next]_vars

-----------------------------------------------------------------------------
TypeOK == /\ GatewayTypeOK /\ MemberTypeOK /\ StrategyTypeOK /\ UploadTypeOK
          /\ FeedTypeOK
===============================================================================
