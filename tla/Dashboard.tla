------------------------------- MODULE Dashboard -------------------------------
(*****************************************************************************)
(* The strategy page: the list, the quant tab and the saving of a strategy   *)
(* under one user, with timers and answers at any time.                      *)
(*****************************************************************************)
EXTENDS QuantFilter, StrategySave

vars == <<editorVars, quantVars, saveVars>>

Init == EditorInit /\ QuantInit /\ SaveInit

(* The count of retries is the panel's own: it is gone when the panel is.    *)
KeepSave ==
  /\ retryCount' = IF panel' = "backTesting" THEN retryCount ELSE 0
  /\ UNCHANGED <<complete, code, saves, deletes, server, overlapped, faults>>

Next ==
  \/ EditorStep /\ UNCHANGED quantVars /\ KeepSave
  \/ QuantStep /\ KeepSave
  \/ SaveStep /\ UNCHANGED quantVars

Spec == Init /\ [][Next]_vars
===============================================================================
