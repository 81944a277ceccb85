------------------------------ MODULE QuantFilter ------------------------------
(*****************************************************************************)
(* The quant tab of the universal panel: filters over the figures of a       *)
(* balance sheet, the presets that fill them in, and the request that adds   *)
(* what it finds to the list.                                                *)
(*****************************************************************************)
EXTENDS DashboardEditor

CONSTANTS
  Offered, Toggled,   (* bound: the presets and the figures that are clicked *)
  Findings            (* what a request may find: sequences of tickers       *)

ASSUME FindingsAssumption == Findings \subseteq Seq(Tickers)

VARIABLES
  strategy,  (* atomQSHeader: the number of the preset; 1: the user's own   *)
  body,      (* atomQSBody: the filter of each figure                       *)
  asked      (* requests under way: what was sent, and what was clicked     *)

quantVars == <<strategy, body, asked>>

(* The figures a preset filters by, and one for those none does.             *)
Figures == {"market_cap", "PBR_Q", "EV_per_EBITDA", "PER", "debt_ratio_Q",
            "ROA_Q", "ROE"}
Off     == <<>>
Up(v)   == <<"up", v>>
Down(v) == <<"down", v>>
Between(v, w) == <<"between", v, w>>

AllOff == [f \in Figures |-> Off]

(* _handlePreset_0 .. 6.                                                     *)
Preset(p) ==
  CASE p = 0 -> AllOff
    [] p = 1 -> [AllOff EXCEPT !.market_cap = Up("5000")]
    [] p = 2 -> [AllOff EXCEPT !.market_cap = Up("5000"), !.PBR_Q = Up("0")]
    [] p = 3 -> [AllOff EXCEPT !.market_cap = Up("5000"), !.PBR_Q = Up("0"),
                               !.EV_per_EBITDA = Up("0")]
    [] p = 4 -> [AllOff EXCEPT !.PBR_Q = Up("0.2")]
    [] p = 5 -> [AllOff EXCEPT !.PER = Down("10"), !.debt_ratio_Q = Down("50")]
    [] p = 6 -> [AllOff EXCEPT !.PBR_Q = Up("0.2"), !.debt_ratio_Q = Down("50"),
                               !.ROA_Q = Up("5")]

QuantInit == strategy = 0 /\ body = AllOff /\ asked = {}

OnQuantTab == panel = "universal" /\ tab = "quant"

(* The button of a preset: handlePreset, then handleSetStrategyNum.          *)
PressPreset(p) ==
  /\ Gesture /\ OnQuantTab
  /\ <<strategy, body>> # <<p, Preset(p)>>
  /\ strategy' = p /\ body' = Preset(p)
  /\ UNCHANGED <<selected, idx, panel, tab, localVars, entered, submits, asked>>

(* A slip: the number of the preset stays.                                   *)
ToggleBodyOnly(f) ==
  /\ Gesture /\ OnQuantTab
  /\ body' = [body EXCEPT ![f] = IF @ = Off THEN Between("10", "20") ELSE Off]
  /\ UNCHANGED <<selected, idx, panel, tab, localVars, entered, submits, asked,
                 strategy>>

(* handleToggleQSBodyValue: a filter is put on or off, by the user.          *)
ToggleFilter(f) ==
  /\ Gesture /\ OnQuantTab
  /\ strategy' = 1
  /\ body' = [body EXCEPT ![f] = IF @ = Off THEN Between("10", "20") ELSE Off]
  /\ UNCHANGED <<selected, idx, panel, tab, localVars, entered, submits, asked>>

(* The items of the filters that are on: the button for the operator is      *)
(* there for the user's own filters only.  What is typed in an item stays    *)
(* in the item: no onChange is handed to it.                                 *)
HasOperatorButton(f) == OnQuantTab /\ strategy = 1 /\ body[f] # Off

ToggleOperator(f) ==
  /\ Gesture /\ HasOperatorButton(f)
  /\ body' = [body EXCEPT ![f] = CASE @[1] = "between" -> Down("0")
                                   [] @[1] = "down"    -> Up("0")
                                   [] @[1] = "up"      -> Between("0", "20")]
  /\ UNCHANGED <<selected, idx, panel, tab, localVars, entered, submits, asked,
                 strategy>>

(* handleRequestQuantSelect, before the answer.  Nothing stops a second      *)
(* request, or a change of the filters while one is under way.               *)
Request ==
  /\ Gesture /\ OnQuantTab
  /\ asked' = asked \union {[at |-> gestures, strategy |-> strategy,
                             body |-> body, list |-> selected]}
  /\ UNCHANGED <<selected, idx, panel, tab, localVars, entered, submits,
                 strategy, body>>

Listed(found) == [k \in DOMAIN found |-> Bare(found[k])]

(* A slip: the list is the one of the render the button was clicked in.      *)
AnsweredToOldList(q, found) ==
  /\ Len(q.list) + Len(found) <= MaxItems
  /\ asked' = asked \ {q}
  /\ selected' = q.list \o Listed(found)
  /\ UNCHANGED <<idx, panel, tab, entered, submits, gestures, strategy, body>>
  /\ Keep

(* ... and after it: what was found joins the list as it is by then,         *)
(* wherever the user has gone.                                               *)
Answered(q, found) ==
  /\ Len(selected) + Len(found) <= MaxItems
  /\ asked' = asked \ {q}
  /\ selected' = selected \o Listed(found)
  /\ UNCHANGED <<idx, panel, tab, entered, submits, gestures, strategy, body>>
  /\ Keep

RequestFails(q) ==
  /\ asked' = asked \ {q}
  /\ UNCHANGED <<editorVars, strategy, body>>

QuantStep ==
  \/ \E p \in Offered : PressPreset(p)
  \/ \E f \in Toggled : ToggleFilter(f) \/ ToggleOperator(f)
  \/ Request
  \/ \E q \in asked : RequestFails(q) \/ \E found \in Findings : Answered(q, found)

-----------------------------------------------------------------------------
(* A request that goes by the number of a preset sends the filters of that   *)
(* preset: whatever is clicked, filters that are not a preset's have the     *)
(* number of the user's own.                                                 *)
PresetIsItsFilters ==
  \A q \in asked \union {[strategy |-> strategy, body |-> body]} :
    q.strategy # 1 => q.body = Preset(q.strategy)
===============================================================================
