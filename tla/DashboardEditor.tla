---------------------------- MODULE DashboardEditor ----------------------------
(*****************************************************************************)
(* The list of tickers a maker puts together on the strategy page: the       *)
(* Recoil atom that holds it, the inspector panels that change it, and the   *)
(* tile of every ticker, which asks for a mini backtest when its technique   *)
(* or its settings change.                                                   *)
(*                                                                           *)
(* A gesture is one click or one entry of the user; what React then does is  *)
(* part of it (Rerender).  Timers and answers come at any later time.        *)
(*****************************************************************************)
EXTENDS Integers, Sequences, FiniteSets

CONSTANTS
  Tickers,
  Techs,        (* the techniques offered, of Techniques                   *)
  Terms, Hits,  (* Hits[t]: the tickers the fuzzy search finds for a term  *)
  StartList, StartPanels,   (* what is edited, and where the user begins   *)
  None,
  MaxGestures,  (* bound: gestures                                         *)
  MaxItems      (* bound: tickers in the list                              *)

Techniques   == {"GoldenCross", "RSI", "BollingerBand", "MACD"}
ButtonPanels == {"basic", "universal", "backTesting"}
Panels       == ButtonPanels \union {"trading", "property"}

(* A ticker of the list.                                                     *)
Items == [ticker : Tickers, tech : Techs \union {None},
          val : {"default", "zero", "own"}, ref : Nat]

(* Settings objects are known by their identity: an item that has none has   *)
(* the defaults, and one object has one value.                               *)
KnowsSettings(s) ==
  \A i, j \in DOMAIN s : /\ s[i].ref = 0 => s[i].val = "default"
                         /\ s[i].ref = s[j].ref => s[i].val = s[j].val

ASSUME EditorAssumption ==
  /\ Techs \subseteq Techniques
  /\ None \notin Techniques \union Tickers
  /\ Hits \in [Terms -> Seq(Tickers)]
  /\ "" \in Terms /\ Hits[""] = <<>>
  /\ StartPanels \subseteq ButtonPanels
  /\ StartList \in Seq(Items) /\ KnowsSettings(StartList)
  /\ \A i \in DOMAIN StartList : StartList[i].ref <= Len(StartList)
  /\ MaxGestures \in Nat /\ MaxItems \in Nat

VARIABLES
  selected,  (* the tickers, each with its technique, the values of its    *)
             (* settings and the identity (ref) of the settings object      *)
  idx,       (* the position trading and property are about; 0: not set yet *)
  panel, tab,
  chosen, ticked,   (* positions to delete, and the boxes that show a tick, *)
                    (* each known by its position and ticker                *)
  search,    (* the ticker search: input, term applied, results kept        *)
  entered,   (* what a pressed Enter will add                               *)
  form,      (* the settings form                                           *)
  tile,      (* tile[i]: what the i-th tile asked for, and its status       *)
  advice,    (* the recommendations of the trading panel                    *)
  submits,   (* settings objects made so far                               *)
  moved,     (* ghost: tiles whose ticker came to them by a deletion and     *)
             (* that have not asked since                                   *)
  gestures

localVars  == <<chosen, ticked, search, form, tile, advice, moved>>
editorVars == <<selected, idx, panel, tab, localVars, entered, submits,
                gestures>>

Bare(ticker) == [ticker |-> ticker, tech |-> None, val |-> "default", ref |-> 0]
NoForm       == [tech |-> None]
NoAdvice     == [ticker |-> None]
Idle         == [of |-> None, status |-> "idle"]
Asks(item)   == IF item.tech = None THEN Idle
                                    ELSE [of |-> item, status |-> "loading"]
FreshSearch  == [text |-> "", term |-> "", hits |-> Hits[""]]

Current == IF idx \in DOMAIN selected THEN selected[idx] ELSE Bare(None)

(* Every form falls back to its default for a value of 0.                    *)
Shown(val)    == IF val = "zero" THEN "default" ELSE val
Mounted(item) == [tech |-> item.tech, ref |-> item.ref, val |-> Shown(item.val),
                  typed |-> FALSE]

(* The form that takes over settings that change while it is shown.          *)
Refreshed == {"GoldenCross"}

(* A slip: a form that stays shown takes nothing over.                       *)
FormOnce(item) ==
  CASE item.tech = None                  -> NoForm
    [] item.tech \notin {None, form.tech} -> Mounted(item)
    [] OTHER                             -> [form EXCEPT !.ref = item.ref]

(* The panel's form: another technique mounts another one.                   *)
FormFor(item) ==
  CASE item.tech = None                  -> NoForm
    [] item.tech \notin {None, form.tech} -> Mounted(item)
    [] item.tech \in Refreshed /\ item.ref # form.ref -> Mounted(item)
    [] OTHER -> [form EXCEPT !.ref = item.ref]

(* A mini backtest of each technique, asked for again when the ticker        *)
(* changes.                                                                  *)
AdviceFor(ticker) ==
  IF ticker \in {None, advice.ticker} THEN advice
  ELSE [ticker |-> ticker,
        of     |-> [t \in Techs |-> [ticker |-> ticker, status |-> "loading"]]]

(* A slip: the effect of a tile runs for another technique only.             *)
ReaskedByName(i) == selected[i].tech # selected'[i].tech

(* The effect of a tile runs when the technique or the settings object is    *)
(* another one, not when the ticker is.                                      *)
Reasked(i) == <<selected[i].tech, selected[i].ref>>
                # <<selected'[i].tech, selected'[i].ref>>

(* A tile is known by its position.                                          *)
Stays(i) == i \in DOMAIN selected
              /\ ~(Reasked(i) /\ selected'[i].tech # None)

(* What React does after a gesture: a panel that is left loses its local     *)
(* state; ch, ti, se is that of the search tab if it stays.                  *)
Rerender(ch, ti, se) ==
  /\ LET searching == panel' = "universal" /\ tab' = "search" IN
     /\ chosen' = IF searching THEN ch ELSE {}
     /\ ticked' = IF searching
                    THEN ti \intersect
                           {<<i, selected'[i].ticker>> : i \in DOMAIN selected'}
                    ELSE {}
     /\ search' = IF searching THEN se ELSE FreshSearch
  /\ form'   = IF panel' = "property" THEN FormFor(Current') ELSE NoForm
  /\ advice' = IF panel' = "trading" THEN AdviceFor(Current'.ticker)
                                     ELSE NoAdvice
  /\ tile'   = [i \in DOMAIN selected' |-> IF Stays(i) THEN tile[i]
                                           ELSE Asks(selected'[i])]
  /\ moved'  = {i \in DOMAIN selected' :
                  /\ Stays(i)
                  /\ i \in moved \/ selected'[i].ticker # selected[i].ticker}

Keep == Rerender(chosen, ticked, search)

EditorInit ==
  /\ selected = StartList
  /\ idx      = 0
  /\ panel \in StartPanels /\ tab = "search"
  /\ chosen = {} /\ ticked = {}
  /\ search = FreshSearch /\ entered = None
  /\ form = NoForm /\ advice = NoAdvice
  /\ tile = [i \in DOMAIN StartList |-> Asks(StartList[i])]
  /\ submits = Len(StartList) /\ moved = {} /\ gestures = 0

Gesture == gestures < MaxGestures /\ gestures' = gestures + 1

-----------------------------------------------------------------------------
(* The inspector *)

(* The three buttons of the page, the title of a tile, and "next" of a       *)
(* panel that is complete all show a panel.                                  *)
Show(p) ==
  /\ Gesture
  /\ p \in ButtonPanels \ {panel}
  /\ panel' = p
  /\ UNCHANGED <<selected, idx, tab, entered, submits>>
  /\ Keep

(* A tab of the universal panel; the button "quant selection" of the page    *)
(* shows the panel and the tab.                                              *)
ShowTab(t) ==
  /\ Gesture
  /\ panel = "universal" \/ t = "quant"
  /\ <<panel, tab>> # <<"universal", t>>
  /\ panel' = "universal" /\ tab' = t
  /\ UNCHANGED <<selected, idx, entered, submits>>
  /\ Keep

(* The two halves of a tile: handleClickTicker, handleClickTradingSetting.   *)
ClickTile(i, p) ==
  /\ Gesture
  /\ i \in DOMAIN selected
  /\ panel' = p /\ idx' = i
  /\ <<panel, idx>> # <<p, i>>
  /\ UNCHANGED <<selected, tab, entered, submits>>
  /\ Keep

-----------------------------------------------------------------------------
(* The ticker search *)

Searching == panel = "universal" /\ tab = "search"

(* A key is pressed in the input.  It takes back an Enter that waits, if the *)
(* search was not drawn again in between: the two share the timer.           *)
TypeTerm(t) ==
  /\ Gesture
  /\ Searching
  /\ t # search.text \/ entered # None
  /\ entered' \in {entered, None}
  /\ UNCHANGED <<selected, idx, panel, tab, submits>>
  /\ Rerender(chosen, ticked, [search EXCEPT !.text = t])

(* The results the panel keeps for Enter: a term that finds nothing leaves   *)
(* those of the one before.                                                  *)
KeptResults(term) == IF Hits[term] = <<>> THEN search.hits ELSE Hits[term]

Applied(term) == [text |-> term, term |-> term, hits |-> KeptResults(term)]

(* The input is applied 100 ms after the last key.                           *)
Settle ==
  /\ Searching /\ search.text # search.term
  /\ UNCHANGED <<selected, idx, panel, tab, entered, submits, gestures>>
  /\ Rerender(chosen, ticked, Applied(search.text))

(* Enter is handled 100 ms later too, by the handler of the render it was    *)
(* pressed in: what is typed but not yet applied is not what it adds.  One   *)
(* that waits is not pressed again (bound).                                  *)
PressEnter ==
  /\ Gesture
  /\ Searching /\ entered = None /\ search.hits # <<>>
  /\ entered' = search.hits[1]
  /\ UNCHANGED <<selected, idx, panel, tab, submits, localVars>>

EnterFires ==
  /\ entered # None /\ (Searching => search.text = search.term)
  /\ Len(selected) < MaxItems
  /\ selected' = Append(selected, Bare(entered))
  /\ entered'  = None
  /\ UNCHANGED <<idx, panel, tab, submits, gestures>>
  /\ Rerender(chosen, ticked, Applied(""))

(* A row of the list of results is clicked.                                  *)
Select(k) ==
  /\ Gesture
  /\ Searching /\ k \in DOMAIN Hits[search.term]
  /\ Len(selected) < MaxItems
  /\ selected' = Append(selected, Bare(Hits[search.term][k]))
  /\ UNCHANGED <<idx, panel, tab, entered, submits>>
  /\ Rerender(chosen, ticked, [search EXCEPT !.hits = Hits[search.term]])

(* A box is clicked: its tick and the set of positions follow.               *)
Tick(i) ==
  /\ Gesture
  /\ Searching /\ i \in DOMAIN selected
  /\ UNCHANGED <<selected, idx, panel, tab, entered, submits>>
  /\ LET box == <<i, selected[i].ticker>> IN
     IF box \in ticked THEN Rerender(chosen \ {i}, ticked \ {box}, search)
                       ELSE Rerender(chosen \union {i}, ticked \union {box},
                                     search)

(* The place of i among the positions ks.                                    *)
Place(ks, i) == Cardinality({k \in ks : k <= i})

(* One splice each, the highest position first so that none moves one that   *)
(* is still to go: the items at the other positions are left, in order.      *)
RemoveMultipleElements(s, is) ==
  LET kept == DOMAIN s \ is
  IN  [k \in 1 .. Cardinality(kept) |-> s[CHOOSE i \in kept : Place(kept, i) = k]]

(* A slip: the positions to delete are kept.                                 *)
DeleteOnly ==
  /\ Gesture
  /\ Searching /\ chosen # {}
  /\ selected' = RemoveMultipleElements(selected, chosen)
  /\ UNCHANGED <<idx, panel, tab, entered, submits>>
  /\ Rerender(chosen, ticked, search)

(* handleWillDelTickerClick.  A box whose position has the same ticker as    *)
(* before keeps its tick; idx is not adjusted.                               *)
Delete ==
  /\ Gesture
  /\ Searching /\ chosen # {}
  /\ selected' = RemoveMultipleElements(selected, chosen)
  /\ UNCHANGED <<idx, panel, tab, entered, submits>>
  /\ Rerender({}, ticked, search)

-----------------------------------------------------------------------------
(* Technique and settings *)

(* A technique of the list or of the recommendations is clicked.             *)
ApplyTechnical(t) ==
  /\ Gesture
  /\ panel = "trading" /\ idx \in DOMAIN selected
  /\ selected' = [selected EXCEPT ![idx] = [Bare(@.ticker) EXCEPT !.tech = t]]
  /\ UNCHANGED <<idx, panel, tab, entered, submits>>
  /\ Keep

(* What can be typed: bad does not pass the form's own rules, and a period   *)
(* of 0 does not either.                                                     *)
Typable(tech) == {"own", "bad"} \union
                   IF tech = "BollingerBand" THEN {} ELSE {"zero"}

TypeValue(v) ==
  /\ Gesture
  /\ form # NoForm /\ v \in Typable(form.tech)
  /\ form' = [form EXCEPT !.val = v, !.typed = TRUE]
  /\ UNCHANGED <<selected, idx, panel, tab, chosen, ticked, search, entered,
                 tile, advice, submits, moved>>

(* The form is applied, typed in or not.                                     *)
Submit ==
  /\ Gesture
  /\ form # NoForm /\ form.val # "bad"
  /\ submits'  = submits + 1
  /\ selected' = [selected EXCEPT ![idx].val = form.val, ![idx].ref = submits']
  /\ UNCHANGED <<idx, panel, tab, entered>>
  /\ Keep

(* Answers of mini backtests.  A tile and a recommendation watch the last    *)
(* request they made; the answer to an earlier one is not looked at.         *)
TileAnswered(i, status) ==
  /\ tile[i].status = "loading"
  /\ tile' = [tile EXCEPT ![i].status = status]
  /\ UNCHANGED <<selected, idx, panel, tab, chosen, ticked, search, entered,
                 form, advice, submits, moved, gestures>>

AdviceAnswered(t, status) ==
  /\ advice # NoAdvice /\ advice.of[t].status = "loading"
  /\ advice' = [advice EXCEPT !.of[t].status = status]
  /\ UNCHANGED <<selected, idx, panel, tab, chosen, ticked, search, entered,
                 form, tile, submits, moved, gestures>>

EditorStep ==
  \/ \E p \in Panels : Show(p)
  \/ \E t \in {"search", "quant"} : ShowTab(t)
  \/ \E i \in DOMAIN selected, p \in {"trading", "property"} : ClickTile(i, p)
  \/ \E t \in Terms : TypeTerm(t)
  \/ Settle
  \/ PressEnter
  \/ EnterFires
  \/ \E k \in 1 .. 2 : Select(k)
  \/ \E i \in DOMAIN selected : Tick(i)
  \/ Delete
  \/ \E t \in Techs : ApplyTechnical(t)
  \/ \E v \in {"own", "bad", "zero"} : TypeValue(v)
  \/ Submit
  \/ \E i \in DOMAIN selected, s \in {"success", "error"} : TileAnswered(i, s)
  \/ \E t \in Techs, s \in {"success", "error"} : AdviceAnswered(t, s)

-----------------------------------------------------------------------------
(* Properties *)

Searches == [text : Terms, term : Terms, hits : Seq(Tickers)]
Tiles    == [of : Items \union {None},
             status : {"idle", "loading", "success", "error"}]

TypeOK ==
  /\ selected \in Seq(Items) /\ KnowsSettings(selected)
  /\ submits \in Nat /\ \A i \in DOMAIN selected : selected[i].ref <= submits
  /\ panel \in Panels
  /\ panel \in Panels \ ButtonPanels => idx \in DOMAIN selected
  /\ entered \in Tickers \union {None}
  /\ search \in Searches
  /\ tile \in [DOMAIN selected -> Tiles]

(* Delete takes out no ticker whose box shows no tick: a chosen position is  *)
(* there and its box is ticked, whatever was deleted and added before.  A    *)
(* box may keep its tick after a deletion and not be chosen any more.        *)
DeletesOnlyTicked ==
  \A i \in chosen : i \in DOMAIN selected /\ <<i, selected[i].ticker>> \in ticked

(* The list changes by additions at its end and by Delete, which keeps the   *)
(* others in their order: nothing that comes late undoes what the user did   *)
(* in the meantime.                                                          *)
AddedTo ==
  \A i \in DOMAIN selected :
    i \in DOMAIN selected' /\ selected'[i].ticker = selected[i].ticker

ThinnedOut ==
  \E at \in [DOMAIN selected' -> DOMAIN selected \ chosen] :
    /\ \A j, k \in DOMAIN selected' : j < k => at[j] < at[k]
    /\ \A i \in DOMAIN selected \ chosen : \E k \in DOMAIN selected' : at[k] = i
    /\ \A k \in DOMAIN selected' : selected'[k] = selected[at[k]]

TheListIsKept == [][AddedTo \/ ThinnedOut]_selected

(* A figure is of what it stands beside.  What a tile shows is the mini      *)
(* backtest of the technique and settings of its ticker, whatever order the  *)
(* answers came in, and of that ticker unless a deletion gave the tile       *)
(* another one; a recommendation is of the ticker the panel is about.        *)
FiguresAreOfTheirItem ==
  /\ \A i \in DOMAIN selected :
       tile[i].status = "success" /\ selected[i].tech # None
       => /\ [tile[i].of EXCEPT !.ticker = selected[i].ticker] = selected[i]
          /\ i \notin moved => tile[i].of = selected[i]
  /\ advice # NoAdvice =>
       \A t \in Techs : advice.of[t].ticker = Current.ticker

(* The golden cross form shows the settings of its ticker until something    *)
(* is typed, whichever ticker was shown before; a value of 0 is shown as     *)
(* the default.  (The other forms keep what they showed for another ticker.) *)
FormShowsTheSetting ==
  form # NoForm /\ ~form.typed /\ form.tech \in Refreshed
    => form.val = Shown(Current.val)
===============================================================================
