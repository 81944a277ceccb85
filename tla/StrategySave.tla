------------------------------ MODULE StrategySave ------------------------------
(*****************************************************************************)
(* The last panel of the strategy page: "create and backtest" makes a        *)
(* strategy, adds its tickers to it at once and asks for a backtest, three   *)
(* calls to the server one after the other; "make again" deletes it.         *)
(* Neither button is locked while its calls are under way.                   *)
(*****************************************************************************)
EXTENDS DashboardEditor

CONSTANTS
  RetryMax,   (* 10 in the code                                             *)
  MaxFaults   (* bound: calls that fail or whose answer is lost              *)

ASSUME SaveAssumption == RetryMax \in Nat /\ MaxFaults \in Nat

VARIABLES
  complete,   (* the basic panel passes its rules                           *)
  code,       (* atomCurrentStrategyCode: the strategy the page shows, or 0  *)
  retryCount,
  saves,      (* the runs of handleCreateStrategy                           *)
  deletes,    (* the calls of handleReCreateStrategy                        *)
  server,     (* server[c]: strategy c of this page as the server has it    *)
  overlapped, (* ghost: a button was clicked while a create or a delete was *)
              (* not answered                                               *)
  faults

saveVars == <<complete, code, retryCount, saves, deletes, server, overlapped,
              faults>>

SaveInit ==
  /\ complete \in BOOLEAN
  /\ code = 0 /\ retryCount = 0
  /\ saves = <<>> /\ deletes = <<>> /\ server = <<>>
  /\ overlapped = FALSE /\ faults = 0

Fault == faults < MaxFaults /\ faults' = faults + 1

(* makeAddUniversals: a ticker without a technique is left out.              *)
AddUniversals ==
  [i \in {j \in DOMAIN selected : selected[j].tech # None} |-> selected[i]]

(* The basic panel follows what is typed into it.                            *)
FillBasic ==
  /\ Gesture /\ panel = "basic"
  /\ complete' = ~complete
  /\ UNCHANGED <<selected, idx, panel, tab, localVars, entered, submits, code,
                 retryCount, saves, deletes, server, overlapped, faults>>

Unanswered == \/ \E n \in DOMAIN saves : saves[n].at \in {"create", "created"}
              \/ \E d \in DOMAIN deletes : deletes[d].at \in {"asked", "deleted"}

(* handleCreateStrategy, up to the first call: what is sent is of the        *)
(* render the button was clicked in.                                         *)
ClickCreate ==
  /\ Gesture /\ panel = "backTesting" /\ code = 0
  /\ saves' = Append(saves, [at |-> "create", items |-> AddUniversals,
                             complete |-> complete, code |-> 0, todo |-> {}])
  /\ overlapped' = (overlapped \/ Unanswered)
  /\ UNCHANGED <<selected, idx, panel, tab, localVars, entered, submits,
                 complete, code, retryCount, deletes, server, faults>>

NoItems == [i \in {} |-> Bare(None)]
New(n)  == Append(server, [of |-> n, items |-> NoItems, live |-> TRUE,
                           pushed |-> FALSE])

ServerCreates(n) ==
  /\ saves[n].at = "create"
  /\ server' = New(n)
  /\ saves'  = [saves EXCEPT ![n].at = "created", ![n].code = Len(server')]
  /\ UNCHANGED <<editorVars, complete, code, retryCount, deletes, overlapped,
                 faults>>

(* What the basic panel does not accept may be refused by the server too,    *)
(* before or after the row is there.                                         *)
ServerRefuses(n) ==
  /\ saves[n].at = "create"
  /\ \/ ~saves[n].complete /\ UNCHANGED faults
     \/ Fault
  /\ server' \in {server, New(n)}
  /\ saves'  = [saves EXCEPT ![n].at = "failed"]
  /\ UNCHANGED <<editorVars, complete, code, retryCount, deletes, overlapped>>

CreateAnswered(n) ==
  /\ saves[n].at = "created"
  /\ code'  = saves[n].code
  /\ saves' = [saves EXCEPT ![n].at = "add", ![n].todo = DOMAIN saves[n].items]
  /\ UNCHANGED <<editorVars, complete, retryCount, deletes, server, overlapped,
                 faults>>

CreateLost(n) ==
  /\ saves[n].at = "created" /\ Fault
  /\ saves' = [saves EXCEPT ![n].at = "failed"]
  /\ UNCHANGED <<editorVars, complete, code, retryCount, deletes, server,
                 overlapped>>

Sent(n, i) == saves[n].items[i]

With(items, i, item) ==
  [j \in DOMAIN items \union {i} |-> IF j = i THEN item ELSE items[j]]

(* One of the calls of Promise.all: refused if the strategy is gone, and     *)
(* then the others go on without being waited for.                           *)
AddUniversal(n, i) ==
  /\ i \in saves[n].todo
  /\ LET c == saves[n].code IN
     IF server[c].live
       THEN /\ server' = [server EXCEPT ![c].items = With(@, i, Sent(n, i))]
            /\ saves'  = [saves EXCEPT ![n].todo = @ \ {i}]
       ELSE /\ saves'  = [saves EXCEPT ![n].todo = @ \ {i}, ![n].at = "failed"]
            /\ UNCHANGED server
  /\ UNCHANGED <<editorVars, complete, code, retryCount, deletes, overlapped,
                 faults>>

AddUniversalLost(n, i) ==
  /\ i \in saves[n].todo /\ Fault
  /\ saves' = [saves EXCEPT ![n].todo = @ \ {i}, ![n].at = "failed"]
  /\ UNCHANGED <<editorVars, complete, code, retryCount, deletes, server,
                 overlapped>>

(* A slip: the backtest is asked for when the first ticker is there.         *)
PushEarly(n) ==
  /\ saves[n].at = "add" /\ saves[n].todo # DOMAIN saves[n].items
  /\ server' = [server EXCEPT ![saves[n].code].pushed = @ \/ server[saves[n].code].live]
  /\ saves'  = [saves EXCEPT ![n].at = "done"]
  /\ UNCHANGED <<editorVars, complete, code, retryCount, deletes, overlapped,
                 faults>>

(* pushBackTestQ, once every ticker is there.                                *)
Push(n) ==
  /\ saves[n].at = "add" /\ saves[n].todo = {}
  /\ LET c == saves[n].code IN
     IF server[c].live
       THEN /\ server' = [server EXCEPT ![c].pushed = TRUE]
            /\ saves'  = [saves EXCEPT ![n].at = "done"]
       ELSE /\ saves'  = [saves EXCEPT ![n].at = "failed"]
            /\ UNCHANGED server
  /\ UNCHANGED <<editorVars, complete, code, retryCount, deletes, overlapped,
                 faults>>

(* handleReCreateStrategy: the panel counts, and gives up after RetryMax.    *)
ClickReCreate ==
  /\ Gesture /\ panel = "backTesting" /\ code # 0
  /\ retryCount' = retryCount + 1
  /\ deletes' = IF retryCount >= RetryMax THEN deletes
                ELSE Append(deletes, [at |-> "asked", code |-> code])
  /\ overlapped' = (overlapped \/ Unanswered)
  /\ UNCHANGED <<selected, idx, panel, tab, localVars, entered, submits,
                 complete, code, saves, server, faults>>

ServerDeletes(d) ==
  /\ deletes[d].at = "asked"
  /\ LET c == deletes[d].code IN
     IF server[c].live
       THEN /\ server'  = [server EXCEPT ![c].live = FALSE]
            /\ deletes' = [deletes EXCEPT ![d].at = "deleted"]
       ELSE /\ deletes' = [deletes EXCEPT ![d].at = "failed"]
            /\ UNCHANGED server
  /\ UNCHANGED <<editorVars, complete, code, retryCount, saves, overlapped,
                 faults>>

(* A slip: the page keeps the strategy it has deleted.                       *)
DeleteKeepsCode(d) ==
  /\ deletes[d].at = "deleted"
  /\ deletes' = [deletes EXCEPT ![d].at = "done"]
  /\ UNCHANGED <<editorVars, complete, code, retryCount, saves, server,
                 overlapped, faults>>

DeleteAnswered(d) ==
  /\ deletes[d].at = "deleted"
  /\ deletes' = [deletes EXCEPT ![d].at = "done"]
  /\ code' = 0
  /\ UNCHANGED <<editorVars, complete, retryCount, saves, server, overlapped,
                 faults>>

DeleteLost(d) ==
  /\ deletes[d].at \in {"asked", "deleted"} /\ Fault
  /\ deletes' = [deletes EXCEPT ![d].at = "failed"]
  /\ UNCHANGED <<editorVars, complete, code, retryCount, saves, server,
                 overlapped>>

SaveStep ==
  \/ FillBasic \/ ClickCreate \/ ClickReCreate
  \/ \E n \in DOMAIN saves :
       \/ ServerCreates(n) \/ ServerRefuses(n)
       \/ CreateAnswered(n) \/ CreateLost(n)
       \/ \E i \in saves[n].todo : AddUniversal(n, i) \/ AddUniversalLost(n, i)
       \/ Push(n)
  \/ \E d \in DOMAIN deletes :
       ServerDeletes(d) \/ DeleteAnswered(d) \/ DeleteLost(d)

-----------------------------------------------------------------------------
(* A strategy whose backtest was asked for has the tickers, techniques and   *)
(* settings that were on the page when the button was clicked, all of them,  *)
(* whatever the user has changed, clicked or lost since.                     *)
SavedIsWhatWasClicked ==
  \A c \in DOMAIN server :
    server[c].pushed => server[c].items = saves[server[c].of].items

(* Page and server agree on which strategies there are, unless two clicks    *)
(* overlapped or a call failed.  The server has one that the page does not   *)
(* know of only while it is being made, or if the basic panel was not        *)
(* complete; the page shows one that is gone only while its deletion is not  *)
(* answered.  (If that answer is lost it does so for good, since "make       *)
(* again" is refused from then on.)                                          *)
PageKnowsItsStrategy ==
  overlapped \/ faults > 0 \/
    /\ \A c \in DOMAIN server :
         server[c].live /\ c # code =>
           LET s == saves[server[c].of] IN
           s.at \in {"create", "created"} \/ ~s.complete
    /\ code # 0 /\ ~server[code].live =>
         \E d \in DOMAIN deletes : deletes[d].code = code
                                     /\ deletes[d].at = "deleted"
===============================================================================
