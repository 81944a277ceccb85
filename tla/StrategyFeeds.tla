----------------------------- MODULE StrategyFeeds -----------------------------
(*****************************************************************************)
(* The public lists of strategies.  A feed is read page by page, each page   *)
(* a GET of its own, while strategies are made and deleted; the search by    *)
(* ticker is two queries, one for the codes and one for the rows.  The       *)
(* controller is wrapped by HttpCacheInterceptor: an answer is kept in Redis *)
(* under its URL for a while, whoever asked for it, and the next GET of that *)
(* URL is answered with it.                                                  *)
(*****************************************************************************)
EXTENDS StrategyService

CONSTANTS
  Take,        (* strategies of a page                                     *)
  SearchTake   (* strategies a search answers with                         *)

ASSUME FeedAssumption ==
  /\ Take \in Nat \ {0} /\ SearchTake \in Nat \ {0}
  /\ None \notin {"browse", "search"}

(* What the public lists are computed from: the open strategies, those that  *)
(* are not deleted, open or not, and the codes of a search.  The codes are   *)
(* those of the strategies that hold a ticker, or those of the profits (the  *)
(* twenty first, which are all of them here), deleted ones included.         *)
Shown == {c \in Codes : strategy[c].live /\ strategy[c].open}
Live  == {c \in Codes : strategy[c].live}
ByProfit == "profit"
CodesOf(what) ==
  IF what = ByProfit THEN invest
  ELSE {universal[u].code : u \in {v \in DOMAIN universal :
                                     universal[v].ticker = what}}

View == [shown |-> Shown, live |-> Live,
         codes |-> [t \in Tickers |-> CodesOf(t)]]

(* A kept answer is one that was computed earlier: past is what the lists    *)
(* have been computed from so far, the last is what they are computed from   *)
(* now.  How long an answer is kept, and which GET left it there, is left    *)
(* open: any list may be answered as of any earlier time.                    *)
VARIABLE past

PastInit  == past = <<View>>
Remembers == past' = IF View' = View THEN past ELSE Append(past, View')

(* The newest first.                                                         *)
NewestFirst(S) == CHOOSE q \in [1 .. Cardinality(S) -> S] :
                    \A i, j \in DOMAIN q : i < j => q[i] > q[j]
Cut(q, skip) == SubSeq(q, skip + 1, IF skip + Take < Len(q) THEN skip + Take
                                                            ELSE Len(q))

(* getStrategyListNew, getStrategyListInvestType: the database cuts the list *)
(* of the open strategies S.                                                 *)
NewPage(S, n) == Cut(NewestFirst(S), n * Take)

(* getStrategyListHighView sorts a page the database has cut by the number   *)
(* of members that run the strategy, which nothing changes, and cuts it      *)
(* again by the same numbers: only the first page is ever not empty.         *)
HighViewPage(S, n) == Cut(NewPage(S, n), n * Take)

Feeds == {"new", "high-view"}
(* A slip: the second page begins one strategy late.                         *)
PageLate(feed, S, n) ==
  IF feed = "new" THEN Cut(NewestFirst(S), n * (Take + 1)) ELSE HighViewPage(S, n)

Page(feed, S, n) == IF feed = "new" THEN NewPage(S, n) ELSE HighViewPage(S, n)

Members(q) == {q[i] : i \in DOMAIN q}

(* A reader of pages.  due: the open strategies as of the first page; from:  *)
(* as of when the last page is; ordered: no page so far was older than the   *)
(* one before it.                                                            *)
Browse(r, feed) ==
  /\ Arrive(r, "browse", None, {}, feed,
            [pc |-> "page", page |-> 0, seen |-> {}, due |-> {}, from |-> 1,
             ordered |-> TRUE])
  /\ UNCHANGED strategyVars

(* A page, of the table as it is or kept from an earlier time.               *)
ReadPage(r) ==
  /\ At(r, "browse", "page")
  /\ \E v \in DOMAIN past :
       LET S == past[v].shown
           q == Page(call[r].on, S, frame[r].page)
       IN /\ frame' = [frame EXCEPT ![r] =
                         [pc      |-> IF q = << >> THEN "done" ELSE "page",
                          page    |-> @.page + 1,
                          seen    |-> @.seen \union Members(q),
                          due     |-> IF @.page = 0 THEN S ELSE @.due,
                          from    |-> v,
                          ordered |-> @.ordered /\ @.from <= v]]
          /\ IF q = << >> THEN AnswerOk(r) ELSE UNCHANGED call
  /\ UNCHANGED <<role, tokens, faults, strategyVars>>

(* searchStrategyByTickerName and getStrategyListHighProfit: the codes by a  *)
(* query of their own, then the strategies, open or not.                     *)
Search(r, what) ==
  /\ Arrive(r, "search", None, {}, what,
            [pc |-> "codes", codes |-> {}, seen |-> {}, due |-> {}])
  /\ UNCHANGED strategyVars

SearchCodes(r) ==
  /\ At(r, "search", "codes")
  /\ LET codes == CodesOf(call[r].on) IN
     frame' = [frame EXCEPT ![r] = [pc |-> "rows", codes |-> codes, seen |-> {},
                                    due |-> codes \intersect Live]]
  /\ UNCHANGED <<role, tokens, faults, call, strategyVars>>

(* What a search answers with of what it found: all of it, by ticker the     *)
(* first of them, in no order.                                               *)
TakenOf(what, found) ==
  {S \in SUBSET found :
     IF what = ByProfit THEN S = found
     ELSE Cardinality(S) <= SearchTake /\ (S = found \/ Cardinality(S) = SearchTake)}

SearchRows(r) ==
  /\ At(r, "search", "rows")
  /\ \E S \in TakenOf(call[r].on, frame[r].codes \intersect Live) :
       frame' = [frame EXCEPT ![r] = [pc |-> "done", codes |-> @.codes, seen |-> S,
                                      due |-> @.due]]
  /\ AnswerOk(r)
  /\ UNCHANGED <<role, tokens, faults, strategyVars>>

(* The codes a search may have found at an earlier time; which of the codes  *)
(* had their principal then is left open.                                    *)
CodesAsOf(what, u) ==
  IF what = ByProfit THEN {invest \intersect S : S \in SUBSET past[u].live}
                     ELSE {past[u].codes[what]}

(* A search answered from Redis, with what another found: the codes as of    *)
(* one time and the rows as of the same or a later one.                      *)
SearchKept(r) ==
  /\ At(r, "search", "codes")
  /\ \E v \in DOMAIN past : \E u \in 1 .. v :
     \E codes \in CodesAsOf(call[r].on, u) :
       \E S \in TakenOf(call[r].on, codes \intersect past[v].live) :
         frame' = [frame EXCEPT ![r] = [pc |-> "done", codes |-> codes, seen |-> S,
                                        due |-> codes \intersect past[u].live]]
  /\ AnswerOk(r)
  /\ UNCHANGED <<role, tokens, faults, strategyVars>>

FeedStep(r) ==
  \/ \E f \in Feeds : Browse(r, f)
  \/ ReadPage(r)
  \/ \E t \in Tickers \union {ByProfit} : Search(r, t)
  \/ SearchCodes(r) \/ SearchRows(r) \/ SearchKept(r)

-----------------------------------------------------------------------------
(* Properties *)

FeedTypeOK == \A v \in DOMAIN past : /\ past[v].shown \subseteq past[v].live
                                     /\ past[v].live \subseteq Codes

Gone(S) == {c \in S : ~strategy[c].live}

(* A reader misses nothing that was there as of the first answer it got and  *)
(* is not deleted.  Page after page: strategies made meanwhile push the      *)
(* others down to a page that is yet to be read; only a deletion moves one   *)
(* up past the reader, and only a page kept from before the page in hand     *)
(* shows the list as it was before it was pushed down.  A search of two      *)
(* queries: it finds every holder, those that are not open included, unless  *)
(* it has as many as it answers with.                                        *)
ReadersMissNothing ==
  \A r \in Requests :
    /\ Answered(r, "browse") =>
         \/ call[r].on = "new" => frame[r].due \subseteq frame[r].seen
         \/ ~frame[r].ordered
         \/ \E c \in Codes : ~strategy[c].live
    /\ Answered(r, "search") =>
         \/ frame[r].due \ Gone(frame[r].due) \subseteq frame[r].seen
         \/ call[r].on # ByProfit /\ Cardinality(frame[r].seen) = SearchTake
===============================================================================
