--------------------------------- MODULE Pages ---------------------------------
(*****************************************************************************)
(* The pages of the web client: which queries a page keeps mounted, under    *)
(* which key and from which URL, and where its links lead.  A hook is the    *)
(* function from the keys it reads to their URLs; a piece of a page is a     *)
(* hook's reads or a link, and a page is its pieces put together.  There is  *)
(* one strategy, c, and one ticker.                                          *)
(*****************************************************************************)
EXTENDS TLC

CONSTANT None

-----------------------------------------------------------------------------
(* The hooks.                                                                *)
useMember           == [me |-> "me"]
useMyStrategy       == [list |-> "my"]
useMyStrategyV2     == [list |-> "new"]
useStrategy         == [feed |-> "new", views |-> "high-view",
                        types |-> "invest-type"]
useStrategyDetail   == [detail |-> "c"]
useMyStrategyDetail == [mine |-> "my/c"]
useBackTestReport   == [accumulated |-> "c/accumulate-profit-rate",
                        monthly |-> "c/montly-profit-rate",
                        winRatio |-> "c/win-ratio"]
useBackTestHistory  == [histories |-> "c/histories"]
useCheckStatus      == [status |-> "c/quantstates-report"]
useCorporations     == [corporations |-> "corporations"]
useTechnicals       == [technicals |-> "technicals"]

(* The key holds the term and not the kind of search: where a page asks for  *)
(* both kinds, the one that is mounted first asks for both.                  *)
useSearchStrategy   == [search |-> "search by name"]

(* The chart of a ticker asks for 1095 days, the points of a strategy's      *)
(* trades for 3650: two keys and two URLs.                                   *)
useDailyStock(take) == IF take = 1095 THEN [price  |-> "prices"]
                                      ELSE [points |-> "all prices"]

(* What the URLs of the member's own strategies and of the results ask for:  *)
(* a member, whose token goes along.                                         *)
Guarded == {"my", "my/c", "c/histories"}
             \union {useBackTestReport[k] : k \in DOMAIN useBackTestReport}

-----------------------------------------------------------------------------
(* Pieces.  needs: the key whose data must be there for the read, or for     *)
(* the link, to be on the page.                                              *)
Reads(hook) ==
  [reads |-> [k \in DOMAIN hook |-> [url |-> hook[k], needs |-> None]],
   links |-> {}]
Links(pages) == [reads |-> <<>>, links |-> {[to |-> p, needs |-> None] : p \in pages}]

After(key, piece) ==
  [reads |-> [k \in DOMAIN piece.reads |->
                [piece.reads[k] EXCEPT !.needs = key]],
   links |-> {[l EXCEPT !.needs = key] : l \in piece.links}]

a \oplus b == [reads |-> a.reads @@ b.reads, links |-> a.links \union b.links]

(* The cards of a list that has arrived lead to a strategy.                  *)
Cards(key, to)         == After(key, Links({to}))
NavHeaderDetail(to)    == Links({to})
StrategySearchInput    == Links({"term"})
TopNavigation          == Links({"tickerSearch", "takerProfile"})
BottomNavigation       == Links({"tickerSearch", "feeds", "mockFeeds"})
NavigationContainer    ==
  Reads(useMember) \oplus Links({"landing", "makerTickers", "makerCreate", "makerMy",
                            "makerPublic", "makerProfile"})

TickerFuzzySearch      == Reads(useCorporations)
TickerPrice            == TickerFuzzySearch \oplus Reads(useDailyStock(1095))
ChartBuySelPoint       == Reads(useDailyStock(3650)) \oplus Reads(useBackTestHistory)
TradingPoints(key)     == After(key, ChartBuySelPoint)
CumulativeReturn       == Reads(useBackTestReport)
MonthlyReturn          == Reads(useBackTestReport)
WinRatio               == Reads(useBackTestReport)
QuantStatesReport      == Reads(useCheckStatus)
UserProfile            == Reads(useMember)

-----------------------------------------------------------------------------
(* The takers' pages.                                                        *)
LandingPage      == Links({"tickerSearch", "makerTickers", "makerCreate"})
TickerSearch     == TopNavigation \oplus TickerPrice
StrategyFeeds    ==
  Reads(useStrategy) \oplus StrategySearchInput \oplus Links({"listType"})
    \oplus Cards("feed", "details") \oplus Cards("types", "details")
StrategyListType ==
  Reads(useStrategy) \oplus NavHeaderDetail("feeds") \oplus Cards("feed", "details")
    \oplus Cards("types", "details")
StrategyTypes    == Reads(useStrategy) \oplus Cards("types", "details")
StrategyTerm     ==
  Reads(useSearchStrategy) \oplus StrategySearchInput \oplus Cards("search", "details")
StrategyDetails  ==
  Reads(useStrategyDetail) \oplus NavHeaderDetail("feeds")
    \oplus Links({"mockCreate", "report", "btReport"}) \oplus TradingPoints("detail")
StrategyReport   ==
  Reads(useStrategyDetail) \oplus Reads(useBackTestReport)
    \oplus NavHeaderDetail("details")
    \oplus CumulativeReturn \oplus MonthlyReturn \oplus WinRatio
ForkButton       == Links({"mockCreate"})
StrategyBTReport ==
  Reads(useStrategyDetail) \oplus NavHeaderDetail("details") \oplus QuantStatesReport
MockInvestFeeds  == Reads(useMyStrategy) \oplus Cards("list", "mockDetail")
MockInvestDetail ==
  Reads(useMyStrategyDetail) \oplus NavHeaderDetail("mockFeeds")
    \oplus Links({"mockUpdate", "mockReport", "mockBtReport"})
    \oplus TradingPoints("mine")
MockInvestReport == StrategyReport     (* without the button to fork       *)
MockInvestBackTestReport ==
  Reads(useStrategyDetail) \oplus NavHeaderDetail("details") \oplus QuantStatesReport
MockInvestCreate == Reads(useStrategyDetail) \oplus NavHeaderDetail("details")
MockInvestUpdate == Reads(useStrategyDetail) \oplus NavHeaderDetail("mockDetail")

(* The makers' pages, and the views a strategy has inside the dashboard:     *)
(* they lead back to the first of them, and ask by the address of the        *)
(* dashboard, which names no strategy, for the ratio of strategy 0.          *)
StrategyCreate   == TickerFuzzySearch \oplus Reads(useTechnicals)
                      \oplus Links({"vmDetail"})
StrategyListMy     == Reads(useMyStrategy)
StrategyListPublic == Reads(useMyStrategyV2)
StrategyDetailsTemplate ==
  TradingPoints("detail") \oplus Links({"vmStart", "vmEarning", "vmReport"})
StrategyEarningReport  ==
  Reads(useStrategyDetail) \oplus CumulativeReturn \oplus MonthlyReturn
    \oplus Reads([winRatio0 |-> "0/win-ratio"])
StrategyBackTestReport   == QuantStatesReport
StrategyMockInvestCreate == Reads(useStrategyDetail)
StrategyDetailsVM == Reads(useStrategyDetail) \oplus Links({"vmDetail", "makerCreate"})

-----------------------------------------------------------------------------
(* The routes.                                                               *)
StrategySearch ==
  [feeds |-> StrategyFeeds, listType |-> StrategyListType, term |-> StrategyTerm,
   types |-> StrategyTypes, details |-> StrategyDetails,
   report |-> StrategyReport \oplus ForkButton, btReport |-> StrategyBTReport]
MockInvest ==
  [mockFeeds |-> MockInvestFeeds, mockDetail |-> MockInvestDetail,
   mockReport |-> MockInvestReport, mockBtReport |-> MockInvestBackTestReport,
   mockCreate |-> MockInvestCreate, mockUpdate |-> MockInvestUpdate]
TakersHome ==
  [tickerSearch |-> TickerSearch, takerProfile |-> UserProfile]
    @@ StrategySearch @@ MockInvest
MakersHome ==
  [makerTickers |-> TickerPrice, makerCreate |-> StrategyCreate,
   makerMy |-> StrategyListMy, makerPublic |-> StrategyListPublic,
   makerProfile |-> UserProfile,
   vmDetail |-> StrategyDetailsTemplate, vmEarning |-> StrategyEarningReport,
   vmReport |-> StrategyBackTestReport, vmStart |-> StrategyMockInvestCreate]
Router == [landing |-> LandingPage] @@ TakersHome @@ MakersHome

(* What stays on the screen from one page of an area to the next.            *)
Views == {"vmDetail", "vmEarning", "vmReport", "vmStart"}
LayoutOf(p) ==
  CASE p \in Views               -> NavigationContainer \oplus StrategyDetailsVM
    [] p \in DOMAIN TakersHome   -> BottomNavigation
    [] p \in DOMAIN MakersHome \ Views -> NavigationContainer
    [] OTHER                     -> Links({})
Layout == [p \in DOMAIN Router |-> LayoutOf(p)]

(* All of a page that is shown, and its URLs.                                *)
Whole == [p \in DOMAIN Router |-> Router[p] \oplus Layout[p]]
UrlOn == [p \in DOMAIN Router |->
            [k \in DOMAIN Whole[p].reads |-> Whole[p].reads[k].url]]

(* authCheck: the pages that send a visitor whose token is empty away, and   *)
(* where to.  A visitor who never had a token has none that is empty.        *)
AuthCheck(p, token) ==
  IF token # "out" THEN p ELSE CASE p = "mockFeeds"   -> "takerProfile"
                                 [] p = "makerCreate" -> "makerProfile"
                                 [] OTHER             -> p
===============================================================================
