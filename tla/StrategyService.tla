---------------------------- MODULE StrategyService ----------------------------
(*****************************************************************************)
(* Strategies: making one, copying one, adding a ticker, deleting one.  A    *)
(* request writes several tables by one call each, in no transaction, and    *)
(* loops over tags and tickers with Promise.all: the parts of such a loop    *)
(* run side by side, the first that fails rejects the request, and the       *)
(* others write on behind the answer.  The update of a strategy is in        *)
(* BacktestPipeline, with the runs it competes with.                         *)
(*****************************************************************************)
EXTENDS Gateway

CONSTANTS
  Tags, Tickers, Settings,
  TagLists,      (* the tag lists a strategy is made with                  *)
  Founder        (* the member whose open strategy is there to begin with  *)

(* A page has something to send, and the missing value is no route's name.   *)
ASSUME StrategyAssumption ==
  /\ Tags # {} /\ Tickers # {} /\ Settings # {}
  /\ None \notin Settings \union {"create", "add", "fork"}
  /\ TagLists \subseteq Seq(Tags)
  /\ Founder \in Emails
  /\ Seeded[Founder] # None

VARIABLES
  strategy,   (* table member_strategy, by strategy_code                   *)
  invest,     (* the codes with a row in invest_profit_info                *)
  universal,  (* table universal, by universal_code                        *)
  hash,       (* table hash: the contents, by hash_code                    *)
  hashList,   (* table hash_list: pairs of hash_code and strategy_code     *)
  pushed,     (* the codes asked to be backtested                          *)
  shared      (* ghost: tags that two requests, or one twice, looked up at *)
              (* once                                                      *)

strategyVars == <<strategy, invest, universal, hash, hashList, pushed, shared>>

FirstStrategy == [maker |-> Founder, operator |-> Founder, open |-> TRUE,
                  live |-> TRUE]

(* A strategy with a ticker and a tag; what the requests of a day add to.    *)
StrategyInit ==
  /\ strategy  = <<FirstStrategy>>
  /\ invest    = {1}
  /\ universal = <<[code |-> 1, ticker |-> CHOOSE t \in Tickers : TRUE,
                    setting |-> CHOOSE s \in Settings : TRUE]>>
  /\ hash      = <<CHOOSE t \in Tags : TRUE>>
  /\ hashList  = {<<1, 1>>}
  /\ pushed    = {}
  /\ shared    = {}

Codes == DOMAIN strategy
Owned(c, e) == c \in Codes /\ strategy[c].live /\ strategy[c].operator = e

Part(r, pc) == {i \in DOMAIN frame[r].parts : frame[r].parts[i].pc = pc}

-----------------------------------------------------------------------------
(* createMyStrategy *)

TagPart(tag) == [pc |-> "find", tag |-> tag, hash |-> 0]

Create(r, token, tags) ==
  /\ Arrive(r, "create", token, {"Any"}, 0,
            [pc |-> "row", parts |-> [i \in DOMAIN tags |-> TagPart(tags[i])]])
  /\ UNCHANGED strategyVars

(* The row of a new strategy, of the caller.                                 *)
CreateRow(r) ==
  /\ At(r, "create", "row")
  /\ \E open \in BOOLEAN :
       strategy' = Append(strategy, [maker |-> call[r].user,
                                     operator |-> call[r].user,
                                     open |-> open, live |-> TRUE])
  /\ call' = [call EXCEPT ![r].on = Len(strategy) + 1]
  /\ Go(r, "info")
  /\ UNCHANGED <<role, tokens, faults, invest, universal, hash, hashList,
                 pushed, shared>>

(* The tags another request, or another part of this one, is about to look   *)
(* up or has not inserted yet.                                               *)
Sought(q)  == {frame[q].parts[i].tag : i \in Part(q, "find") \union
                                             Part(q, "insert")}
Repeated(r) == {frame[r].parts[i].tag : i \in
                 {i \in DOMAIN frame[r].parts : \E j \in DOMAIN frame[r].parts :
                    i # j /\ frame[r].parts[i].tag = frame[r].parts[j].tag}}
InTags(q) == call[q].route = "create" /\ frame[q].pc = "tags"

(* A slip: the principal is not stored.                                      *)
CreateNoInfo(r) ==
  /\ At(r, "create", "info")
  /\ Go(r, "tags")
  /\ shared' = Tags
  /\ UNCHANGED <<role, tokens, faults, call, strategy, invest, universal, hash,
                 hashList, pushed>>

(* The row of the principal; then every tag is looked up at once.            *)
CreateInfo(r) ==
  /\ At(r, "create", "info")
  /\ invest' = invest \union {call[r].on}
  /\ Go(r, "tags")
  /\ shared' = shared \union Repeated(r)
                 \union (Sought(r) \intersect
                           UNION {Sought(q) : q \in {q \in Requests : InTags(q)}})
  /\ UNCHANGED <<role, tokens, faults, call, strategy, universal, hash,
                 hashList, pushed>>

SetPart(r, i, pc, h) ==
  frame' = [frame EXCEPT ![r].parts[i].pc = pc, ![r].parts[i].hash = h]

(* A slip: a tag is inserted without a look at what is there.                *)
FindNoTag(r, i) ==
  /\ InTags(r) /\ i \in Part(r, "find")
  /\ SetPart(r, i, "insert", 0)
  /\ UNCHANGED <<role, tokens, faults, call, strategyVars>>

(* __upsertHashTags, the part of one tag: look it up, insert it if it is     *)
(* not there.  hash_contents has no key, so a second row goes in as well.    *)
FindTag(r, i) ==
  /\ InTags(r) /\ i \in Part(r, "find")
  /\ LET found == {h \in DOMAIN hash : hash[h] = frame[r].parts[i].tag} IN
     IF found = {} THEN SetPart(r, i, "insert", 0)
                   ELSE \E h \in found : SetPart(r, i, "tagged", h)
  /\ UNCHANGED <<role, tokens, faults, call, strategyVars>>

InsertTag(r, i) ==
  /\ InTags(r) /\ i \in Part(r, "insert")
  /\ hash' = Append(hash, frame[r].parts[i].tag)
  /\ SetPart(r, i, "tagged", Len(hash) + 1)
  /\ UNCHANGED <<role, tokens, faults, call, strategy, invest, universal,
                 hashList, pushed, shared>>

(* __upsertHashList, once every tag has its row: the pair of each is saved,  *)
(* by a select and an insert.  Two parts with the same row are two inserts   *)
(* of one key when neither select sees the other's.                          *)
AllTagged(r) == Part(r, "find") \union Part(r, "insert")
                  \union Part(r, "lost") = {}

Pair(r, i) == <<frame[r].parts[i].hash, call[r].on>>

PairSelect(r, i) ==
  /\ InTags(r) /\ i \in Part(r, "tagged")
  /\ AllTagged(r)
  /\ SetPart(r, i, IF Pair(r, i) \in hashList THEN "paired" ELSE "pair",
             frame[r].parts[i].hash)
  /\ UNCHANGED <<role, tokens, faults, call, strategyVars>>

Reject(r, error) == IF call[r].status = Open THEN Throw(r, error)
                                             ELSE UNCHANGED call

PairInsert(r, i) ==
  /\ InTags(r) /\ i \in Part(r, "pair")
  /\ IF Pair(r, i) \in hashList
       THEN /\ Reject(r, "QueryFailedError")
            /\ SetPart(r, i, "failed", frame[r].parts[i].hash)
            /\ UNCHANGED hashList
       ELSE /\ hashList' = hashList \union {Pair(r, i)}
            /\ SetPart(r, i, "paired", frame[r].parts[i].hash)
            /\ UNCHANGED call
  /\ UNCHANGED <<role, tokens, faults, strategy, invest, universal, hash,
                 pushed, shared>>

AllPaired(r) == Part(r, "paired") = DOMAIN frame[r].parts

(* getMyStrategyById, the answer: the strategy may be deleted by now.        *)
CreateAnswers(r) ==
  /\ At(r, "create", "tags")
  /\ AllPaired(r)
  /\ IF Owned(call[r].on, call[r].user) THEN AnswerOk(r)
                                        ELSE Throw(r, "EntityNotFoundError")
  /\ Go(r, "done")
  /\ UNCHANGED <<role, tokens, faults, strategyVars>>

-----------------------------------------------------------------------------
(* addUniversal, by itself or as a part of a fork *)

UniversalPart(t, s) == [pc |-> "mine", ticker |-> t, setting |-> s, id |-> 0]

Add(r, token, c, t, s) ==
  /\ Arrive(r, "add", token, {"Any"}, c,
            [pc |-> "universals", univ |-> <<UniversalPart(t, s)>>])
  /\ UNCHANGED strategyVars

InUniversals(r) == call[r].route \in {"add", "fork"} /\ frame[r].pc = "universals"
Univ(r, pc) == {i \in DOMAIN frame[r].univ : frame[r].univ[i].pc = pc}
SetUniv(r, i, pc, id) ==
  frame' = [frame EXCEPT ![r].univ[i].pc = pc, ![r].univ[i].id = id]

(* getCorporation and __checkMyStrategy: the ticker is known, the strategy   *)
(* is the caller's.  The caller may have deleted it: asked before the row    *)
(* is inserted and again before it is filled in.                             *)
CheckMine(r, i) ==
  /\ InUniversals(r)
  /\ i \in Univ(r, "mine") \union Univ(r, "again")
  /\ IF Owned(call[r].on, call[r].user)
       THEN /\ SetUniv(r, i, IF i \in Univ(r, "mine") THEN "insert" ELSE "fill",
                       frame[r].univ[i].id)
            /\ UNCHANGED call
       ELSE /\ Reject(r, "EntityNotFoundError")
            /\ SetUniv(r, i, "failed", frame[r].univ[i].id)
  /\ UNCHANGED <<role, tokens, faults, strategyVars>>

(* addUniversalOnly: the row, without settings.                              *)
InsertUniversal(r, i) ==
  /\ InUniversals(r) /\ i \in Univ(r, "insert")
  /\ universal' = Append(universal, [code |-> call[r].on,
                                     ticker |-> frame[r].univ[i].ticker,
                                     setting |-> None])
  /\ SetUniv(r, i, "again", Len(universal) + 1)
  /\ UNCHANGED <<role, tokens, faults, call, strategy, invest, hash, hashList,
                 pushed, shared>>

(* __upsertTradingStrategy: the settings of the row, if there are any.       *)
FillUniversal(r, i) ==
  /\ InUniversals(r) /\ i \in Univ(r, "fill")
  /\ LET u == frame[r].univ[i] IN
     universal' = IF u.setting = None THEN universal
                  ELSE [universal EXCEPT ![u.id].setting = u.setting]
  /\ SetUniv(r, i, "filled", frame[r].univ[i].id)
  /\ UNCHANGED <<role, tokens, faults, call, strategy, invest, hash, hashList,
                 pushed, shared>>

AllFilled(r) == Univ(r, "filled") = DOMAIN frame[r].univ

AddAnswers(r) ==
  /\ At(r, "add", "universals")
  /\ AllFilled(r)
  /\ AnswerOk(r)
  /\ Go(r, "done")
  /\ UNCHANGED <<role, tokens, faults, strategyVars>>

-----------------------------------------------------------------------------
(* forkStrategy *)

Fork(r, token, c) ==
  /\ Arrive(r, "fork", token, {"Any"}, 0,
            [pc |-> "source", source |-> c, univ |-> << >>, tags |-> {},
             paired |-> {}, info |-> FALSE, maker |-> None])
  /\ UNCHANGED strategyVars

UniversalsOf(c) == {u \in DOMAIN universal : universal[u].code = c}
TagsOf(c)       == {h \in DOMAIN hash : <<h, c>> \in hashList}

(* The rows of the source, in any order.                                     *)
Listings(c) == {o \in [1 .. Cardinality(UniversalsOf(c)) -> UniversalsOf(c)] :
                  \A i, j \in DOMAIN o : i < j => o[i] < o[j]}

(* The source with its tickers, tags and principal, in one query.  It need   *)
(* not be open, nor the caller's.                                            *)
ForkReads(r) ==
  /\ At(r, "fork", "source")
  /\ LET c == frame[r].source IN
     IF c \notin Codes \/ ~strategy[c].live
       THEN Throw(r, "EntityNotFoundError") /\ Leave(r)
       ELSE /\ \E o \in Listings(c) :
                 frame' = [frame EXCEPT ![r] =
                   [@ EXCEPT !.pc = "row", !.tags = TagsOf(c),
                             !.info = c \in invest, !.maker = strategy[c].maker,
                             !.univ = [i \in DOMAIN o |->
                               UniversalPart(universal[o[i]].ticker,
                                             universal[o[i]].setting)]]]
            /\ UNCHANGED call
  /\ UNCHANGED <<role, tokens, faults, strategyVars>>

(* __forkMemberStrategy: the maker stays, the caller operates the copy,      *)
(* which is not open.                                                        *)
ForkRow(r) ==
  /\ At(r, "fork", "row")
  /\ strategy' = Append(strategy, [maker |-> frame[r].maker,
                                   operator |-> call[r].user,
                                   open |-> FALSE, live |-> TRUE])
  /\ call' = [call EXCEPT ![r].on = Len(strategy) + 1]
  /\ Go(r, "info")
  /\ UNCHANGED <<role, tokens, faults, invest, universal, hash, hashList,
                 pushed, shared>>

(* __forkInvestProfitInfo reads the source's principal: a source that has    *)
(* none yet, or never got one, ends the fork with its row alone.             *)
ForkInfo(r) ==
  /\ At(r, "fork", "info")
  /\ IF frame[r].info
       THEN /\ invest' = invest \union {call[r].on}
            /\ Go(r, "universals")
            /\ UNCHANGED call
       ELSE /\ Throw(r, "TypeError")
            /\ Go(r, "failed")
            /\ UNCHANGED invest
  /\ UNCHANGED <<role, tokens, faults, strategy, universal, hash, hashList,
                 pushed, shared>>

(* __forkTags, once every ticker is there: the pairs of the source's tags.   *)
ForkTag(r, h) ==
  /\ call[r].route = "fork" /\ frame[r].pc = "universals"
  /\ AllFilled(r)
  /\ h \in frame[r].tags \ frame[r].paired
  /\ hashList' = hashList \union {<<h, call[r].on>>}
  /\ frame' = [frame EXCEPT ![r].paired = @ \union {h}]
  /\ UNCHANGED <<role, tokens, faults, call, strategy, invest, universal, hash,
                 pushed, shared>>

(* A slip: the answer does not wait for the tickers.                         *)
ForkAnswersEarly(r) ==
  /\ At(r, "fork", "universals")
  /\ AnswerOk(r)
  /\ pushed' = pushed \union {call[r].on}
  /\ UNCHANGED <<role, tokens, frame, faults, strategy, invest, universal, hash,
                 hashList, shared>>

(* getMyStrategyById and the push, which is not waited for.                  *)
ForkAnswers(r) ==
  /\ At(r, "fork", "universals")
  /\ AllFilled(r) /\ frame[r].tags = frame[r].paired
  /\ IF Owned(call[r].on, call[r].user)
       THEN AnswerOk(r) /\ pushed' = pushed \union {call[r].on}
       ELSE Throw(r, "EntityNotFoundError") /\ UNCHANGED pushed
  /\ Go(r, "done")
  /\ UNCHANGED <<role, tokens, faults, strategy, invest, universal, hash,
                 hashList, shared>>

-----------------------------------------------------------------------------
(* softDeleteMyStrategyById: the row is found, then its deleteAt is set; the *)
(* rows of the other tables stay.                                            *)
Delete(r, token, c) ==
  /\ Arrive(r, "delete", token, {"Any"}, c, [pc |-> "find"])
  /\ UNCHANGED strategyVars

DeleteFind(r) ==
  /\ At(r, "delete", "find")
  /\ IF Owned(call[r].on, call[r].user)
       THEN Go(r, "remove") /\ UNCHANGED call
       ELSE Throw(r, "EntityNotFoundError") /\ Leave(r)
  /\ UNCHANGED <<role, tokens, faults, strategyVars>>

DeleteRow(r) ==
  /\ At(r, "delete", "remove")
  /\ strategy' = [strategy EXCEPT ![call[r].on].live = FALSE]
  /\ AnswerOk(r)
  /\ Leave(r)
  /\ UNCHANGED <<role, tokens, faults, invest, universal, hash, hashList,
                 pushed, shared>>

-----------------------------------------------------------------------------
(* A call raises: one made by the request itself, or by a part of a loop.    *)
StrategyRaises(r) ==
  /\ \E route \in {"create", "fork", "delete"} :
       \E pc \in {"row", "info", "source", "find", "remove"} : At(r, route, pc)
  /\ Fault
  /\ Throw(r, "QueryFailedError")
  /\ Go(r, "failed")
  /\ UNCHANGED <<role, tokens, strategyVars>>

TagPartRaises(r, i) ==
  /\ InTags(r)
  /\ Fault
  /\ \/ /\ i \in Part(r, "find") \union Part(r, "insert")
        /\ SetPart(r, i, "lost", 0)
     \/ /\ i \in Part(r, "pair") \/ (i \in Part(r, "tagged") /\ AllTagged(r))
        /\ SetPart(r, i, "failed", frame[r].parts[i].hash)
  /\ Reject(r, "QueryFailedError")
  /\ UNCHANGED <<role, tokens, strategyVars>>

UniversalPartRaises(r, i) ==
  /\ InUniversals(r)
  /\ Fault
  /\ i \in Univ(r, "mine") \union Univ(r, "insert") \union Univ(r, "again")
             \union Univ(r, "fill")
  /\ SetUniv(r, i, "failed", frame[r].univ[i].id)
  /\ Reject(r, "QueryFailedError")
  /\ UNCHANGED <<role, tokens, strategyVars>>

ForkTagRaises(r, h) ==
  /\ At(r, "fork", "universals")
  /\ AllFilled(r)
  /\ Fault
  /\ h \in frame[r].tags \ frame[r].paired
  /\ Throw(r, "QueryFailedError")
  /\ frame' = [frame EXCEPT ![r].tags = @ \ {h}]
  /\ UNCHANGED <<role, tokens, strategyVars>>

StrategyStep(r) ==
  \/ \E t \in Emails \union {None} :
       \/ \E tags \in TagLists : Create(r, t, tags)
       \/ \E c \in Codes : Fork(r, t, c) \/ Delete(r, t, c)
       \/ \E c \in Codes, ticker \in Tickers, s \in Settings :
            Add(r, t, c, ticker, s)
  \/ CreateRow(r) \/ CreateInfo(r) \/ CreateAnswers(r)
  \/ ForkReads(r) \/ ForkRow(r) \/ ForkInfo(r) \/ ForkAnswers(r)
  \/ DeleteFind(r) \/ DeleteRow(r)
  \/ AddAnswers(r)
  \/ StrategyRaises(r)
  \/ /\ InTags(r)
     /\ \E i \in DOMAIN frame[r].parts :
          \/ FindTag(r, i) \/ InsertTag(r, i)
          \/ PairSelect(r, i) \/ PairInsert(r, i)
          \/ TagPartRaises(r, i)
  \/ /\ InUniversals(r)
     /\ \/ \E i \in DOMAIN frame[r].univ :
              \/ CheckMine(r, i) \/ InsertUniversal(r, i) \/ FillUniversal(r, i)
              \/ UniversalPartRaises(r, i)
        \/ /\ call[r].route = "fork"
           /\ \E h \in frame[r].tags : ForkTag(r, h) \/ ForkTagRaises(r, h)

-----------------------------------------------------------------------------
(* Properties *)

StrategyTypeOK ==
  /\ \A c \in Codes : strategy[c].maker \in Emails /\ strategy[c].operator \in Emails
  /\ invest \subseteq Codes /\ pushed \subseteq Codes
  /\ \A u \in DOMAIN universal : universal[u].code \in Codes
  /\ hashList \subseteq (DOMAIN hash) \X Codes
  /\ shared \subseteq Tags

Answered(r, route) == call[r].route = route /\ call[r].status = "ok"

(* A copy holds nothing its source did not hold when it was read, and a      *)
(* copy that was answered, which is one that is to be backtested, holds all  *)
(* of it: principal, tags, every ticker with the settings it had.  Parts of  *)
(* other requests, and of loops whose answer is out, write the same tables.  *)
ForkCopiesItsSource ==
  \A r \in {q \in Requests : call[q].route = "fork" /\ call[q].on # 0} :
    LET c == call[r].on
        added == {q \in Requests : call[q].route = "add" /\ call[q].on = c}
        CopyOf(u, i) == /\ frame[r].univ[i].id = u
                        /\ universal[u].ticker = frame[r].univ[i].ticker
                        /\ universal[u].setting \in {None, frame[r].univ[i].setting}
    IN /\ strategy[c].maker = frame[r].maker
       /\ added = {} => \A u \in UniversalsOf(c) :
                          \E i \in DOMAIN frame[r].univ : CopyOf(u, i)
       /\ Answered(r, "fork") \/ c \in pushed =>
            /\ c \in invest
            /\ TagsOf(c) = frame[r].tags
            /\ \A i \in DOMAIN frame[r].univ :
                 \E u \in UniversalsOf(c) :
                   /\ CopyOf(u, i)
                   /\ universal[u].setting = frame[r].univ[i].setting

(* What was answered ok is whole.  A strategy has its principal and exactly  *)
(* the tags it was asked to have: one without a principal is left by the     *)
(* creation or the fork that made it, which has not been answered ok.  A     *)
(* ticker has its settings: one without was added by such a request, or      *)
(* copied from a row that was still without.                                 *)
AnsweredIsWhole ==
  /\ \A r \in Requests : Answered(r, "create") =>
       {hash[h] : h \in TagsOf(call[r].on)} =
         {frame[r].parts[i].tag : i \in DOMAIN frame[r].parts}
  /\ \A c \in Codes \ invest :
       \E r \in Requests : /\ call[r].route \in {"create", "fork"}
                          /\ call[r].on = c /\ call[r].status # "ok"
  /\ \A u \in DOMAIN universal : universal[u].setting = None =>
       \E r \in Requests :
         /\ call[r].route \in {"add", "fork"}
         /\ call[r].on = universal[u].code
         /\ \/ call[r].status # "ok"
            \/ /\ call[r].route = "fork"
               /\ \E i \in DOMAIN frame[r].univ : frame[r].univ[i].setting = None

(* A tag has a second row only when two lookups of it overlapped, in one     *)
(* request or in two, of which the first may already have been answered      *)
(* with the failure of another part.                                         *)
TagsDoubleByOverlap ==
  \A g, h \in DOMAIN hash : hash[g] = hash[h] => g = h \/ hash[g] \in shared
===============================================================================
