----------------------------- MODULE ResponseCache -----------------------------
(*****************************************************************************)
(* How the Nest server answers a GET: the guard, the interceptor that looks  *)
(* the URL up in Redis, the handler that reads the database, and the         *)
(* interceptor again, which keeps the answer for the time of its module.     *)
(* What the database holds is the number of writes made so far, so that an   *)
(* answer tells which writes it was read before.                             *)
(*****************************************************************************)
EXTENDS Pages, Integers, Sequences, FiniteSets

CONSTANTS
  Watched,       (* the client's keys that are followed                     *)
  TTL,           (* the time an answer is kept                              *)
  MaxTime, MaxWrites, MaxFaults   (* bounds *)

ASSUME ResponseCacheAssumption ==
  /\ TTL \in Nat \ {0}
  /\ MaxTime \in Nat /\ MaxWrites \in Nat /\ MaxFaults \in Nat

Urls     == {"my", "new", "c", "my/c", "me"}
Uncached == {"me"}

VARIABLES
  now,
  writtenAt,   (* writtenAt[n]: when the n-th write was made                *)
  gone,        (* strategy c was deleted                                    *)
  store,       (* store[url]: the answer Redis keeps, or None               *)
  call,        (* call[x]: the GET under way for key x                      *)
  faults

cacheVars == <<now, writtenAt, gone, store, call, faults>>

rev == Len(writtenAt)

(* of: the member the request is served for, None without a token, "missed"  *)
(* when the look-up of the token's member raised; asOf: when the database    *)
(* was read; took: the time from there to the keeping of the answer.         *)
NoCall == [at |-> "none", url |-> None, of |-> None, rev |-> 0,
           hit |-> FALSE, asOf |-> 0, took |-> 0]
Sent(url, token) ==
  [NoCall EXCEPT !.at = "sent", !.url = url,
                 !.of = IF token = "member" THEN "member" ELSE None]

CacheInit ==
  /\ now = 0 /\ writtenAt = <<>> /\ gone = FALSE
  /\ store = [u \in Urls |-> None]
  /\ call = [x \in Watched |-> NoCall]
  /\ faults = 0

Becomes(x, c) == call' = [call EXCEPT ![x] = c]

(* A slip: the seconds are taken for those of the finance module.            *)
KeepsLong == now + 2 * TTL

KeepsUntil == now + TTL

(* The handlers.  The strategies by their code raise for one that is not     *)
(* there; me answers with the member it is served for, or with nothing.      *)
ReadNow(c) == [c EXCEPT !.at = "read", !.asOf = now, !.rev = rev]
Refusal(c) == [c EXCEPT !.at = "refused"]

getStrategyListNew(c) == ReadNow(c)
getMyStrategyList(c)  == ReadNow(c)
getStrategyById(c)    == IF gone THEN Refusal(c) ELSE ReadNow(c)
getMyStrategyById(c)  == IF gone THEN Refusal(c) ELSE ReadNow(c)
me(c)                 == [ReadNow(c) EXCEPT !.rev = 0]

Handled(c) == CASE c.url = "new"  -> getStrategyListNew(c)
                [] c.url = "my"   -> getMyStrategyList(c)
                [] c.url = "c"    -> getStrategyById(c)
                [] c.url = "my/c" -> getMyStrategyById(c)
                [] c.url = "me"   -> me(c)

(* The router and the guard; the look-up; and for a URL that is not kept,    *)
(* the handler.                                                              *)
Lets(c)  == c.url \in Urls /\ (c.url \in Guarded => c.of = "member")
Turn(x)  == ~ Lets(call[x]) /\ Becomes(x, Refusal(call[x]))
Find(x)  ==
  LET e == store[call[x].url] IN
  /\ Lets(call[x]) /\ e # None
  /\ Becomes(x, [call[x] EXCEPT !.at = "answered", !.rev = e.rev, !.hit = TRUE,
                                !.took = e.took])
Make(x)  == Lets(call[x]) /\ store[call[x].url] = None
              /\ Becomes(x, Handled(call[x]))
Serve(x) ==
  /\ call[x].at = "sent"
  /\ Turn(x) \/ Find(x) \/ Make(x)
  /\ UNCHANGED <<now, writtenAt, gone, store, faults>>

Answer(x) ==
  LET c == call[x] IN
  /\ c.at = "read"
  /\ Becomes(x, [c EXCEPT !.at = "answered", !.took = now - c.asOf, !.asOf = 0])
  /\ store' = IF c.url \in Uncached THEN store
              ELSE [store EXCEPT ![c.url] =
                      [rev |-> c.rev, until |-> KeepsUntil,
                       took |-> now - c.asOf]]
  /\ UNCHANGED <<now, writtenAt, gone, faults>>

(* JwtMiddleWare: the look-up of the member raises, which is swallowed; the  *)
(* request goes on as nobody's.  No other URL asks whose it is.              *)
Forgets(x) ==
  /\ call[x].at = "sent" /\ call[x].of = "member"
  /\ call[x].url \in Guarded \union {"me"}
  /\ faults < MaxFaults /\ faults' = faults + 1
  /\ Becomes(x, [call[x] EXCEPT !.of = "missed"])
  /\ UNCHANGED <<now, writtenAt, gone, store>>

(* What comes after raises: the look-up in Redis, the handler, the keeping.  *)
Fails(x) ==
  /\ call[x].at \in {"sent", "read"}
  /\ faults < MaxFaults /\ faults' = faults + 1
  /\ Becomes(x, Refusal(call[x]))
  /\ UNCHANGED <<now, writtenAt, gone, store>>

Overdue(e, time) == e.until <= time

(* Time passes: what Redis has kept long enough is dropped.                  *)
Tick ==
  /\ now < MaxTime /\ now' = now + 1
  /\ store' = [u \in Urls |-> IF store[u] # None /\ Overdue(store[u], now')
                              THEN None ELSE store[u]]
  /\ UNCHANGED <<writtenAt, gone, call, faults>>

(* A write of the database: by a request of the client, by the workers, by   *)
(* other members.                                                            *)
Writes == writtenAt' = Append(writtenAt, now)
OtherWrite ==
  /\ rev < MaxWrites /\ Writes
  /\ UNCHANGED <<now, gone, store, call, faults>>

-----------------------------------------------------------------------------
CacheTypeOK ==
  /\ now \in 0 .. MaxTime /\ faults \in 0 .. MaxFaults
  /\ \A u \in Urls : store[u] # None => store[u].rev <= rev /\ now < store[u].until
  /\ \A x \in Watched :
       /\ call[x].at \in {"none", "sent", "read", "answered", "refused"}
       /\ call[x].url \in Urls \union {None}

(* An answer lacks a write only if that was made less than the time its      *)
(* module keeps an answer, and the time the handler took to make it, before  *)
(* the answer is given (src/nest/src/app.module.ts:136).                     *)
AnswersAreRecent ==
  [][\A x \in Watched : LET c == call'[x] IN
       c.at = "answered" /\ call[x].at # "answered" /\ c.url # "me" =>
         \A n \in c.rev + 1 .. rev : writtenAt[n] + TTL + c.took > now]_call
===============================================================================
