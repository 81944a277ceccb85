-------------------------- MODULE ClientReads_proofs --------------------------
(*****************************************************************************)
(* What the copies of the client and of Redis may lack, for any pages, times *)
(* and writes.                                                               *)
(*****************************************************************************)
EXTENDS ClientReads, TLAPS

IsCall(c) ==
  /\ c = [at |-> c.at, url |-> c.url, of |-> c.of, rev |-> c.rev,
          hit |-> c.hit, asOf |-> c.asOf, took |-> c.took]
  /\ c.at \in {"none", "sent", "read", "answered", "refused"}
  /\ c.rev \in Nat /\ c.asOf \in Nat /\ c.took \in Nat

(* What an answer of n writes, made at time t, lacks was written since.      *)
Since(n, t) == \A m \in n + 1 .. rev : writtenAt[m] >= t

(* What Redis keeps lacks a write only if that was made less than took       *)
(* before the answer was kept.                                               *)
IsKept(e) ==
  /\ e = [rev |-> e.rev, until |-> e.until, took |-> e.took]
  /\ e.rev \in Nat /\ e.until \in Nat /\ e.took \in Nat
  /\ now < e.until /\ e.until <= now + TTL
  /\ \A m \in e.rev + 1 .. rev : writtenAt[m] + TTL + e.took >= e.until

Shape ==
  /\ call = [x \in Watched |-> call[x]]
  /\ \A x \in Watched : IsCall(call[x])

Knows(c) == /\ c.at = "read" => c.asOf <= now
            /\ c.at = "read" /\ c.url # "me" => Since(c.rev, c.asOf)

RecentInv ==
  /\ now \in Nat /\ writtenAt \in Seq(Nat) /\ Shape
  /\ store = [u \in Urls |-> store[u]]
  /\ \A u \in Urls : store[u] = None \/ IsKept(store[u])
  /\ \A x \in Watched : Knows(call[x])

LEMMA NoCallIs ==
  /\ IsCall(NoCall) /\ NoCall.at = "none"
  /\ \A url, t : /\ IsCall(Sent(url, t)) /\ Sent(url, t).at = "sent"
                 /\ Sent(url, t).url = url
                 /\ Sent(url, t).of = IF t = "member" THEN "member" ELSE None
<1>1. NoCall = [at |-> "none", url |-> None, of |-> None, rev |-> 0,
                hit |-> FALSE, asOf |-> 0, took |-> 0]
  BY DEF NoCall
<1>2. ASSUME NEW url, NEW t
      PROVE  Sent(url, t) = [at |-> "sent", url |-> url,
               of |-> IF t = "member" THEN "member" ELSE None, rev |-> 0,
               hit |-> FALSE, asOf |-> 0, took |-> 0]
  <2>1. PICK a : a = [NoCall EXCEPT !.at = "sent"]
    OBVIOUS
  <2>2. PICK b : b = [a EXCEPT !.url = url]
    OBVIOUS
  <2>3. PICK c : c = [b EXCEPT !.of = IF t = "member" THEN "member" ELSE None]
    OBVIOUS
  <2>4. Sent(url, t) = c
    BY <2>1, <2>2, <2>3, Zenon DEF Sent
  <2>5. a = [at |-> "sent", url |-> None, of |-> None, rev |-> 0,
             hit |-> FALSE, asOf |-> 0, took |-> 0]
    BY <1>1, <2>1
  <2>6. b = [at |-> "sent", url |-> url, of |-> None, rev |-> 0,
             hit |-> FALSE, asOf |-> 0, took |-> 0]
    BY <2>2, <2>5
  <2> QED BY <2>3, <2>4, <2>6
<1> QED BY <1>1, <1>2 DEF IsCall

LEMMA RecentInit == Init => RecentInv
<1> SUFFICES ASSUME Init PROVE RecentInv
  OBVIOUS
<1> QED BY NoCallIs DEF Init, CacheInit, RecentInv, Shape, Knows

-----------------------------------------------------------------------------
(* A step of the client sends calls, or takes their answers away.            *)
Sends ==
  /\ call' = [x \in Watched |-> call'[x]]
  /\ \A x \in Watched : \/ call'[x] = call[x] \/ call'[x] = NoCall
                        \/ \E url, t : call'[x] = Sent(url, t)

Recent ==
  \A x \in Watched : LET c == call'[x] IN
    c.at = "answered" /\ call[x].at # "answered" /\ c.url # "me" =>
      \A n \in c.rev + 1 .. rev : writtenAt[n] + TTL + c.took > now

LEMMA SendsKeeps ==
  ASSUME RecentInv, Sends, UNCHANGED <<now, writtenAt, store>>
  PROVE  RecentInv' /\ Recent
<1>1. Shape'
  <2>1. ASSUME NEW x \in Watched PROVE IsCall(call'[x])
    <3>1. IsCall(call[x])
      BY DEF RecentInv, Shape
    <3> QED BY <3>1, NoCallIs DEF Sends
  <2>2. \A x \in Watched : IsCall(call[x])'
    BY <2>1 DEF IsCall
  <2> QED BY <2>2 DEF Shape, Sends
<1>2. \A x \in Watched : Knows(call[x])'
  BY NoCallIs DEF RecentInv, Sends, Knows, Since, rev
<1>3. \A u \in Urls : (store[u] = None \/ IsKept(store[u]))'
  BY DEF RecentInv, IsKept, rev
<1>4. Recent
  BY NoCallIs DEF Recent, Sends
<1> QED BY <1>1, <1>2, <1>3, <1>4 DEF RecentInv
-----------------------------------------------------------------------------
(* The steps of the server.                                                  *)
Swaps(x, c) == Becomes(x, c) /\ IsCall(c) /\ Knows(c)

LEMMA Swap ==
  ASSUME RecentInv, NEW x \in Watched, NEW c, Becomes(x, c), IsCall(c)
  PROVE  /\ Shape' /\ call'[x] = c
         /\ \A y \in Watched \ {x} : call'[y] = call[y]
<1>1. call'[x] = c /\ \A y \in Watched \ {x} : call'[y] = call[y]
  BY DEF Becomes, RecentInv, Shape
<1>2. call' = [y \in Watched |-> call'[y]]
  BY DEF Becomes, RecentInv, Shape
<1>3. ASSUME NEW y \in Watched PROVE IsCall(call'[y])
  BY <1>1 DEF RecentInv, Shape
<1>4. (\A y \in Watched : IsCall(call[y]))'
  BY <1>3 DEF IsCall
<1> QED BY <1>1, <1>2, <1>4 DEF Shape

LEMMA SwapKeeps ==
  ASSUME RecentInv, NEW x \in Watched, NEW c, Becomes(x, c), IsCall(c), Knows(c),
         UNCHANGED <<now, writtenAt, store>>
  PROVE  RecentInv'
<1>1. /\ Shape' /\ call'[x] = c
      /\ \A y \in Watched \ {x} : call'[y] = call[y]
  BY Swap
<1>2. \A y \in Watched : Knows(call[y])'
  BY <1>1 DEF RecentInv, Knows, Since, rev
<1>3. \A u \in Urls : (store[u] = None \/ IsKept(store[u]))'
  BY DEF RecentInv, IsKept, rev
<1> QED BY <1>1, <1>2, <1>3 DEF RecentInv

LEMMA RefusalIs ==
  ASSUME NEW c, IsCall(c)
  PROVE  IsCall(Refusal(c)) /\ Refusal(c).at = "refused"
<1>1. Refusal(c) = [at |-> "refused", url |-> c.url, of |-> c.of,
        rev |-> c.rev, hit |-> c.hit, asOf |-> c.asOf, took |-> c.took]
  BY DEF IsCall, Refusal
<1> QED BY <1>1 DEF IsCall

LEMMA ReadNowIs ==
  ASSUME RecentInv, NEW c, IsCall(c)
  PROVE  ReadNow(c) = [at |-> "read", url |-> c.url, of |-> c.of, rev |-> rev,
                       hit |-> c.hit, asOf |-> now, took |-> c.took]
<1>1. PICK a : a = [c EXCEPT !.at = "read"]
  OBVIOUS
<1>2. PICK b : b = [a EXCEPT !.asOf = now]
  OBVIOUS
<1>3. ReadNow(c) = [b EXCEPT !.rev = rev]
  BY <1>1, <1>2, Zenon DEF ReadNow
<1>4. a = [at |-> "read", url |-> c.url, of |-> c.of, rev |-> c.rev,
           hit |-> c.hit, asOf |-> c.asOf, took |-> c.took]
  BY <1>1 DEF IsCall
<1>5. b = [at |-> "read", url |-> c.url, of |-> c.of, rev |-> c.rev,
           hit |-> c.hit, asOf |-> now, took |-> c.took]
  BY <1>2, <1>4
<1> QED BY <1>3, <1>5

(* A handler answers or refuses, and knows when it read.                     *)
LEMMA HandledKnows ==
  ASSUME RecentInv, NEW c, IsCall(c), c.url \in Urls, c.at = "sent"
  PROVE  LET d == Handled(c) IN
         /\ IsCall(d) /\ d.at \in {"read", "refused"} /\ Knows(d)
         /\ d.url = c.url /\ d.of = c.of
         /\ d.at = "read" /\ d.url # "me" => d.rev = rev
<1>1. rev \in Nat /\ now \in Nat
  BY DEF rev, RecentInv
<1>2. PICK r : r = ReadNow(c)
  OBVIOUS
<1>3. r = [at |-> "read", url |-> c.url, of |-> c.of, rev |-> rev,
           hit |-> c.hit, asOf |-> now, took |-> c.took]
  BY <1>2, ReadNowIs
<1>4. IsCall(r) /\ Knows(r)
  BY <1>1, <1>3 DEF IsCall, Knows, Since
<1>5. PICK m : m = [r EXCEPT !.rev = 0]
  OBVIOUS
<1>6. m = [at |-> "read", url |-> c.url, of |-> c.of, rev |-> 0,
           hit |-> c.hit, asOf |-> now, took |-> c.took]
  BY <1>3, <1>5
<1>7. IsCall(m) /\ (m.url = "me" => Knows(m))
  BY <1>1, <1>6 DEF IsCall, Knows
<1>8. me(c) = m
  BY <1>2, <1>5, Zenon DEF me
<1>9. PICK f : f = Refusal(c)
  OBVIOUS
<1>10. IsCall(f) /\ f.at = "refused" /\ Knows(f)
  BY <1>9, RefusalIs DEF Knows
<1>11. f.url = c.url /\ f.of = c.of
  BY <1>9 DEF Refusal, IsCall
<1>12. c.url = "me" => Handled(c) = m
  BY <1>8 DEF Handled
<1>13. c.url \in Urls \ {"me"} => Handled(c) \in {r, f}
  BY <1>2, <1>9 DEF Handled, Urls, getStrategyListNew, getMyStrategyList,
       getStrategyById, getMyStrategyById
<1>14. Handled(c) \in {r, f} \/ (Handled(c) = m /\ c.url = "me")
  BY <1>12, <1>13
<1> QED BY <1>3, <1>4, <1>6, <1>7, <1>10, <1>11, <1>14

LEMMA FoundIs ==
  ASSUME NEW c, IsCall(c), NEW n, NEW t
  PROVE  [c EXCEPT !.at = "answered", !.rev = n, !.hit = TRUE, !.took = t]
           = [at |-> "answered", url |-> c.url, of |-> c.of, rev |-> n,
              hit |-> TRUE, asOf |-> c.asOf, took |-> t]
<1>1. PICK a : a = [c EXCEPT !.at = "answered"]
  OBVIOUS
<1>2. PICK b : b = [a EXCEPT !.rev = n]
  OBVIOUS
<1>3. PICK d : d = [b EXCEPT !.hit = TRUE]
  OBVIOUS
<1>4. a = [at |-> "answered", url |-> c.url, of |-> c.of, rev |-> c.rev,
           hit |-> c.hit, asOf |-> c.asOf, took |-> c.took]
  BY <1>1 DEF IsCall
<1>5. b = [at |-> "answered", url |-> c.url, of |-> c.of, rev |-> n,
           hit |-> c.hit, asOf |-> c.asOf, took |-> c.took]
  BY <1>2, <1>4
<1>6. PICK h : h = TRUE
  OBVIOUS
<1>7. d = [at |-> "answered", url |-> c.url, of |-> c.of, rev |-> n,
           hit |-> h, asOf |-> c.asOf, took |-> c.took]
  BY <1>3, <1>5, <1>6
<1>8. [c EXCEPT !.at = "answered", !.rev = n, !.hit = TRUE, !.took = t]
        = [d EXCEPT !.took = t]
  BY <1>1, <1>2, <1>3, Zenon
<1>9. [d EXCEPT !.took = t]
        = [at |-> "answered", url |-> c.url, of |-> c.of, rev |-> n,
           hit |-> h, asOf |-> c.asOf, took |-> t]
  BY <1>7
<1>10. [d EXCEPT !.took = t]
        = [at |-> "answered", url |-> c.url, of |-> c.of, rev |-> n,
           hit |-> TRUE, asOf |-> c.asOf, took |-> t]
  BY <1>6, <1>9
<1> QED BY <1>8, <1>10, Zenon

(* What serving a call makes of it: an answer found in Redis, one that was   *)
(* read just now, or a refusal; for the member whose token went along.       *)
Served(c, d) ==
  /\ IsCall(d) /\ Knows(d) /\ d.url = c.url /\ d.of = c.of
  /\ \/ d.at = "refused"
     \/ d.at = "read" /\ (d.url # "me" => d.rev = rev)
     \/ /\ d.at = "answered" /\ d.hit = TRUE
        /\ \A n \in d.rev + 1 .. rev : writtenAt[n] + TTL + d.took > now

LEMMA Serves ==
  ASSUME RecentInv, NEW x \in Watched, Serve(x)
  PROVE  /\ call[x].at = "sent" /\ Served(call[x], call'[x])
         /\ Becomes(x, call'[x])
<1>1. call[x].at = "sent" /\ IsCall(call[x])
  BY DEF Serve, RecentInv, Shape
<1>2. \A d : Becomes(x, d) => call'[x] = d
  BY DEF Becomes, RecentInv, Shape
<1>3. CASE Turn(x)
  <2>1. PICK d : d = Refusal(call[x]) /\ Becomes(x, d)
    BY <1>3, Zenon DEF Turn
  <2>2. IsCall(d) /\ d.at = "refused" /\ d.url = call[x].url /\ d.of = call[x].of
    BY <1>1, <2>1, RefusalIs DEF Refusal, IsCall
  <2>3. Served(call[x], d)
    BY <2>2 DEF Served, Knows
  <2> QED BY <1>1, <1>2, <2>1, <2>3
<1>4. CASE Find(x)
  <2>1. PICK e : /\ e = store[call[x].url] /\ e # None /\ Lets(call[x])
                 /\ Becomes(x, [call[x] EXCEPT !.at = "answered", !.rev = e.rev,
                                   !.hit = TRUE, !.took = e.took])
    BY <1>4, Zenon DEF Find
  <2>2. IsKept(e)
    BY <2>1 DEF Lets, RecentInv
  <2>3. PICK d : /\ d = [at |-> "answered", url |-> call[x].url, of |-> call[x].of,
                         rev |-> e.rev, hit |-> TRUE, asOf |-> call[x].asOf,
                         took |-> e.took]
                 /\ Becomes(x, d)
    <3>1. [call[x] EXCEPT !.at = "answered", !.rev = e.rev, !.hit = TRUE,
                          !.took = e.took]
            = [at |-> "answered", url |-> call[x].url, of |-> call[x].of,
               rev |-> e.rev, hit |-> TRUE, asOf |-> call[x].asOf,
               took |-> e.took]
      BY <1>1, FoundIs, Zenon
    <3> QED BY <2>1, <3>1, Zenon
  <2>4. IsCall(d) /\ Knows(d)
    BY <1>1, <2>2, <2>3 DEF IsCall, Knows, IsKept
  <2>5. \A n \in d.rev + 1 .. rev : writtenAt[n] + TTL + d.took > now
    <3>1. ASSUME NEW n \in d.rev + 1 .. rev PROVE writtenAt[n] + TTL + d.took > now
      <4>1. d.rev = e.rev /\ d.took = e.took
        BY <2>3
      <4>2. writtenAt[n] + TTL + e.took >= e.until /\ now < e.until
        BY <2>2, <3>1, <4>1 DEF IsKept
      <4>3. rev \in Nat /\ n \in 1 .. rev
        BY <2>2, <3>1, <4>1 DEF IsKept, RecentInv, rev
      <4>4. writtenAt[n] \in Nat /\ now \in Nat /\ e.until \in Nat /\ e.took \in Nat
        BY <2>2, <4>3 DEF IsKept, RecentInv, rev
      <4> QED BY <4>1, <4>2, <4>4, ResponseCacheAssumption
    <3> QED BY <3>1
  <2>6. Served(call[x], d)
    BY <2>3, <2>4, <2>5 DEF Served
  <2> QED BY <1>1, <1>2, <2>3, <2>6
<1>5. CASE Make(x)
  <2>1. PICK d : d = Handled(call[x]) /\ Becomes(x, d) /\ Lets(call[x])
    BY <1>5 DEF Make
  <2>2. call[x].url \in Urls
    BY <2>1 DEF Lets
  <2>3. Served(call[x], d)
    BY <1>1, <2>1, <2>2, HandledKnows DEF Served
  <2> QED BY <1>1, <1>2, <2>1, <2>3
<1> QED BY <1>3, <1>4, <1>5 DEF Serve

LEMMA ServeKeeps ==
  ASSUME RecentInv, NEW x \in Watched, Serve(x)
  PROVE  RecentInv' /\ Recent
<1>1. Served(call[x], call'[x]) /\ Becomes(x, call'[x])
  BY Serves
<1>2. PICK d : d = call'[x]
  OBVIOUS
<1>3. IsCall(d) /\ Knows(d) /\ Becomes(x, d)
  BY <1>1, <1>2 DEF Served
<1>4. RecentInv'
  BY <1>3, SwapKeeps DEF Serve
<1>5. \A y \in Watched \ {x} : call'[y] = call[y]
  BY <1>3, Swap
<1>6. Recent
  BY <1>1, <1>5 DEF Recent, Served
<1> QED BY <1>4, <1>6

(* What an answer that is kept, or given without being kept, is made of.     *)
LEMMA Answers ==
  ASSUME RecentInv, NEW x \in Watched, Answer(x)
  PROVE  /\ call[x].at = "read" /\ IsCall(call[x]) /\ IsCall(call'[x])
         /\ call'[x] = [at |-> "answered", url |-> call[x].url, of |-> call[x].of,
                        rev |-> call[x].rev, hit |-> call[x].hit, asOf |-> 0,
                        took |-> now - call[x].asOf]
         /\ Becomes(x, call'[x])
         /\ now - call[x].asOf \in Nat
<1>1. call[x].at = "read" /\ IsCall(call[x]) /\ now - call[x].asOf \in Nat
  BY DEF Answer, RecentInv, Shape, Knows, IsCall
<1>2. PICK c : c = call[x]
  OBVIOUS
<1>3. PICK t : t = now - c.asOf
  OBVIOUS
<1>4. PICK a : a = [c EXCEPT !.at = "answered"]
  OBVIOUS
<1>5. PICK b : b = [a EXCEPT !.took = t]
  OBVIOUS
<1>6. PICK d : d = [b EXCEPT !.asOf = 0]
  OBVIOUS
<1>7. [call[x] EXCEPT !.at = "answered", !.took = now - call[x].asOf, !.asOf = 0] = d
  BY <1>2, <1>3, <1>4, <1>5, <1>6, Zenon
<1>8. Becomes(x, d)
  BY <1>7, Zenon DEF Answer
<1>9. a = [at |-> "answered", url |-> c.url, of |-> c.of, rev |-> c.rev,
           hit |-> c.hit, asOf |-> c.asOf, took |-> c.took]
  BY <1>1, <1>2, <1>4 DEF IsCall
<1>10. b = [at |-> "answered", url |-> c.url, of |-> c.of, rev |-> c.rev,
           hit |-> c.hit, asOf |-> c.asOf, took |-> t]
  BY <1>5, <1>9
<1>11. d = [at |-> "answered", url |-> c.url, of |-> c.of, rev |-> c.rev,
           hit |-> c.hit, asOf |-> 0, took |-> t]
  BY <1>6, <1>10
<1>12. IsCall(d)
  BY <1>1, <1>2, <1>3, <1>11 DEF IsCall
<1>13. call'[x] = d
  BY <1>8, <1>12, Swap
<1> QED BY <1>1, <1>2, <1>3, <1>8, <1>11, <1>12, <1>13

LEMMA AnswerKeeps ==
  ASSUME RecentInv, NEW x \in Watched, Answer(x)
  PROVE  RecentInv' /\ Recent
<1> DEFINE c == call[x]
<1>1. /\ c.at = "read" /\ IsCall(c) /\ IsCall(call'[x]) /\ Becomes(x, call'[x])
      /\ call'[x] = [at |-> "answered", url |-> c.url, of |-> c.of,
                     rev |-> c.rev, hit |-> c.hit, asOf |-> 0,
                     took |-> now - c.asOf]
      /\ now - c.asOf \in Nat
  BY Answers
<1>2. /\ Shape' /\ \A y \in Watched \ {x} : call'[y] = call[y]
  BY <1>1, Swap
<1>3. now' = now /\ writtenAt' = writtenAt
  BY DEF Answer
<1>4. \A y \in Watched : Knows(call[y])'
  BY <1>1, <1>2, <1>3 DEF RecentInv, Knows, Since, rev
<1>5. now \in Nat /\ c.rev \in Nat /\ c.asOf \in Nat /\ rev \in Nat
        /\ \A n \in c.rev + 1 .. rev : writtenAt[n] \in Nat
  BY <1>1 DEF IsCall, RecentInv, rev
<1>6. c.url # "me" => \A n \in c.rev + 1 .. rev : writtenAt[n] >= c.asOf
  BY <1>1 DEF RecentInv, Knows, Since
<1>7. Recent
  <2>1. ASSUME NEW y \in Watched, call'[y].at = "answered",
               call[y].at # "answered", call'[y].url # "me"
        PROVE  \A n \in call'[y].rev + 1 .. rev :
                 writtenAt[n] + TTL + call'[y].took > now
    <3>1. y = x
      BY <1>2, <2>1
    <3>2. call'[x].rev = c.rev /\ call'[x].took = now - c.asOf /\ c.url # "me"
      BY <1>1, <2>1, <3>1
    <3> QED BY <1>5, <1>6, <3>1, <3>2, ResponseCacheAssumption
  <2> QED BY <2>1 DEF Recent
<1>8. PICK e : e = [rev |-> c.rev, until |-> KeepsUntil, took |-> now - c.asOf]
  OBVIOUS
<1>9. \/ store' = store
      \/ c.url # "me" /\ store' = [store EXCEPT ![c.url] = e]
  BY <1>8 DEF Answer, Uncached
<1>10. \A u \in Urls : store[u] = None \/ IsKept(store[u])
  BY DEF RecentInv
<1>11. c.url # "me" => IsKept(e)
  BY <1>1, <1>5, <1>6, <1>8, ResponseCacheAssumption DEF IsKept, KeepsUntil
<1>12. \A u \in Urls : store'[u] = None \/ IsKept(store'[u])
  BY <1>9, <1>10, <1>11 DEF RecentInv
<1>13. (\A u \in Urls : store[u] = None \/ IsKept(store[u]))'
  BY <1>3, <1>12 DEF IsKept, rev
<1>14. store' = [u \in Urls |-> store'[u]]
  BY <1>9, Zenon DEF RecentInv
<1> QED BY <1>2, <1>3, <1>4, <1>7, <1>13, <1>14 DEF RecentInv

LEMMA FailsKeeps ==
  ASSUME RecentInv, NEW x \in Watched, Fails(x)
  PROVE  RecentInv' /\ Recent
<1>1. PICK d : d = Refusal(call[x]) /\ Becomes(x, d)
  BY Zenon DEF Fails
<1>2. IsCall(d) /\ d.at = "refused" /\ Knows(d)
  BY <1>1, RefusalIs DEF RecentInv, Shape, Knows
<1>3. RecentInv'
  BY <1>1, <1>2, SwapKeeps DEF Fails
<1>4. call'[x] = d /\ \A y \in Watched \ {x} : call'[y] = call[y]
  BY <1>1, <1>2, Swap
<1> QED BY <1>2, <1>3, <1>4 DEF Recent

LEMMA ForgetsIs ==
  ASSUME NEW x \in Watched, Shape, Forgets(x)
  PROVE  \E d : /\ Becomes(x, d) /\ IsCall(d) /\ d.at = "sent"
                /\ d.url = call[x].url /\ call[x].of = "member" /\ d.of = "missed"
<1>1. PICK c : c = call[x] /\ IsCall(c)
  BY DEF Shape
<1>2. PICK d : d = [c EXCEPT !.of = "missed"]
  OBVIOUS
<1>3. Becomes(x, d) /\ c.at = "sent" /\ c.of = "member"
  BY <1>1, <1>2 DEF Forgets
<1>4. d = [at |-> c.at, url |-> c.url, of |-> "missed", rev |-> c.rev,
           hit |-> c.hit, asOf |-> c.asOf, took |-> c.took]
  BY <1>1, <1>2 DEF IsCall
<1>5. /\ d.at = c.at /\ d.url = c.url /\ d.of = "missed"
      /\ IsCall(d)
  BY <1>1, <1>4 DEF IsCall
<1> QED BY <1>1, <1>3, <1>5

LEMMA ForgetsKeeps ==
  ASSUME RecentInv, NEW x \in Watched, Forgets(x)
  PROVE  RecentInv' /\ Recent
<1>1. PICK d : Becomes(x, d) /\ IsCall(d) /\ d.at = "sent"
  BY ForgetsIs DEF RecentInv
<1>2. RecentInv'
  BY <1>1, SwapKeeps DEF Forgets, Knows
<1>3. call'[x] = d /\ \A y \in Watched \ {x} : call'[y] = call[y]
  BY <1>1, Swap
<1> QED BY <1>1, <1>2, <1>3 DEF Recent

LEMMA TickKeeps ==
  ASSUME RecentInv, Tick
  PROVE  RecentInv' /\ Recent
<1>1. now' = now + 1 /\ writtenAt' = writtenAt /\ call' = call
  BY DEF Tick
<1>2. store' = [u \in Urls |-> store'[u]]
  BY Zenon DEF Tick
<1>3. ASSUME NEW u \in Urls, store'[u] # None PROVE IsKept(store[u])'
  <2>1. store'[u] = store[u] /\ store[u] # None /\ ~ Overdue(store[u], now')
    BY <1>3 DEF Tick
  <2>2. IsKept(store[u])
    BY <2>1 DEF RecentInv
  <2> QED BY <1>1, <2>1, <2>2, ResponseCacheAssumption DEF RecentInv, IsKept, Overdue, rev
<1>4. \A x \in Watched : Knows(call[x])'
  BY <1>1 DEF RecentInv, Shape, IsCall, Knows, Since, rev
<1>5. Shape'
  BY <1>1 DEF RecentInv, Shape, IsCall
<1>6. Recent
  BY <1>1 DEF Recent
<1>7. RecentInv'
  BY <1>1, <1>2, <1>3, <1>4, <1>5 DEF RecentInv
<1> QED BY <1>6, <1>7

(* A write is made now, which is before what Redis keeps is overdue.         *)
LEMMA WritesKeep ==
  ASSUME RecentInv, Writes, UNCHANGED <<now, store, call>>
  PROVE  RecentInv' /\ Recent
<1>1. writtenAt' = Append(writtenAt, now) /\ writtenAt \in Seq(Nat) /\ now \in Nat
  BY DEF Writes, RecentInv
<1>2. /\ writtenAt' \in Seq(Nat) /\ rev' = rev + 1 /\ rev \in Nat
      /\ writtenAt'[rev + 1] = now
      /\ \A n \in 1 .. rev : writtenAt'[n] = writtenAt[n]
  BY <1>1 DEF rev
<1>3. ASSUME NEW n \in Nat, NEW m \in n + 1 .. rev'
      PROVE  \/ m \in n + 1 .. rev /\ writtenAt'[m] = writtenAt[m]
             \/ writtenAt'[m] = now
  BY <1>2
<1>4. ASSUME NEW x \in Watched PROVE Knows(call[x])'
  <2>1. PICK c : c = call[x]
    OBVIOUS
  <2>2. c = call'[x] /\ Knows(c) /\ c.rev \in Nat
    BY <2>1 DEF RecentInv, Shape, IsCall
  <2>3. c.at = "read" /\ c.url # "me" =>
          \A m \in c.rev + 1 .. rev' : writtenAt'[m] >= c.asOf
    BY <1>1, <1>3, <2>2 DEF Knows, Since
  <2> QED BY <2>2, <2>3 DEF Knows, Since
<1>5. ASSUME NEW u \in Urls PROVE (store[u] = None \/ IsKept(store[u]))'
  <2>1. store[u] = None \/ IsKept(store[u])
    BY DEF RecentInv
  <2>2. CASE IsKept(store[u])
    <3>1. PICK e : e = store[u]
      OBVIOUS
    <3>2. IsKept(e) /\ e.rev \in Nat /\ e.took \in Nat /\ e.until \in Nat
      BY <2>2, <3>1 DEF IsKept
    <3>3. now + TTL + e.took >= e.until
      BY <1>1, <3>2, ResponseCacheAssumption DEF IsKept
    <3>4. ASSUME NEW m \in e.rev + 1 .. rev'
          PROVE  writtenAt'[m] + TTL + e.took >= e.until
      <4>1. \/ m \in e.rev + 1 .. rev /\ writtenAt'[m] = writtenAt[m]
            \/ writtenAt'[m] = now
        BY <1>3, <3>2, <3>4
      <4> QED BY <3>2, <3>3, <4>1 DEF IsKept
    <3>5. e = store'[u]
      BY <3>1
    <3>6. now' = now
      OBVIOUS
    <3>7. IsKept(e)'
      BY <3>2, <3>4, <3>6 DEF IsKept
    <3> QED BY <3>5, <3>7 DEF IsKept
  <2> QED BY <2>1, <2>2
<1>6. Shape'
  BY DEF RecentInv, Shape, IsCall
<1> QED BY <1>1, <1>2, <1>4, <1>5, <1>6 DEF RecentInv, Recent

-----------------------------------------------------------------------------
(* Every step of the client sends calls or takes answers away.               *)
LEMMA CallsSend ==
  ASSUME Shape, NEW Q, NEW S, NEW url, NEW t, call' = Calls(Q, S, url, t)
  PROVE  Sends
BY DEF Calls, Sends, Shape

LEMMA SameSends == ASSUME Shape, call' = call PROVE Sends
BY DEF Sends, Shape

LEMMA EnterSends ==
  ASSUME Shape, NEW Q, NEW p, NEW t, Enter(Q, p, t)
  PROVE  Sends
<1>1. \/ call' = call
      \/ \E R, S, url : call' = Calls(R, S, url, t)
  BY Zenon DEF Enter
<1> QED BY <1>1, CallsSend, SameSends

LEMMA RefreshSends ==
  ASSUME Shape, NEW S, NEW t, Refresh(S, t)
  PROVE  Sends
<1>1. \E R, T, url : call' = Calls(R, T, url, t)
  BY Zenon DEF Refresh
<1> QED BY <1>1, CallsSend

LEMMA QueriesSend ==
  ASSUME Shape, NEW k \in Watched, NEW t,
         Receive(k, t) \/ Refused(k) \/ WakeUp(k, t) \/ Collect(k) \/ Focus(t)
  PROVE  Sends
<1>1. CASE Receive(k, t)
  <2>1. PICK C, R, T, url : /\ C = Calls(R, T, url, t)
                            /\ call' = [C EXCEPT ![k] = NoCall]
    BY <1>1, Zenon DEF Receive
  <2>2. /\ C = [x \in Watched |-> C[x]]
        /\ \A x \in Watched : C[x] = call[x] \/ C[x] = Sent(url[x], t)
    BY <2>1 DEF Calls
  <2>3. /\ call'[k] = NoCall /\ \A x \in Watched \ {k} : call'[x] = C[x]
        /\ call' = [x \in Watched |-> call'[x]]
    BY <2>1, <2>2
  <2> QED BY <2>2, <2>3 DEF Sends
<1>2. CASE Refused(k)
  BY <1>2 DEF Refused, Becomes, Sends, Shape
<1>3. CASE WakeUp(k, t)
  <2>1. \/ call' = call
        \/ Becomes(k, Sent(q[k].url, t))
    BY <1>3 DEF WakeUp
  <2>2. ASSUME Becomes(k, Sent(q[k].url, t)) PROVE Sends
    BY <2>2 DEF Becomes, Sends, Shape
  <2> QED BY <2>1, <2>2, SameSends
<1>4. CASE Collect(k)
  BY <1>4, SameSends DEF Collect
<1>5. CASE Focus(t)
  <2>1. \E R, T, url : call' = Calls(R, T, url, t)
    BY <1>5, Zenon DEF Focus
  <2> QED BY <2>1, CallsSend
<1> QED BY <1>1, <1>2, <1>3, <1>4, <1>5

LEMMA RecentNext ==
  ASSUME RecentInv, [Next]_vars
  PROVE  RecentInv' /\ Recent
<1>1. Shape
  BY DEF RecentInv
<1>2. ASSUME Sends, Server PROVE RecentInv' /\ Recent
  BY <1>2, SendsKeeps DEF Server
<1>3. CASE \E p \in StartPages : Open(p)
  BY <1>1, <1>2, <1>3, EnterSends DEF Open
<1>4. CASE \E p \in DOMAIN Router : Visit(p)
  BY <1>1, <1>2, <1>4, EnterSends DEF Visit
<1>5. CASE \E kind \in DOMAIN Submits : Submit(kind)
  BY <1>1, <1>2, <1>5, SameSends DEF Submit
<1>6. CASE Jump
  BY <1>1, <1>2, <1>6, EnterSends DEF Jump
<1>7. CASE Carry
  <2>1. UNCHANGED <<now, store, call>> /\ (Writes \/ writtenAt' = writtenAt)
    BY <1>7 DEF Carry
  <2> QED BY <1>1, <2>1, WritesKeep, SendsKeeps, SameSends
<1>8. CASE Refuse
  BY <1>1, <1>2, <1>8, SameSends DEF Refuse
<1>9. CASE AnswerIsLost
  BY <1>1, <1>9, SendsKeeps, SameSends DEF AnswerIsLost
<1>10. CASE Saved
  BY <1>1, <1>2, <1>10, RefreshSends DEF Saved
<1>11. CASE Deleted
  BY <1>1, <1>2, <1>11, RefreshSends, EnterSends DEF Deleted
<1>12. CASE SignedUp
  BY <1>1, <1>2, <1>12, SameSends DEF SignedUp
<1>13. CASE SignedIn
  BY <1>1, <1>2, <1>13, RefreshSends DEF SignedIn
<1>14. CASE LogOut
  BY <1>1, <1>2, <1>14, RefreshSends DEF LogOut
<1>15. CASE Look
  <2>1. \E k : k \in Watched
    BY StartAssumption
  <2> QED BY <1>1, <1>2, <1>15, <2>1, QueriesSend DEF Look
<1>16. CASE \E k \in Watched : Hear(k) \/ Retry(k) \/ Drop(k)
  BY <1>1, <1>2, <1>16, QueriesSend DEF Hear, Retry, Drop, Client
<1>17. CASE \E x \in Watched : ServerStep(x)
  BY <1>17, ServeKeeps, AnswerKeeps DEF ServerStep
<1>18. CASE \E x \in Watched : Forgets(x) \/ Fails(x)
  BY <1>18, ForgetsKeeps, FailsKeeps
<1>19. CASE Tick
  BY <1>19, TickKeeps
<1>20. CASE OtherWrite
  BY <1>20, WritesKeep DEF OtherWrite
<1>21. CASE UNCHANGED vars
  BY <1>1, <1>21, SendsKeeps, SameSends DEF vars, cacheVars
<1> QED BY <1>3, <1>4, <1>5, <1>6, <1>7, <1>8, <1>9, <1>10, <1>11, <1>12, <1>13,
           <1>14, <1>15, <1>16, <1>17, <1>18, <1>19, <1>20, <1>21 DEF Next

(* What Redis gives out lacks only writes younger than its module's time and *)
(* the handler's own, for any times, pages and writes (app.module.ts,        *)
(* CacheInterceptor).                                                        *)
THEOREM AnswersNeverAge == Spec => AnswersAreRecent
<1>1. RecentInv /\ [Next]_vars => RecentInv' /\ Recent
  BY RecentNext
<1>2. Recent => [\A x \in Watched : LET c == call'[x] IN
       c.at = "answered" /\ call[x].at # "answered" /\ c.url # "me" =>
         \A n \in c.rev + 1 .. rev : writtenAt[n] + TTL + c.took > now]_call
  BY DEF Recent
<1> QED BY <1>1, <1>2, RecentInit, PTL DEF Spec, AnswersAreRecent

-----------------------------------------------------------------------------
(* The copies.  A query, and what setting one of its fields leaves.          *)
Query(d, u, i, f, n, z, e, l) ==
  [data |-> d, url |-> u, invalid |-> i, fetch |-> f, failed |-> n,
   quits |-> z, error |-> e, lost |-> l]
IsQuery(s) ==
  s = Query(s.data, s.url, s.invalid, s.fetch, s.failed, s.quits, s.error, s.lost)

LEMMA Fields ==
  ASSUME NEW d, NEW u, NEW i, NEW f, NEW n, NEW z, NEW e, NEW l
  PROVE  LET s == Query(d, u, i, f, n, z, e, l) IN
         /\ s.data = d /\ s.url = u /\ s.invalid = i /\ s.fetch = f
         /\ s.failed = n /\ s.quits = z /\ s.error = e /\ s.lost = l
         /\ IsQuery(s)
BY DEF Query, IsQuery

LEMMA NoQueryIs ==
  IsQuery(NoQuery) /\ NoQuery.fetch = "idle" /\ NoQuery.data = None
<1>1. PICK no : no = FALSE
  OBVIOUS
<1>2. NoQuery = Query(None, None, no, "idle", 0, no, no, no)
  BY <1>1 DEF NoQuery, Query
<1> QED BY <1>2, Fields

LEMMA BegunIs ==
  ASSUME NEW c, IsQuery(c), NEW no, NEW u, NEW e
  PROVE  [c EXCEPT !.fetch = "going", !.failed = 0, !.quits = no, !.lost = no, !.url = u,
                   !.error = e]
           = Query(c.data, u, c.invalid, "going", 0, no, e, no)
<1>1. PICK c1 : c1 = [c EXCEPT !.fetch = "going"]
  OBVIOUS
<1>2. PICK c2 : c2 = [c1 EXCEPT !.failed = 0]
  OBVIOUS
<1>3. PICK c3 : c3 = [c2 EXCEPT !.quits = no]
  OBVIOUS
<1>4. PICK c4 : c4 = [c3 EXCEPT !.lost = no]
  OBVIOUS
<1>5. PICK c5 : c5 = [c4 EXCEPT !.url = u]
  OBVIOUS
<1>6. c1 = Query(c.data, c.url, c.invalid, "going", c.failed, c.quits, c.error, c.lost)
  BY <1>1 DEF IsQuery, Query
<1>7. c2 = Query(c.data, c.url, c.invalid, "going", 0, c.quits, c.error, c.lost)
  BY <1>2, <1>6 DEF Query
<1>8. c3 = Query(c.data, c.url, c.invalid, "going", 0, no, c.error, c.lost)
  BY <1>3, <1>7 DEF Query
<1>9. c4 = Query(c.data, c.url, c.invalid, "going", 0, no, c.error, no)
  BY <1>4, <1>8 DEF Query
<1>10. c5 = Query(c.data, u, c.invalid, "going", 0, no, c.error, no)
  BY <1>5, <1>9 DEF Query
<1>11. [c5 EXCEPT !.error = e] = Query(c.data, u, c.invalid, "going", 0, no, e, no)
  BY <1>10 DEF Query
<1>12. [c EXCEPT !.fetch = "going", !.failed = 0, !.quits = no, !.lost = no, !.url = u,
                 !.error = e]
         = [c5 EXCEPT !.error = e]
  BY <1>1, <1>2, <1>3, <1>4, <1>5, Zenon
<1> QED BY <1>11, <1>12, Zenon

LEMMA Begun ==
  ASSUME NEW Q, NEW S, NEW url, NEW k \in Watched, IsQuery(Q[k])
  PROVE  LET s == Fetched(Q, S, url)[k] IN
         IF k \in Begins(Q, S)
         THEN IsQuery(s) /\ s.fetch = "going" /\ s.lost = FALSE /\ s.url = url[k]
         ELSE s = Q[k]
<1>1. CASE k \in Begins(Q, S)
  <2>1. PICK c : c = Q[k]
    OBVIOUS
  <2>2. PICK v : v = (c.error /\ c.data # None)
    OBVIOUS
  <2>3. PICK w : w = url[k]
    OBVIOUS
  <2>4. PICK no : no = FALSE
    OBVIOUS
  <2>5. Fetched(Q, S, url)[k] =
          [c EXCEPT !.fetch = "going", !.failed = 0, !.quits = no,
             !.lost = no, !.url = w, !.error = v]
    BY <1>1, <2>1, <2>2, <2>3, <2>4, Zenon DEF Fetched
  <2>6. IsQuery(c)
    BY <2>1
  <2>7. [c EXCEPT !.fetch = "going", !.failed = 0, !.quits = no,
           !.lost = no, !.url = w, !.error = v]
          = Query(c.data, w, c.invalid, "going", 0, no, v, no)
    BY <2>6, BegunIs, Zenon
  <2>8. Fetched(Q, S, url)[k]
          = Query(c.data, w, c.invalid, "going", 0, no, v, no)
    BY <2>5, <2>7, Zenon
  <2> QED BY <1>1, <2>3, <2>4, <2>8, Fields
<1>2. CASE k \notin Begins(Q, S)
  BY <1>2 DEF Fetched
<1> QED BY <1>1, <1>2

LEMMA MarkedIs ==
  ASSUME NEW Q, NEW S, NEW k \in S \intersect Watched, IsQuery(Q[k])
  PROVE  LET s == Invalidated(Q, S)[k] IN
         /\ IsQuery(s) /\ s.data = Q[k].data /\ s.url = Q[k].url
         /\ s.fetch = Q[k].fetch /\ s.error = Q[k].error
         /\ s.invalid <=> Q[k].data # None
         /\ s.lost <=> Q[k].lost \/ Q[k].fetch # "idle"
<1>1. PICK c : c = Q[k]
  OBVIOUS
<1>2. PICK i : i = (c.data # None)
  OBVIOUS
<1>3. PICK l : l = (c.lost \/ c.fetch # "idle")
  OBVIOUS
<1>4. Invalidated(Q, S)[k] = [c EXCEPT !.invalid = i, !.lost = l]
  BY <1>1, <1>2, <1>3, Zenon DEF Invalidated
<1>5. PICK a : a = [c EXCEPT !.invalid = i]
  OBVIOUS
<1>6. Invalidated(Q, S)[k] = [a EXCEPT !.lost = l]
  BY <1>4, <1>5, Zenon
<1>7. a = Query(c.data, c.url, i, c.fetch, c.failed, c.quits, c.error, c.lost)
  BY <1>1, <1>5 DEF IsQuery, Query
<1>8. [a EXCEPT !.lost = l]
        = Query(c.data, c.url, i, c.fetch, c.failed, c.quits, c.error, l)
  BY <1>7 DEF Query
<1>9. Invalidated(Q, S)[k]
        = Query(c.data, c.url, i, c.fetch, c.failed, c.quits, c.error, l)
  BY <1>6, <1>8, Zenon
<1>10. PICK s : s = Invalidated(Q, S)[k]
  OBVIOUS
<1>11. /\ IsQuery(s) /\ s.data = c.data /\ s.url = c.url
       /\ s.fetch = c.fetch /\ s.error = c.error
       /\ s.invalid = i /\ s.lost = l
  BY <1>9, <1>10, Fields
<1>12. /\ i <=> c.data # None
       /\ l <=> c.lost \/ c.fetch # "idle"
  BY <1>2, <1>3
<1> QED BY <1>1, <1>10, <1>11, <1>12

(* What a page that is left does to a query.                                 *)
Alike(s, p) ==
  /\ IsQuery(s) /\ s.data = p.data /\ s.url = p.url /\ s.invalid = p.invalid
  /\ s.fetch = p.fetch /\ s.error = p.error /\ s.lost = p.lost

LEMMA QuitIs ==
  ASSUME NEW Q, NEW S, NEW k \in Watched, IsQuery(Q[k])
  PROVE  Alike(Quits(Q, S)[k], Q[k])
<1>1. PICK c : c = Q[k]
  OBVIOUS
<1>2. PICK yes : yes = TRUE
  OBVIOUS
<1>3. PICK a : a = [c EXCEPT !.quits = yes]
  OBVIOUS
<1>4. Quits(Q, S)[k] = a \/ Quits(Q, S)[k] = c
  BY <1>1, <1>2, <1>3, Zenon DEF Quits
<1>5. a = Query(c.data, c.url, c.invalid, c.fetch, c.failed, yes, c.error, c.lost)
  BY <1>1, <1>3 DEF IsQuery, Query
<1> QED BY <1>1, <1>4, <1>5, Fields DEF Alike

LEMMA GivenUpIs ==
  ASSUME NEW c, IsQuery(c)
  PROVE  LET s == GivesUp(c) IN
         IsQuery(s) /\ s.fetch = "idle" /\ s.error = TRUE
<1>1. PICK yes : yes = TRUE
  OBVIOUS
<1>2. PICK a : a = [c EXCEPT !.fetch = "idle"]
  OBVIOUS
<1>3. PICK b : b = [a EXCEPT !.error = yes]
  OBVIOUS
<1>4. GivesUp(c) = b
  BY <1>1, <1>2, <1>3, Zenon DEF GivesUp
<1>5. a = Query(c.data, c.url, c.invalid, "idle", c.failed, c.quits, c.error, c.lost)
  BY <1>2 DEF IsQuery, Query
<1>6. b = Query(c.data, c.url, c.invalid, "idle", c.failed, c.quits, yes, c.lost)
  BY <1>3, <1>5 DEF Query
<1>7. IsQuery(b) /\ b.fetch = "idle" /\ b.error = yes
  BY <1>6, Fields
<1> QED BY <1>1, <1>4, <1>7

(* A step of the client moves query k on from what it was, or from what      *)
(* marking made of it: it is as it was, or a fetch begins.                   *)
Moved(k, p, t) ==
  \/ Alike(q'[k], p) /\ call'[k] = call[k]
  \/ /\ p.fetch = "idle" /\ IsQuery(q'[k])
     /\ q'[k].fetch = "going" /\ q'[k].lost = FALSE
     /\ call'[k] = Sent(q'[k].url, t)

LEMMA FetchMoves ==
  ASSUME NEW Q, NEW S, NEW url, NEW t, NEW k \in Watched, IsQuery(Q[k]),
         q' = Fetched(Q, S, url), call' = Calls(Q, S, url, t)
  PROVE  Moved(k, Q[k], t)
<1>1. CASE k \in Begins(Q, S)
  <2>1. call'[k] = Sent(url[k], t) /\ Q[k].fetch = "idle"
    BY <1>1 DEF Calls, Begins
  <2> QED BY <1>1, <2>1, Begun DEF Moved
<1>2. CASE k \notin Begins(Q, S)
  <2>1. call'[k] = call[k] /\ q'[k] = Q[k]
    BY <1>2, Begun DEF Calls
  <2> QED BY <2>1 DEF Moved, Alike
<1> QED BY <1>1, <1>2

LEMMA EnterMoves ==
  ASSUME NEW Q, NEW p, NEW t, NEW k \in Watched, IsQuery(Q[k]), Enter(Q, p, t)
  PROVE  Moved(k, Q[k], t)
<1>1. CASE q' = Q /\ call' = call
  BY <1>1 DEF Moved, Alike
<1>2. CASE \E L, A, T, S, url : 
             /\ L = Quits(Q, T) /\ A = Fetched(L, S, url)
             /\ call' = Calls(L, S, url, t)
             /\ q' = A \/ \E U : q' = Quits(A, U)
  <2>1. PICK L, A, T, S, url : 
             /\ L = Quits(Q, T) /\ A = Fetched(L, S, url)
             /\ call' = Calls(L, S, url, t)
             /\ q' = A \/ \E U : q' = Quits(A, U)
    BY <1>2
  <2>2. Alike(L[k], Q[k])
    BY <2>1, QuitIs
  <2>3. CASE k \in Begins(L, S)
    <3>1. /\ IsQuery(A[k]) /\ A[k].fetch = "going" /\ A[k].lost = FALSE
          /\ A[k].url = url[k]
      BY <2>1, <2>2, <2>3, Begun DEF Alike
    <3>2. Alike(q'[k], A[k])
      BY <2>1, <3>1, QuitIs DEF Alike
    <3>3. call'[k] = Sent(url[k], t) /\ L[k].fetch = "idle"
      BY <2>1, <2>3 DEF Calls, Begins
    <3> QED BY <2>2, <3>1, <3>2, <3>3 DEF Moved, Alike
  <2>4. CASE k \notin Begins(L, S)
    <3>1. A[k] = L[k] /\ call'[k] = call[k]
      <4>1. A[k] = L[k]
        BY <2>1, <2>4, Zenon DEF Fetched
      <4>2. call'[k] = call[k]
        BY <2>1, <2>4 DEF Calls
      <4> QED BY <4>1, <4>2
    <3>2. Alike(q'[k], A[k])
      BY <2>1, <2>2, <3>1, QuitIs DEF Alike
    <3> QED BY <2>2, <3>1, <3>2 DEF Moved, Alike
  <2> QED BY <2>3, <2>4
<1> QED BY <1>1, <1>2, Zenon DEF Enter

LEMMA RefreshMoves ==
  ASSUME NEW S, NEW t, NEW k \in Watched, IsQuery(q[k]), Refresh(S, t)
  PROVE  Moved(k, Invalidated(q, S)[k], t)
<1>1. PICK Q : Q = Invalidated(q, S)
  OBVIOUS
<1>2. \E R, url : q' = Fetched(Q, R, url) /\ call' = Calls(Q, R, url, t)
  BY <1>1, Zenon DEF Refresh
<1>3. IsQuery(Q[k])
  <2>1. CASE k \in S
    BY <1>1, <2>1, MarkedIs
  <2>2. CASE k \notin S
    BY <1>1, <2>2, Zenon DEF Invalidated
  <2> QED BY <2>1, <2>2
<1> QED BY <1>1, <1>2, <1>3, FetchMoves

(* How the client is told of a query's end: what becomes of query k, and     *)
(* that the others move on or stay.                                          *)
ReceivedBy(k) ==
  /\ call[k].at = "answered" /\ call'[k] = NoCall
  /\ IsQuery(q'[k])
  /\ \/ q'[k].fetch = "going"
     \/ /\ q'[k].fetch = "idle" /\ q'[k].url = q[k].url
        /\ q'[k].lost = q[k].lost
        /\ q'[k].data = [rev |-> call[k].rev, hit |-> call[k].hit,
                         of |-> call[k].of]

LEMMA ReceivedIs ==
  ASSUME NEW c, IsQuery(c), NEW d
  PROVE  LET s == [c EXCEPT !.data = d, !.invalid = FALSE, !.fetch = "idle",
                            !.failed = 0, !.error = FALSE] IN
         /\ IsQuery(s) /\ s.fetch = "idle" /\ s.url = c.url /\ s.lost = c.lost
         /\ s.data = d
<1>1. PICK no : no = FALSE
  OBVIOUS
<1>2. PICK a : a = [c EXCEPT !.data = d]
  OBVIOUS
<1>3. PICK b : b = [a EXCEPT !.invalid = no]
  OBVIOUS
<1>4. PICK e : e = [b EXCEPT !.fetch = "idle"]
  OBVIOUS
<1>5. PICK f : f = [e EXCEPT !.failed = 0]
  OBVIOUS
<1>6. PICK g : g = [f EXCEPT !.error = no]
  OBVIOUS
<1>7. [c EXCEPT !.data = d, !.invalid = FALSE, !.fetch = "idle",
                !.failed = 0, !.error = FALSE] = g
  BY <1>1, <1>2, <1>3, <1>4, <1>5, <1>6, Zenon
<1>8. a = Query(d, c.url, c.invalid, c.fetch, c.failed, c.quits, c.error, c.lost)
  BY <1>2 DEF IsQuery, Query
<1>9. b = Query(d, c.url, no, c.fetch, c.failed, c.quits, c.error, c.lost)
  BY <1>3, <1>8 DEF Query
<1>10. e = Query(d, c.url, no, "idle", c.failed, c.quits, c.error, c.lost)
  BY <1>4, <1>9 DEF Query
<1>11. f = Query(d, c.url, no, "idle", 0, c.quits, c.error, c.lost)
  BY <1>5, <1>10 DEF Query
<1>12. g = Query(d, c.url, no, "idle", 0, c.quits, no, c.lost)
  BY <1>6, <1>11 DEF Query
<1>13. /\ IsQuery(g) /\ g.fetch = "idle" /\ g.url = c.url /\ g.lost = c.lost
       /\ g.data = d
  BY <1>12, Fields
<1> QED BY <1>7, <1>13, Zenon

LEMMA Receives ==
  ASSUME NEW k \in Watched, NEW t, \A j \in Watched : IsQuery(q[j]),
         q = [j \in Watched |-> q[j]], Receive(k, t)
  PROVE  /\ ReceivedBy(k)
         /\ \A j \in Watched \ {k} : Moved(j, q[j], t)
<1>1. PICK d : d = [rev |-> call[k].rev, hit |-> call[k].hit, of |-> call[k].of]
  OBVIOUS
<1>2. PICK c : c = [q[k] EXCEPT !.data = d, !.invalid = FALSE, !.fetch = "idle",
                                !.failed = 0, !.error = FALSE]
  OBVIOUS
<1>3. PICK Q : Q = [q EXCEPT ![k] = c]
  OBVIOUS
<1>4. PICK S, url, C : /\ q' = Fetched(Q, S, url) /\ C = Calls(Q, S, url, t)
                       /\ call' = [C EXCEPT ![k] = NoCall]
  BY <1>1, <1>2, <1>3, Zenon DEF Receive
<1>5. call[k].at = "answered"
  BY DEF Receive
<1>6. C = [x \in Watched |-> C[x]]
  BY <1>4, Zenon DEF Calls
<1>7. call'[k] = NoCall /\ \A j \in Watched \ {k} : call'[j] = C[j]
  BY <1>4, <1>6
<1>8. Q[k] = c /\ \A j \in Watched \ {k} : Q[j] = q[j]
  BY <1>3, Zenon
<1>9. /\ IsQuery(c) /\ c.fetch = "idle" /\ c.url = q[k].url /\ c.lost = q[k].lost
      /\ c.data = d
  BY <1>2, ReceivedIs, Zenon
<1>10. ReceivedBy(k)
  <2>1. CASE k \in Begins(Q, S)
    BY <1>4, <1>5, <1>7, <1>8, <1>9, <2>1, Begun DEF ReceivedBy
  <2>2. CASE k \notin Begins(Q, S)
    <3>1. q'[k] = c
      BY <1>4, <1>8, <2>2, Zenon DEF Fetched
    <3> QED BY <1>1, <1>5, <1>7, <1>9, <3>1 DEF ReceivedBy
  <2> QED BY <2>1, <2>2
<1>11. ASSUME NEW j \in Watched \ {k} PROVE Moved(j, q[j], t)
  <2>1. Q[j] = q[j] /\ IsQuery(Q[j]) /\ call'[j] = C[j]
    BY <1>7, <1>8
  <2>2. CASE j \in Begins(Q, S)
    <3>1. C[j] = Sent(url[j], t) /\ Q[j].fetch = "idle"
      BY <1>4, <2>2 DEF Calls, Begins
    <3>2. /\ IsQuery(q'[j]) /\ q'[j].fetch = "going" /\ q'[j].lost = FALSE
          /\ q'[j].url = url[j]
      BY <1>4, <2>1, <2>2, Begun
    <3> QED BY <2>1, <3>1, <3>2 DEF Moved
  <2>3. CASE j \notin Begins(Q, S)
    <3>1. C[j] = call[j]
      BY <1>4, <2>3 DEF Calls
    <3>2. q'[j] = Q[j]
      BY <1>4, <2>3, Zenon DEF Fetched
    <3> QED BY <2>1, <3>1, <3>2 DEF Moved, Alike
  <2> QED BY <2>2, <2>3
<1> QED BY <1>10, <1>11

LEMMA TriesIs ==
  ASSUME NEW c, IsQuery(c), NEW v
  PROVE  LET s == [c EXCEPT !.fetch = "waiting", !.failed = v] IN
         IsQuery(s) /\ s.fetch = "waiting"
<1>1. PICK a : a = [c EXCEPT !.fetch = "waiting"]
  OBVIOUS
<1>2. PICK b : b = [a EXCEPT !.failed = v]
  OBVIOUS
<1>3. [c EXCEPT !.fetch = "waiting", !.failed = v] = b
  BY <1>1, <1>2, Zenon
<1>4. a = Query(c.data, c.url, c.invalid, "waiting", c.failed, c.quits, c.error, c.lost)
  BY <1>1 DEF IsQuery, Query
<1>5. b = Query(c.data, c.url, c.invalid, "waiting", v, c.quits, c.error, c.lost)
  BY <1>2, <1>4 DEF Query
<1>6. IsQuery(b) /\ b.fetch = "waiting"
  BY <1>5, Fields
<1> QED BY <1>3, <1>6, Zenon

LEMMA GoingIs ==
  ASSUME NEW c, IsQuery(c)
  PROVE  LET s == [c EXCEPT !.fetch = "going"] IN
         IsQuery(s) /\ s.fetch = "going" /\ s.url = c.url /\ s.lost = c.lost
<1>1. PICK a : a = [c EXCEPT !.fetch = "going"]
  OBVIOUS
<1>2. a = Query(c.data, c.url, c.invalid, "going", c.failed, c.quits, c.error, c.lost)
  BY <1>1 DEF IsQuery, Query
<1>3. IsQuery(a) /\ a.fetch = "going" /\ a.url = c.url /\ a.lost = c.lost
  BY <1>2, Fields
<1> QED BY <1>1, <1>3

(* A query alone takes a step.                                               *)
Alone(k) ==
  /\ \A j \in Watched \ {k} : q'[j] = q[j] /\ call'[j] = call[j]
  /\ IsQuery(q'[k])
  /\ \/ q'[k].fetch = "waiting" /\ call'[k] = NoCall
     \/ q'[k].fetch = "idle" /\ q'[k].error = TRUE /\ call'[k] = NoCall
     \/ /\ q[k].fetch = "waiting" /\ call'[k] = call[k]
        /\ q'[k].fetch = "idle" /\ q'[k].error = TRUE
     \/ /\ q'[k].fetch = "going" /\ q'[k].url = q[k].url
        /\ q'[k].lost = q[k].lost /\ call'[k] = Sent(q[k].url, token)
     \/ /\ q[k].fetch = "idle" /\ call'[k] = call[k]
        /\ q'[k].fetch = "idle" /\ q'[k].data = None

LEMMA AloneIs ==
  ASSUME Shape, q = [j \in Watched |-> q[j]], NEW k \in Watched, IsQuery(q[k]),
         Refused(k) \/ WakeUp(k, token) \/ Collect(k)
  PROVE  Alone(k)
<1> DEFINE c == q[k]
<1>1. ASSUME NEW d, q' = [q EXCEPT ![k] = d]
      PROVE  q'[k] = d /\ \A j \in Watched \ {k} : q'[j] = q[j]
  BY <1>1, Zenon
<1>2. ASSUME NEW d, Becomes(k, d)
      PROVE  call'[k] = d /\ \A j \in Watched \ {k} : call'[j] = call[j]
  BY <1>2 DEF Becomes, Shape
<1>3. CASE Refused(k)
  <2>1. Becomes(k, NoCall)
    BY <1>3 DEF Refused
  <2>2. \/ \E v : q' = [q EXCEPT ![k] = [c EXCEPT !.fetch = "waiting", !.failed = v]]
        \/ q' = [q EXCEPT ![k] = GivesUp(c)]
    BY <1>3, Zenon DEF Refused
  <2>3. CASE q' = [q EXCEPT ![k] = GivesUp(c)]
    BY <1>1, <1>2, <2>1, <2>3, GivenUpIs DEF Alone
  <2>4. CASE \E v : q' = [q EXCEPT ![k] =
                            [c EXCEPT !.fetch = "waiting", !.failed = v]]
    <3>1. PICK v, s : /\ s = [c EXCEPT !.fetch = "waiting", !.failed = v]
                      /\ q' = [q EXCEPT ![k] = s]
      BY <2>4, Zenon
    <3>2. IsQuery(s) /\ s.fetch = "waiting"
      BY <3>1, TriesIs, Zenon
    <3> QED BY <1>1, <1>2, <2>1, <3>1, <3>2 DEF Alone
  <2> QED BY <2>2, <2>3, <2>4
<1>4. CASE WakeUp(k, token)
  <2>1. c.fetch = "waiting"
    BY <1>4 DEF WakeUp
  <2>2. CASE c.quits
    <3>1. q' = [q EXCEPT ![k] = GivesUp(c)] /\ call' = call
      BY <1>4, <2>2, Zenon DEF WakeUp
    <3> QED BY <1>1, <2>1, <3>1, GivenUpIs DEF Alone
  <2>3. CASE ~ c.quits
    <3>1. PICK s : s = [c EXCEPT !.fetch = "going"]
      OBVIOUS
    <3>2. q' = [q EXCEPT ![k] = s] /\ Becomes(k, Sent(c.url, token))
      BY <1>4, <2>3, <3>1, Zenon DEF WakeUp
    <3>3. IsQuery(s) /\ s.fetch = "going" /\ s.url = c.url /\ s.lost = c.lost
      BY <3>1, GoingIs
    <3> QED BY <1>1, <1>2, <3>2, <3>3 DEF Alone
  <2> QED BY <2>2, <2>3
<1>5. CASE Collect(k)
  <2>1. q' = [q EXCEPT ![k] = NoQuery] /\ call' = call /\ c.fetch = "idle"
    BY <1>5 DEF Collect
  <2> QED BY <1>1, <2>1, NoQueryIs DEF Alone
<1> QED BY <1>3, <1>4, <1>5

-----------------------------------------------------------------------------
(* What was asked for, as the session is and after what it was told.         *)
Own(of) == IF token = "member" THEN of \in {"member", "missed"} ELSE of = None
Fits(k, url, d) ==
  /\ k = "me" => Own(d.of)
  /\ k \in {"list", "mine"} /\ url \in Guarded => d.hit \/ ~ d.rev < ack[k]

(* A copy that nobody marked is up to date, and so is the answer that a      *)
(* fetch nobody marked will bring.                                           *)
CopyOK(k) ==
  LET c == q[k] IN
  /\ IsQuery(c)
  /\ c.fetch = "idle" /\ c.data # None /\ ~ c.invalid /\ ~ c.error /\ ~ c.lost
       => Fits(k, c.url, c.data)
CallOK(k) ==
  LET c == call[k] IN
  c.at # "none" =>
    /\ q[k].fetch = "going" /\ c.url = q[k].url
    /\ ~ q[k].lost /\ k = "me" => Own(c.of)
    /\ ~ q[k].lost /\ c.at \in {"read", "answered"} => Fits(k, c.url, c)

CopiesInv ==
  /\ q = [k \in Watched |-> q[k]]
  /\ \A k \in Watched : CopyOK(k) /\ CallOK(k)
TellsInv ==
  /\ mut = [kind |-> mut.kind, at |-> mut.at, token |-> mut.token, rev |-> mut.rev]
  /\ mut.rev \in Nat /\ mut.rev <= rev
  /\ ack = [k \in {"list", "mine"} |-> ack[k]]
  /\ \A k \in {"list", "mine"} : ack[k] \in Nat /\ ack[k] <= rev
ClientInv == RecentInv /\ CopiesInv /\ TellsInv

LEMMA ClientInit == Init => ClientInv
<1> SUFFICES ASSUME Init PROVE ClientInv
  OBVIOUS
<1>1. CopiesInv
  BY NoQueryIs, NoCallIs DEF Init, CacheInit, CopiesInv, CopyOK, CallOK
<1>2. TellsInv
  BY DEF Init, CacheInit, TellsInv, NoMut, rev
<1> QED BY <1>1, <1>2, RecentInit DEF ClientInv

(* Keys whose session and news are as they were.                             *)
Quiet(k) == /\ k = "me" => token' = token
            /\ k \in {"list", "mine"} => ack'[k] = ack[k]

LEMMA MovedKeeps ==
  ASSUME NEW k \in Watched, CopyOK(k), CallOK(k), Moved(k, q[k], token'), Quiet(k)
  PROVE  CopyOK(k)' /\ CallOK(k)'
<1>1. CASE Alike(q'[k], q[k]) /\ call'[k] = call[k]
  BY <1>1 DEF CopyOK, CallOK, Alike, Fits, Own, Quiet
<1>2. CASE ~ (Alike(q'[k], q[k]) /\ call'[k] = call[k])
  <2>1. /\ q'[k].fetch = "going" /\ q'[k].lost = FALSE /\ IsQuery(q'[k])
        /\ call'[k] = Sent(q'[k].url, token')
    BY <1>2 DEF Moved
  <2>2. CopyOK(k)'
    BY <2>1 DEF CopyOK, IsQuery, Query
  <2>3. CallOK(k)'
    <3>1. /\ call'[k].at = "sent" /\ call'[k].url = q'[k].url
          /\ call'[k].of = IF token' = "member" THEN "member" ELSE None
      BY <2>1, NoCallIs
    <3> QED BY <2>1, <3>1, StartAssumption DEF CallOK, Own
  <2> QED BY <2>2, <2>3
<1> QED BY <1>1, <1>2

(* A query that was marked needs no session and no news.                     *)
LEMMA MarkedKeeps ==
  ASSUME NEW k \in Watched, NEW S, k \in S, CopyOK(k), CallOK(k),
         Moved(k, Invalidated(q, S)[k], token')
  PROVE  CopyOK(k)' /\ CallOK(k)'
<1>1. PICK p : p = Invalidated(q, S)[k]
  OBVIOUS
<1>2. /\ p.data = q[k].data /\ p.url = q[k].url
      /\ p.fetch = q[k].fetch
      /\ p.invalid <=> q[k].data # None
      /\ p.lost <=> q[k].lost \/ q[k].fetch # "idle"
  BY <1>1, MarkedIs DEF CopyOK
<1>3. CASE Alike(q'[k], p) /\ call'[k] = call[k]
  BY <1>2, <1>3 DEF CopyOK, CallOK, Alike
<1>4. CASE ~ (Alike(q'[k], p) /\ call'[k] = call[k])
  <2>1. /\ q'[k].fetch = "going" /\ q'[k].lost = FALSE /\ IsQuery(q'[k])
        /\ call'[k] = Sent(q'[k].url, token')
    BY <1>1, <1>4 DEF Moved
  <2>2. /\ call'[k].at = "sent" /\ call'[k].url = q'[k].url
        /\ call'[k].of = IF token' = "member" THEN "member" ELSE None
    BY <2>1, NoCallIs
  <2>3. CallOK(k)'
    BY <2>1, <2>2, StartAssumption DEF CallOK, Own
  <2>4. CopyOK(k)'
    BY <2>1 DEF CopyOK, IsQuery, Query
  <2> QED BY <2>3, <2>4
<1> QED BY <1>3, <1>4

LEMMA AloneKeeps ==
  ASSUME NEW k \in Watched, CopyOK(k), CallOK(k), Alone(k),
         token' = token, ack' = ack
  PROVE  CopyOK(k)' /\ CallOK(k)'
<1>1. CASE call'[k] = NoCall
  BY <1>1, NoCallIs DEF Alone, CopyOK, CallOK, IsQuery, Query
<1>2. CASE call'[k] = Sent(q[k].url, token) /\ q'[k].fetch = "going"
             /\ q'[k].url = q[k].url /\ q'[k].lost = q[k].lost
  BY <1>2, NoCallIs, StartAssumption DEF Alone, CopyOK, CallOK, Own
<1>3. CASE call'[k] = call[k] /\ q[k].fetch # "going" /\ q'[k].fetch = "idle"
             /\ (q'[k].error = TRUE \/ q'[k].data = None)
  BY <1>3 DEF Alone, CopyOK, CallOK
<1> QED BY <1>1, <1>2, <1>3 DEF Alone

LEMMA ReceivedKeeps ==
  ASSUME NEW k \in Watched, CopyOK(k), CallOK(k), ReceivedBy(k),
         token' = token, ack' = ack
  PROVE  CopyOK(k)' /\ CallOK(k)'
<1>1. CallOK(k)'
  BY NoCallIs DEF ReceivedBy, CallOK
<1>2. CASE q'[k].fetch = "going"
  BY <1>1, <1>2 DEF ReceivedBy, CopyOK, IsQuery, Query
<1>3. CASE q'[k].fetch = "idle" /\ q'[k].url = q[k].url /\ q'[k].lost = q[k].lost
             /\ q'[k].data = [rev |-> call[k].rev, hit |-> call[k].hit,
                              of |-> call[k].of]
  <2>1. ~ q[k].lost => Fits(k, q[k].url, call[k])
    BY DEF ReceivedBy, CallOK
  <2>2. PICK d : d = q'[k].data /\ d.rev = call[k].rev /\ d.hit = call[k].hit
                   /\ d.of = call[k].of
    BY <1>3
  <2>3. ~ q[k].lost => Fits(k, q[k].url, d)
    BY <2>1, <2>2 DEF Fits
  <2>4. PICK s : s = q'[k]
    OBVIOUS
  <2>5. /\ ~ s.lost => Fits(k, s.url, d)
        /\ s.fetch = "idle" /\ s.data = d /\ IsQuery(s)
    BY <1>3, <2>2, <2>3, <2>4 DEF ReceivedBy
  <2>6. ~ s.lost => Fits(k, s.url, d)'
    BY <2>5 DEF Fits, Own
  <2>7. CopyOK(k)'
    BY <2>4, <2>5, <2>6 DEF CopyOK
  <2> QED BY <1>1, <2>7
<1> QED BY <1>1, <1>2, <1>3 DEF ReceivedBy

LEMMA NotMe == "me" \notin Guarded
BY DEF Guarded, useBackTestReport

(* The server serves a call as the session and the news are.                 *)
LEMMA ServedKeeps ==
  ASSUME ClientInv, NEW x \in Watched,
         Serve(x) \/ Answer(x) \/ Forgets(x) \/ Fails(x), UNCHANGED <<q, token, ack>>
  PROVE  \A k \in Watched : CopyOK(k)' /\ CallOK(k)'
<1>1. \A k \in Watched : CopyOK(k) /\ CallOK(k)
  BY DEF ClientInv, CopiesInv
<1>2. \A k \in Watched : CopyOK(k)'
  BY <1>1 DEF CopyOK, Fits, Own, IsQuery
<1>3. PICK d : /\ d = call'[x] /\ \A y \in Watched \ {x} : call'[y] = call[y]
               /\ IsCall(call[x]) /\ IsCall(d) /\ call[x].at # "none"
               /\ d.url = call[x].url
               /\ d.of = call[x].of \/ (call[x].of = "member" /\ d.of = "missed")
               /\ \/ d.at \in {"sent", "refused"}
                  \/ d.at = "read" /\ (d.url # "me" => d.rev = rev)
                  \/ d.at = "answered" /\ d.hit = TRUE
                  \/ /\ d.at = "answered" /\ call[x].at = "read"
                     /\ d.hit = call[x].hit /\ d.rev = call[x].rev
  <2>1. RecentInv /\ IsCall(call[x])
    BY DEF ClientInv, RecentInv, Shape
  <2>2. CASE Serve(x)
    <3>1. /\ call[x].at = "sent" /\ Served(call[x], call'[x])
          /\ Becomes(x, call'[x])
      BY <2>1, <2>2, Serves
    <3>2. PICK d : d = call'[x]
      OBVIOUS
    <3>3. \A y \in Watched \ {x} : call'[y] = call[y]
      BY <2>1, <3>1, <3>2, Swap DEF Served
    <3> QED BY <2>1, <3>1, <3>2, <3>3 DEF Served
  <2>3. CASE Answer(x)
    <3>1. PICK d : d = call'[x]
      OBVIOUS
    <3>2. /\ call[x].at = "read" /\ IsCall(d) /\ Becomes(x, d)
          /\ d = [at |-> "answered", url |-> call[x].url, of |-> call[x].of,
                  rev |-> call[x].rev, hit |-> call[x].hit, asOf |-> 0,
                  took |-> now - call[x].asOf]
      BY <2>1, <2>3, <3>1, Answers
    <3>3. /\ d.at = "answered" /\ d.url = call[x].url /\ d.of = call[x].of
          /\ d.rev = call[x].rev /\ d.hit = call[x].hit
      BY <3>2
    <3>4. \A y \in Watched \ {x} : call'[y] = call[y]
      BY <2>1, <3>2, Swap
    <3> QED BY <2>1, <3>1, <3>2, <3>3, <3>4
  <2>4. CASE Fails(x)
    <3>1. PICK d : d = Refusal(call[x]) /\ Becomes(x, d)
      BY <2>4, Zenon DEF Fails
    <3>2. IsCall(d) /\ d.at = "refused" /\ d.url = call[x].url /\ d.of = call[x].of
      BY <2>1, <3>1, RefusalIs DEF Refusal, IsCall
    <3>3. call'[x] = d /\ \A y \in Watched \ {x} : call'[y] = call[y]
      BY <2>1, <3>1, <3>2, Swap
    <3>4. call[x].at # "none"
      BY <2>4 DEF Fails
    <3> QED BY <2>1, <3>2, <3>3, <3>4
  <2>5. CASE Forgets(x)
    <3>1. PICK d : /\ Becomes(x, d) /\ IsCall(d) /\ d.at = "sent"
                   /\ d.url = call[x].url /\ call[x].of = "member" /\ d.of = "missed"
      BY <2>1, <2>5, ForgetsIs DEF RecentInv
    <3>2. call'[x] = d /\ \A y \in Watched \ {x} : call'[y] = call[y]
      BY <2>1, <3>1, Swap
    <3>3. call[x].at # "none"
      BY <2>5 DEF Forgets
    <3> QED BY <2>1, <3>1, <3>2, <3>3
  <2> QED BY <2>2, <2>3, <2>4, <2>5
<1>4. ASSUME NEW k \in Watched \ {x} PROVE CallOK(k)'
  BY <1>1, <1>3, <1>4 DEF CallOK, Fits, Own
<1>5. CallOK(x)'
  <2>1. /\ q[x].fetch = "going" /\ d.url = q[x].url
        /\ ~ q[x].lost /\ x = "me" => Own(d.of)
    BY <1>1, <1>3, StartAssumption DEF CallOK, Own
  <2>2. ASSUME ~ q[x].lost, d.at \in {"read", "answered"},
               x \in {"list", "mine"}, d.url \in Guarded
        PROVE  d.hit \/ ~ d.rev < ack[x]
    <3>1. CASE d.at = "read"
      <4>1. d.rev = rev /\ rev \in Nat
        BY <1>3, <2>2, <3>1, NotMe DEF ClientInv, RecentInv, rev
      <4> QED BY <2>2, <4>1 DEF ClientInv, TellsInv
    <3>2. CASE d.hit = TRUE
      BY <3>2
    <3>3. CASE call[x].at = "read" /\ d.hit = call[x].hit /\ d.rev = call[x].rev
      BY <1>1, <1>3, <2>2, <3>3 DEF CallOK, Fits
    <3> QED BY <1>3, <2>2, <3>1, <3>2, <3>3
  <2>3. ~ q[x].lost /\ d.at \in {"read", "answered"} => Fits(x, d.url, d)
    BY <2>1, <2>2 DEF Fits
  <2>4. ~ q'[x].lost /\ d.at \in {"read", "answered"} => Fits(x, d.url, d)'
    BY <2>3 DEF Fits, Own
  <2>5. ~ q'[x].lost /\ x = "me" => Own(d.of)'
    BY <2>1 DEF Own
  <2> QED BY <1>3, <2>1, <2>4, <2>5 DEF CallOK
<1> QED BY <1>2, <1>4, <1>5

-----------------------------------------------------------------------------
(* The steps of the session.                                                 *)
LEMMA EnterFn ==
  ASSUME NEW Q, Q = [j \in Watched |-> Q[j]], NEW p, NEW t, Enter(Q, p, t)
  PROVE  q' = [j \in Watched |-> q'[j]]
BY DEF Enter, Quits, Fetched

LEMMA RefreshFn ==
  ASSUME NEW S, NEW t, Refresh(S, t)
  PROVE  q' = [j \in Watched |-> q'[j]]
BY DEF Refresh, Fetched

LEMMA StillKeeps ==
  ASSUME CopiesInv, UNCHANGED <<q, call, token, ack>>
  PROVE  CopiesInv'
BY DEF CopiesInv, CopyOK, CallOK, Fits, Own, IsQuery, Query

LEMMA MovesKeep ==
  ASSUME CopiesInv, q' = [j \in Watched |-> q'[j]],
         \A k \in Watched : Moved(k, q[k], token'), UNCHANGED <<token, ack>>
  PROVE  CopiesInv'
<1>1. ASSUME NEW k \in Watched PROVE CopyOK(k)' /\ CallOK(k)'
  BY MovedKeeps DEF CopiesInv, Quiet
<1> QED BY <1>1 DEF CopiesInv

LEMMA EnterKeeps ==
  ASSUME CopiesInv, NEW p, Enter(q, p, token), UNCHANGED <<token, ack>>
  PROVE  CopiesInv'
<1>1. \A k \in Watched : IsQuery(q[k])
  BY DEF CopiesInv, CopyOK
<1>2. \A k \in Watched : Moved(k, q[k], token)
  BY <1>1, EnterMoves
<1>3. q' = [j \in Watched |-> q'[j]]
  BY EnterFn DEF CopiesInv
<1> QED BY <1>2, <1>3, MovesKeep

(* What is out of date by a step is marked by it.                            *)
LEMMA RefreshKeeps ==
  ASSUME CopiesInv, NEW S, Refresh(S, token'), \A k \in Watched \ S : Quiet(k)
  PROVE  CopiesInv'
<1>1. q' = [j \in Watched |-> q'[j]]
  BY RefreshFn
<1>2. ASSUME NEW k \in Watched PROVE CopyOK(k)' /\ CallOK(k)'
  <2>1. CopyOK(k) /\ CallOK(k) /\ IsQuery(q[k])
    BY DEF CopiesInv, CopyOK
  <2>2. PICK t : t = token'
    OBVIOUS
  <2>3. Moved(k, Invalidated(q, S)[k], token')
    BY <2>1, <2>2, RefreshMoves
  <2>4. CASE k \in S
    BY <2>1, <2>3, <2>4, MarkedKeeps
  <2>5. CASE k \notin S
    <3>1. Invalidated(q, S)[k] = q[k]
      BY <2>5, Zenon DEF Invalidated
    <3> QED BY <2>1, <2>3, <2>5, <3>1, MovedKeeps
  <2> QED BY <2>4, <2>5
<1> QED BY <1>1, <1>2 DEF CopiesInv

LEMMA DeletedKeeps ==
  ASSUME CopiesInv, NEW S, NEW p, Enter(Invalidated(q, S), p, token), token' = token,
         \A k \in Watched \ S : Quiet(k)
  PROVE  CopiesInv'
<1>1. PICK Q : Q = Invalidated(q, S)
  OBVIOUS
<1>2. Q = [j \in Watched |-> Q[j]]
  BY <1>1, Zenon DEF Invalidated
<1>3. q' = [j \in Watched |-> q'[j]]
  BY <1>1, <1>2, EnterFn
<1>4. ASSUME NEW k \in Watched PROVE CopyOK(k)' /\ CallOK(k)'
  <2>1. CopyOK(k) /\ CallOK(k) /\ IsQuery(q[k])
    BY DEF CopiesInv, CopyOK
  <2>2. CASE k \in S
    <3>1. IsQuery(Q[k])
      BY <1>1, <2>1, <2>2, MarkedIs
    <3>2. Moved(k, Q[k], token)
      BY <1>1, <3>1, EnterMoves
    <3> QED BY <1>1, <2>1, <2>2, <3>2, MarkedKeeps
  <2>3. CASE k \notin S
    <3>1. Q[k] = q[k]
      BY <1>1, <2>3, Zenon DEF Invalidated
    <3>2. Moved(k, Q[k], token)
      BY <1>1, <2>1, <3>1, EnterMoves
    <3> QED BY <2>1, <2>3, <3>1, <3>2, MovedKeeps
  <2> QED BY <2>2, <2>3
<1> QED BY <1>3, <1>4 DEF CopiesInv

LEMMA HearKeeps ==
  ASSUME ClientInv, NEW k \in Watched, UNCHANGED <<token, ack>>,
         Receive(k, token) \/ Refused(k) \/ WakeUp(k, token) \/ Collect(k)
  PROVE  CopiesInv'
<1>1. /\ Shape /\ q = [j \in Watched |-> q[j]]
      /\ \A j \in Watched : CopyOK(j) /\ CallOK(j) /\ IsQuery(q[j])
  BY DEF ClientInv, RecentInv, CopiesInv, CopyOK
<1>2. q' = [j \in Watched |-> q'[j]]
  <2>1. \/ q' = q \/ \E d : q' = [q EXCEPT ![k] = d]
        \/ \E Q, S, url : q' = Fetched(Q, S, url)
    BY Zenon DEF Receive, Refused, WakeUp, Collect
  <2>2. ASSUME NEW d, q' = [q EXCEPT ![k] = d] PROVE q' = [j \in Watched |-> q'[j]]
    BY <1>1, <2>2, Zenon
  <2> QED BY <1>1, <2>1, <2>2 DEF Fetched
<1>3. CASE Receive(k, token)
  <2>1. ReceivedBy(k) /\ \A j \in Watched \ {k} : Moved(j, q[j], token)
    BY <1>1, <1>3, Receives
  <2>2. CopyOK(k)' /\ CallOK(k)'
    BY <1>1, <2>1, ReceivedKeeps
  <2>3. ASSUME NEW j \in Watched \ {k} PROVE CopyOK(j)' /\ CallOK(j)'
    BY <1>1, <2>1, MovedKeeps DEF Quiet
  <2> QED BY <1>2, <2>2, <2>3 DEF CopiesInv
<1>4. CASE Refused(k) \/ WakeUp(k, token) \/ Collect(k)
  <2>1. Alone(k)
    BY <1>1, <1>4, AloneIs
  <2>2. CopyOK(k)' /\ CallOK(k)'
    BY <1>1, <2>1, AloneKeeps
  <2>3. ASSUME NEW j \in Watched \ {k} PROVE CopyOK(j)' /\ CallOK(j)'
    BY <1>1, <2>1, <2>3 DEF Alone, CopyOK, CallOK, Fits, Own, IsQuery, Query
  <2> QED BY <1>2, <2>2, <2>3 DEF CopiesInv
<1> QED BY <1>3, <1>4

LEMMA FocusKeeps ==
  ASSUME CopiesInv, Focus(token), UNCHANGED <<token, ack>>
  PROVE  CopiesInv'
<1>1. PICK S, url : q' = Fetched(q, S, url) /\ call' = Calls(q, S, url, token)
  BY Zenon DEF Focus
<1>2. \A k \in Watched : IsQuery(q[k])
  BY DEF CopiesInv, CopyOK
<1>3. \A k \in Watched : Moved(k, q[k], token)
  BY <1>1, <1>2, FetchMoves
<1>4. q' = [j \in Watched |-> q'[j]]
  BY <1>1 DEF Fetched
<1> QED BY <1>3, <1>4, MovesKeep

(* What the member is told of is written, and stays so.                      *)
LEMMA ToldIs ==
  ASSUME TellsInv, Told
  PROVE  /\ ack' = [k \in {"list", "mine"} |-> ack'[k]]
         /\ \A k \in {"list", "mine"} : ack'[k] \in Nat /\ ack'[k] <= rev
         /\ \A k \in {"list", "mine"} \ Refreshes(mut.kind) : ack'[k] = ack[k]
<1>1. DOMAIN ack = {"list", "mine"}
  BY Zenon DEF TellsInv
<1>2. PICK told : told = IF mut.kind = "update" THEN {"list", "mine"} ELSE {"list"}
  OBVIOUS
<1>3. ack' = [k \in {"list", "mine"} |-> IF k \in told THEN mut.rev ELSE ack[k]]
  BY <1>1, <1>2, Zenon DEF Told
<1>4. Refreshes(mut.kind) = told
  BY <1>2 DEF Refreshes
<1> QED BY <1>3, <1>4 DEF TellsInv

LEMMA NoMutIs ==
  /\ NoMut = [kind |-> NoMut.kind, at |-> NoMut.at, token |-> NoMut.token,
              rev |-> NoMut.rev]
  /\ NoMut.rev = 0
BY DEF NoMut

LEMMA TellsKeep ==
  ASSUME TellsInv, writtenAt \in Seq(Nat), now \in Nat,
         writtenAt' = writtenAt \/ Writes,
         \/ mut' = mut \/ mut' = NoMut
         \/ \E kind, at, t, n : /\ n \in Nat /\ n <= rev'
               /\ mut' = [kind |-> kind, at |-> at, token |-> t, rev |-> n],
         ack' = ack \/ Told
  PROVE  TellsInv'
<1>1. rev \in Nat /\ rev' \in Nat /\ rev <= rev'
  BY DEF Writes, rev
<1>2. /\ ack' = [k \in {"list", "mine"} |-> ack'[k]]
      /\ \A k \in {"list", "mine"} : ack'[k] \in Nat /\ ack'[k] <= rev'
  BY <1>1, ToldIs DEF TellsInv
<1>3. /\ mut' = [kind |-> mut'.kind, at |-> mut'.at, token |-> mut'.token,
                 rev |-> mut'.rev]
      /\ mut'.rev \in Nat /\ mut'.rev <= rev'
  <2>1. CASE mut' = mut \/ mut' = NoMut
    BY <1>1, <2>1, NoMutIs DEF TellsInv
  <2>2. CASE \E kind, at, t, n : /\ n \in Nat /\ n <= rev'
               /\ mut' = [kind |-> kind, at |-> at, token |-> t, rev |-> n]
    BY <2>2
  <2> QED BY <2>1, <2>2
<1> QED BY <1>2, <1>3 DEF TellsInv

LEMMA CarryIs ==
  ASSUME TellsInv, writtenAt \in Seq(Nat), now \in Nat, Carry
  PROVE  \E kind, at, t, n : /\ n \in Nat /\ n <= rev'
           /\ mut' = [kind |-> kind, at |-> at, token |-> t, rev |-> n]
<1>1. PICK n : n = Len(writtenAt')
  OBVIOUS
<1>2. PICK c : c = mut
  OBVIOUS
<1>3. PICK a : a = [c EXCEPT !.at = "done"]
  OBVIOUS
<1>4. PICK b : b = [a EXCEPT !.rev = n]
  OBVIOUS
<1>5. mut' = b
  BY <1>1, <1>2, <1>3, <1>4, Zenon DEF Carry
<1>6. n \in Nat /\ n <= rev'
  BY <1>1 DEF Carry, Writes, rev
<1>7. a = [kind |-> c.kind, at |-> "done", token |-> c.token, rev |-> c.rev]
  BY <1>2, <1>3 DEF TellsInv
<1>8. b = [kind |-> c.kind, at |-> "done", token |-> c.token, rev |-> n]
  BY <1>4, <1>7
<1> QED BY <1>5, <1>6, <1>8, Zenon

LEMMA SignedUpIs ==
  ASSUME TellsInv, writtenAt \in Seq(Nat), SignedUp
  PROVE  \E kind, at, t, n : /\ n \in Nat /\ n <= rev'
           /\ mut' = [kind |-> kind, at |-> at, token |-> t, rev |-> n]
<1>1. PICK c : c = mut
  OBVIOUS
<1>2. PICK t : t = token
  OBVIOUS
<1>3. PICK a : a = [c EXCEPT !.kind = "login"]
  OBVIOUS
<1>4. PICK b : b = [a EXCEPT !.at = "sent"]
  OBVIOUS
<1>5. PICK d : d = [b EXCEPT !.token = t]
  OBVIOUS
<1>6. mut' = d
  BY <1>1, <1>2, <1>3, <1>4, <1>5, Zenon DEF SignedUp
<1>7. a = [kind |-> "login", at |-> c.at, token |-> c.token, rev |-> c.rev]
  BY <1>1, <1>3 DEF TellsInv
<1>8. b = [kind |-> "login", at |-> "sent", token |-> c.token, rev |-> c.rev]
  BY <1>4, <1>7
<1>9. d = [kind |-> "login", at |-> "sent", token |-> t, rev |-> c.rev]
  BY <1>5, <1>8
<1>10. c.rev \in Nat /\ c.rev <= rev'
  BY <1>1 DEF TellsInv, SignedUp, Server, rev
<1> QED BY <1>6, <1>9, <1>10, Zenon

LEMMA TellsNext == ClientInv /\ [Next]_vars => TellsInv'
<1> SUFFICES ASSUME ClientInv, [Next]_vars PROVE TellsInv'
  OBVIOUS
<1>1. TellsInv /\ writtenAt \in Seq(Nat) /\ now \in Nat /\ rev \in Nat
  BY DEF ClientInv, RecentInv, rev
<1>2. ASSUME UNCHANGED writtenAt, ack' = ack \/ Told, mut' = mut \/ mut' = NoMut
      PROVE  TellsInv'
  BY <1>1, <1>2, TellsKeep
<1>3. CASE \E p \in StartPages : Open(p)
  BY <1>2, <1>3 DEF Open, Server
<1>4. CASE \E p \in DOMAIN Router : Visit(p)
  BY <1>2, <1>4 DEF Visit, Server
<1>5. CASE \E kind \in DOMAIN Submits : Submit(kind)
  <2>1. PICK kind : Submit(kind)
    BY <1>5
  <2>2. /\ writtenAt' = writtenAt /\ ack' = ack
        /\ \/ mut' = mut
           \/ mut' = [kind |-> kind, at |-> "sent", token |-> token, rev |-> 0]
    BY <2>1 DEF Submit, Server
  <2>3. rev' \in Nat
    BY <1>1, <2>2 DEF rev
  <2> QED BY <1>1, <2>2, <2>3, TellsKeep
<1>6. CASE Jump
  BY <1>2, <1>6 DEF Jump, Server
<1>7. CASE Carry
  <2>1. (writtenAt' = writtenAt \/ Writes) /\ ack' = ack
    BY <1>7 DEF Carry
  <2> QED BY <1>1, <1>7, <2>1, CarryIs, TellsKeep
<1>8. CASE Refuse
  BY <1>2, <1>8 DEF Refuse, Server
<1>9. CASE AnswerIsLost
  BY <1>2, <1>9 DEF AnswerIsLost
<1>10. CASE Saved
  BY <1>2, <1>10 DEF Saved, Server
<1>11. CASE Deleted
  BY <1>2, <1>11 DEF Deleted, Server
<1>12. CASE SignedUp
  <2>1. writtenAt' = writtenAt /\ ack' = ack
    BY <1>12 DEF SignedUp, Server
  <2> QED BY <1>1, <1>12, <2>1, SignedUpIs, TellsKeep
<1>13. CASE SignedIn
  BY <1>2, <1>13 DEF SignedIn, Server
<1>14. CASE LogOut
  BY <1>2, <1>14 DEF LogOut, Server
<1>15. CASE Look
  BY <1>2, <1>15 DEF Look, Server
<1>16. CASE \E k \in Watched : Hear(k) \/ Retry(k) \/ Drop(k)
  BY <1>2, <1>16 DEF Hear, Retry, Drop, Client, Server
<1>17. CASE \E x \in Watched : ServerStep(x)
  BY <1>2, <1>17 DEF ServerStep, Serve, Answer, sessionVars
<1>18. CASE \E x \in Watched : (Forgets(x) \/ Fails(x))
                               /\ UNCHANGED <<clientVars, sessionVars>>
  BY <1>2, <1>18 DEF Forgets, Fails, sessionVars
<1>19. CASE (Tick \/ OtherWrite) /\ UNCHANGED <<clientVars, sessionVars>>
  BY <1>1, <1>2, <1>19, TellsKeep DEF Tick, OtherWrite, sessionVars
<1>20. CASE UNCHANGED vars
  BY <1>2, <1>20 DEF vars, cacheVars, sessionVars
<1> QED BY <1>3, <1>4, <1>5, <1>6, <1>7, <1>8, <1>9, <1>10, <1>11, <1>12, <1>13,
           <1>14, <1>15, <1>16, <1>17, <1>18, <1>19, <1>20 DEF Next

LEMMA ClientNext == ClientInv /\ [Next]_vars => ClientInv'
<1> SUFFICES ASSUME ClientInv, [Next]_vars PROVE ClientInv'
  OBVIOUS
<1>1. RecentInv' /\ TellsInv'
  BY RecentNext, TellsNext DEF ClientInv
<1> SUFFICES CopiesInv'
  BY <1>1 DEF ClientInv
<1>2. CopiesInv /\ TellsInv
  BY DEF ClientInv
<1>3. CASE \E p \in StartPages : Open(p)
  BY <1>2, <1>3, EnterKeeps DEF Open
<1>4. CASE \E p \in DOMAIN Router : Visit(p)
  BY <1>2, <1>4, EnterKeeps DEF Visit
<1>5. CASE \E kind \in DOMAIN Submits : Submit(kind)
  BY <1>2, <1>5, StillKeeps DEF Submit
<1>6. CASE Jump
  BY <1>2, <1>6, EnterKeeps DEF Jump
<1>7. CASE Carry
  BY <1>2, <1>7, StillKeeps DEF Carry, clientVars
<1>8. CASE Refuse
  BY <1>2, <1>8, StillKeeps DEF Refuse, clientVars
<1>9. CASE AnswerIsLost
  BY <1>2, <1>9, StillKeeps DEF AnswerIsLost, clientVars
<1>10. ASSUME Told, token' = token
       PROVE  \A k \in Watched \ Refreshes(mut.kind) : Quiet(k)
  BY <1>2, <1>10, ToldIs DEF Quiet
<1>11. CASE Saved
  <2>1. Told /\ Refresh(Refreshes(mut.kind), token') /\ token' = token
    BY <1>11 DEF Saved
  <2> QED BY <1>2, <1>10, <2>1, RefreshKeeps
<1>12. CASE Deleted
  <2>1. PICK S : S = Refreshes(mut.kind)
    OBVIOUS
  <2>2. /\ Told /\ token' = token
        /\ Refresh(S, token') \/ Enter(Invalidated(q, S), "mockFeeds", token)
    BY <1>12, <2>1 DEF Deleted
  <2>3. \A k \in Watched \ S : Quiet(k)
    BY <1>10, <2>1, <2>2
  <2> QED BY <1>2, <2>2, <2>3, RefreshKeeps, DeletedKeeps
<1>13. CASE SignedUp
  BY <1>2, <1>13, StillKeeps DEF SignedUp, clientVars
<1>14. CASE SignedIn \/ LogOut
  <2>1. Refresh(Watched, token')
    BY <1>14 DEF SignedIn, LogOut, Everything
  <2> QED BY <1>2, <2>1, RefreshKeeps
<1>15. CASE Look
  BY <1>2, <1>15, FocusKeeps DEF Look
<1>16. CASE \E k \in Watched : Hear(k) \/ Retry(k) \/ Drop(k)
  BY <1>2, <1>16, HearKeeps DEF Hear, Retry, Drop, Client
<1>17. CASE \E x \in Watched : (ServerStep(x) \/ Forgets(x) \/ Fails(x))
                               /\ UNCHANGED <<clientVars, sessionVars>>
  <2>1. PICK x \in Watched : /\ Serve(x) \/ Answer(x) \/ Forgets(x) \/ Fails(x)
                             /\ UNCHANGED <<q, token, ack>>
    BY <1>17 DEF ServerStep, clientVars, sessionVars
  <2>2. \A k \in Watched : CopyOK(k)' /\ CallOK(k)'
    BY <2>1, ServedKeeps
  <2> QED BY <1>2, <2>1, <2>2 DEF CopiesInv
<1>18. CASE (Tick \/ OtherWrite) /\ UNCHANGED <<clientVars, sessionVars>>
  BY <1>2, <1>18, StillKeeps DEF Tick, OtherWrite, clientVars, sessionVars
<1>19. CASE UNCHANGED vars
  BY <1>2, <1>19, StillKeeps DEF vars, cacheVars, clientVars, sessionVars
<1> QED BY <1>3, <1>4, <1>5, <1>6, <1>7, <1>8, <1>9, <1>11, <1>12, <1>13, <1>14,
           <1>15, <1>16, <1>17, <1>18, <1>19 DEF Next, ServerStep

(* A list or a strategy that was fetched shows every write the member was    *)
(* told of, or came from Redis, or was marked while it was on its way        *)
(* (useForkStrategy, useUpdateMyStrategy, useDeleteMyStrategy: onSuccess).   *)
THEOREM OwnWritesAreSeen == Spec => []OwnWritesReachTheCopies
<1>1. ClientInv => OwnWritesReachTheCopies
  <2> SUFFICES ASSUME ClientInv, NEW k \in {"list", "mine"}
               PROVE  LET c == q[k] IN
                      /\ c.fetch = "idle" /\ c.data # None /\ ~ c.invalid /\ ~ c.error
                      /\ c.url \in Guarded /\ c.data.rev < ack[k]
                      => c.data.hit \/ c.lost
    BY DEF OwnWritesReachTheCopies
  <2>1. k \in Watched /\ CopyOK(k)
    BY StartAssumption DEF ClientInv, CopiesInv
  <2> QED BY <2>1 DEF CopyOK, Fits
<1> QED BY <1>1, ClientInit, ClientNext, PTL DEF Spec

(* The profile that is shown is of who is signed in, or nobody's where the     *)
(* server failed to look its member up, unless it was on its                 *)
(* way when that changed (useMember: refreshAll).                            *)
THEOREM ProfilesAreTheSessions == Spec => []ProfileIsTheSessions
<1>1. ClientInv => ProfileIsTheSessions
  BY StartAssumption DEF ClientInv, CopiesInv, CopyOK, Fits, Own,
     ProfileIsTheSessions
<1> QED BY <1>1, ClientInit, ClientNext, PTL DEF Spec

===============================================================================
