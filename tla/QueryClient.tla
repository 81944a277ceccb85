------------------------------ MODULE QueryClient ------------------------------
(*****************************************************************************)
(* The client's copies of what it asked for: one query per key, shared by    *)
(* every part of a page that reads the key.  A fetch that is under way is    *)
(* joined and not begun again; an answer that fails is asked for again after *)
(* a while, as long as the page that wanted it has not been left.            *)
(*****************************************************************************)
EXTENDS ResponseCache

CONSTANT RetryMax   (* how often a fetch that fails is made again *)

ASSUME QueryAssumption == RetryMax \in Nat

VARIABLES
  page,    (* the page that is shown                                       *)
  q        (* q[k]: the query of key k                                     *)

clientVars == <<page, q>>

(* data: None or the answer shown; quits: its page was left and it is not    *)
(* tried again; lost: it was marked out of date while a fetch was under way, *)
(* which will take the mark away.  No copy counts as fresh.  *)
NoQuery == [data |-> None, url |-> None, invalid |-> FALSE,
            fetch |-> "idle", failed |-> 0, quits |-> FALSE, error |-> FALSE,
            lost |-> FALSE]

Retries(k) == IF k = "mine" THEN 0 ELSE RetryMax

(* Nothing is needed, or the data of key k is there.                         *)
Shown(Q, k) == k \in Watched => Q[k].data # None

(* The keys a piece keeps mounted, and where the links of a page lead.       *)
Mounts(Q, piece) == {k \in DOMAIN piece.reads \intersect Watched :
                       Shown(Q, piece.reads[k].needs)}
Mounted(Q, p) == Mounts(Q, Whole[p])
Leads(Q, p)   == {l.to : l \in {m \in Whole[p].links : Shown(Q, m.needs)}}

(* The client Q with the keys of S fetched, each from the URL the page that  *)
(* asks gives; and the calls that are sent for it.                           *)
Begins(Q, S) == {k \in S : Q[k].fetch = "idle"}
Fetched(Q, S, url) ==
  [k \in Watched |->
     IF k \in Begins(Q, S)
     THEN [Q[k] EXCEPT !.fetch = "going", !.failed = 0, !.quits = FALSE,
             !.lost = FALSE, !.url = url[k], !.error = @ /\ Q[k].data # None]
     ELSE Q[k]]
Calls(Q, S, url, token) ==
  [x \in Watched |-> IF x \in Begins(Q, S) THEN Sent(url[x], token) ELSE call[x]]
Quits(Q, S) ==
  [k \in Watched |-> IF k \in S /\ Q[k].fetch # "idle"
                     THEN [Q[k] EXCEPT !.quits = TRUE] ELSE Q[k]]

LastUrl(Q) == [k \in Watched |-> Q[k].url]

(* Page p is entered: what only the page before it mounted is given up, and  *)
(* what p mounts is fetched, however young a copy is.  A page that sends its *)
(* visitor away has been mounted for a moment first.                         *)
Enter(Q, p, token) ==
  LET home   == AuthCheck(p, token)
      own(d) == Mounts(Q, Router[d])
      after  == Mounts(Q, Layout[home])
      stays  == Mounts(Q, Layout[page]) \intersect after
      asked  == own(p) \union own(home) \union (after \ stays)
      Left   == Quits(Q, Mounted(Q, page) \ stays)
      url    == UrlOn[p] @@ UrlOn[home]
      Asked  == Fetched(Left, asked, url)
  IN /\ page' = home
     /\ IF p = page THEN q' = Q /\ UNCHANGED call
        ELSE /\ q'    = IF home = p THEN Asked ELSE Quits(Asked, own(p) \ after)
             /\ call' = Calls(Left, asked, url, token)

(* invalidateQueries: the copies of S are marked, and those a page reads are *)
(* fetched.  One that is being fetched is not fetched again.                 *)
Invalidated(Q, S) ==
  [k \in Watched |->
     IF k \in S THEN [Q[k] EXCEPT !.invalid = Q[k].data # None,
                                  !.lost = @ \/ Q[k].fetch # "idle"]
                ELSE Q[k]]
Refresh(S, token) ==
  LET Q == Invalidated(q, S)
      read == S \intersect Mounted(q, page)
  IN q' = Fetched(Q, read, LastUrl(Q)) /\ call' = Calls(Q, read, LastUrl(Q), token)

(* The answer of the server reaches the client: what was waiting for this    *)
(* data to be shown is mounted.                                              *)
Receive(k, token) ==
  LET Q == [q EXCEPT ![k] =
              [@ EXCEPT !.data = [rev |-> call[k].rev, hit |-> call[k].hit,
                                  of |-> call[k].of],
                        !.invalid = FALSE, !.fetch = "idle", !.failed = 0, !.error = FALSE]]
      new == Mounted(Q, page) \ Mounted(q, page)
  IN /\ call[k].at = "answered"
     /\ q' = Fetched(Q, new, UrlOn[page])
     /\ call' = [Calls(Q, new, UrlOn[page], token) EXCEPT ![k] = NoCall]

(* A slip: a refusal is asked about again for ever.                          *)
TriesForEver(k) == ~ q[k].quits

TriesAgain(k) == ~ q[k].quits /\ q[k].failed < Retries(k)

GivesUp(c) == [c EXCEPT !.fetch = "idle", !.error = TRUE]

Refused(k) ==
  /\ call[k].at = "refused"
  /\ q' = [q EXCEPT ![k] = IF TriesAgain(k)
                           THEN [@ EXCEPT !.fetch = "waiting",
                                   !.failed = IF @ < Retries(k) THEN @ + 1 ELSE @]
                           ELSE GivesUp(@)]
  /\ Becomes(k, NoCall)

(* The pause before the next try is over.                                    *)
WakeUp(k, token) ==
  /\ q[k].fetch = "waiting"
  /\ IF q[k].quits
     THEN q' = [q EXCEPT ![k] = GivesUp(@)] /\ UNCHANGED call
     ELSE q' = [q EXCEPT ![k].fetch = "going"] /\ Becomes(k, Sent(q[k].url, token))

(* The window is shown again.                                                *)
Focus(token) ==
  LET S == Mounted(q, page) IN
  q' = Fetched(q, S, UrlOn[page]) /\ call' = Calls(q, S, UrlOn[page], token)

(* A query no page has read for five minutes is dropped.                     *)
Collect(k) ==
  /\ k \notin Mounted(q, page) /\ q[k].fetch = "idle" /\ q[k] # NoQuery
  /\ q' = [q EXCEPT ![k] = NoQuery]
  /\ UNCHANGED call

-----------------------------------------------------------------------------
ClientTypeOK ==
  /\ page \in DOMAIN Router
  /\ \A k \in Watched :
       /\ q[k].fetch \in {"idle", "going", "waiting"}
       /\ (call[k] # NoCall) = (q[k].fetch = "going")
       /\ q[k].failed \in 0 .. Retries(k)
       /\ q[k].data # None => q[k].data.rev <= rev
===============================================================================
