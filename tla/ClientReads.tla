------------------------------ MODULE ClientReads ------------------------------
(*****************************************************************************)
(* A browser and the server: the member visits pages, signs in and out, and  *)
(* forks, changes, deletes and creates strategies, while the copies in the   *)
(* client and the answers in Redis grow old.                                 *)
(*****************************************************************************)
EXTENDS QueryClient

CONSTANTS
  StartPages,   (* the pages a visit may begin with                        *)
  StartTokens,  (* what localStorage may hold: no token ever ("none"), an   *)
                (* empty one ("out"), or the member's                       *)
  MaxGestures   (* bound *)

ASSUME StartAssumption ==
  /\ {"list", "mine", "detail", "me"} \subseteq Watched
  /\ StartPages \subseteq DOMAIN Router
  /\ StartTokens \subseteq {"none", "out", "member"}
  /\ None \notin {"member", "missed"}
  /\ MaxGestures \in Nat

VARIABLES
  token,
  mut,      (* the one request to write that is under way                   *)
  ack,      (* ack[k]: the last write the client was told of that copy k    *)
            (* should show                                                  *)
  form,     (* the form of the update page: the copy it was filled from,    *)
            (* and whether the deletion was clicked once                    *)
  jump,     (* half a second after a submission the page will change        *)
  gestures  (* bound: the member's actions                                  *)

sessionVars == <<token, mut, ack, form, jump, gestures>>
vars == <<cacheVars, clientVars, sessionVars>>

NoMut  == [kind |-> None, at |-> "none", token |-> None, rev |-> 0]
NoForm == [base |-> None, asked |-> FALSE]

Init ==
  /\ CacheInit
  /\ page = "landing" /\ q = [k \in Watched |-> NoQuery]
  /\ token \in StartTokens
  /\ mut = NoMut /\ ack = [k \in {"list", "mine"} |-> 0]
  /\ form = NoForm /\ jump = FALSE /\ gestures = 0

Gesture   == gestures < MaxGestures /\ gestures' = gestures + 1
Server    == UNCHANGED <<now, writtenAt, gone, store, faults>>
SetsFault == faults < MaxFaults /\ faults' = faults + 1

(* The fields of the update page are filled whenever it is rendered, if its  *)
(* query has succeeded.                                                      *)
Fill(old, c) ==
  IF c.data # None /\ ~ c.error THEN [old EXCEPT !.base = c.data.rev] ELSE old

(* What a step that changed the page or a query leaves of the form.          *)
Rendered(f) ==
  form' = IF page' # "mockUpdate" THEN NoForm
          ELSE Fill(IF page # page' THEN NoForm ELSE f, q'["detail"])
Renders == Rendered(form)

-----------------------------------------------------------------------------
(* The first page, by its address; then along the links.                     *)
Open(p) ==
  /\ page = "landing" /\ gestures = 0
  /\ Enter(q, p, token) /\ Renders
  /\ Server /\ UNCHANGED <<token, mut, ack, jump, gestures>>

Visit(p) ==
  /\ p \in Leads(q, page)
  /\ Gesture /\ Enter(q, p, token) /\ Renders
  /\ Server /\ UNCHANGED <<token, mut, ack, jump>>

(* The profile shows the member, or the form to sign in.                     *)
Profiles == {"takerProfile", "makerProfile"}
LoggedIn == q["me"].data # None /\ q["me"].data.of = "member"

Submits == [fork   |-> {"mockCreate", "vmStart"}, create |-> {"makerCreate"},
            update |-> {"mockUpdate"}, delete |-> {"mockUpdate"},
            login  |-> Profiles, signUp |-> Profiles]

(* The success of a fork and of a change is announced as they are sent, and  *)
(* the page follows; a deletion is clicked twice, and counts as one gesture. *)
Submit(kind) ==
  /\ page \in Submits[kind] /\ mut = NoMut
  /\ kind \in {"login", "signUp"} => ~ LoggedIn
  /\ IF kind = "delete" /\ form.asked THEN UNCHANGED gestures ELSE Gesture
  /\ UNCHANGED <<page, q, call, token, ack>>
  /\ IF kind = "delete" /\ ~ form.asked
     THEN Rendered([form EXCEPT !.asked = TRUE]) /\ UNCHANGED <<mut, jump>>
     ELSE /\ mut' = [kind |-> kind, at |-> "sent", token |-> token, rev |-> 0]
          /\ jump' = (jump \/ kind = "update" \/ page = "mockCreate")
          /\ Renders
  /\ Server

(* setTimeout: wherever the member is by now.                                *)
Jump ==
  /\ jump /\ jump' = FALSE
  /\ Enter(q, "mockFeeds", token) /\ Renders
  /\ Server /\ UNCHANGED <<token, mut, ack, gestures>>

(* The server carries a write out, or refuses it.                            *)
May == /\ mut.kind \in {"fork", "create", "update", "delete"} => mut.token = "member"
       /\ mut.kind \in {"fork", "update", "delete"} => ~ gone
Carry ==
  /\ mut.at = "sent" /\ May
  /\ IF mut.kind \in {"login", "signUp"} THEN UNCHANGED writtenAt
                                         ELSE rev < MaxWrites /\ Writes
  /\ gone' = (gone \/ mut.kind = "delete")
  /\ mut' = [mut EXCEPT !.at = "done", !.rev = Len(writtenAt')]
  /\ UNCHANGED <<now, store, call, faults, clientVars, token, ack, form,
                 jump, gestures>>
Refuse ==
  /\ mut.at = "sent" /\ (May => mut.kind \in {"login", "signUp"})
  /\ mut' = NoMut
  /\ UNCHANGED <<clientVars, call, token, ack, jump, gestures>>
  /\ Server /\ Renders
AnswerIsLost ==
  /\ mut.at \in {"sent", "done"} /\ SetsFault
  /\ mut' = NoMut
  /\ UNCHANGED <<now, writtenAt, gone, store, call, clientVars, token, ack,
                 jump, gestures>>
  /\ Renders

-----------------------------------------------------------------------------
(* A slip: what a fork adds is not fetched.                                  *)
ForgetsForks(kind) == IF kind = "update" THEN {"list", "mine"}
                      ELSE IF kind = "fork" THEN {} ELSE {"list"}

(* The keys that are out of date once a write is answered.                   *)
Refreshes(kind) == IF kind = "update" THEN {"list", "mine"} ELSE {"list"}

(* The answer to a write: onSuccess.                                         *)
Told ==
  ack' = [k \in DOMAIN ack |->
            IF k \in (IF mut.kind = "update" THEN {"list", "mine"} ELSE {"list"})
            THEN mut.rev ELSE ack[k]]

Saved ==
  /\ mut.at = "done" /\ mut.kind \in {"fork", "create", "update"}
  /\ Told /\ Refresh(Refreshes(mut.kind), token)
  /\ mut' = NoMut /\ UNCHANGED page /\ Renders
  /\ Server /\ UNCHANGED <<token, jump, gestures>>

Deleted ==
  /\ mut.at = "done" /\ mut.kind = "delete"
  /\ Told
  /\ IF page = "mockFeeds"
     THEN Refresh(Refreshes("delete"), token) /\ UNCHANGED page
     ELSE Enter(Invalidated(q, Refreshes("delete")), "mockFeeds", token)
  /\ mut' = NoMut /\ Renders
  /\ Server /\ UNCHANGED <<token, jump, gestures>>

(* A slip: signing in or out fetches nothing.                                *)
NobodysCopies == {}

(* refreshAll: every copy is out of date once another member is signed in.   *)
Everything == Watched

SignedUp ==
  /\ mut.at = "done" /\ mut.kind = "signUp"
  /\ mut' = [mut EXCEPT !.kind = "login", !.at = "sent", !.token = token]
  /\ UNCHANGED <<clientVars, call, token, ack, jump, gestures>>
  /\ Server /\ Renders

SignedIn ==
  /\ mut.at = "done" /\ mut.kind = "login"
  /\ token' = "member" /\ Refresh(Everything, token')
  /\ mut' = NoMut /\ UNCHANGED page /\ Renders
  /\ Server /\ UNCHANGED <<ack, jump, gestures>>

LogOut ==
  /\ page \in Profiles /\ LoggedIn /\ Gesture
  /\ token' = "out" /\ Refresh(Everything, token')
  /\ UNCHANGED page /\ Renders
  /\ Server /\ UNCHANGED <<mut, ack, jump>>

-----------------------------------------------------------------------------
(* The queries.                                                              *)
Look ==
  /\ Gesture /\ Focus(token) /\ UNCHANGED page /\ Renders
  /\ Server /\ UNCHANGED <<token, mut, ack, jump>>

Client(k, step) ==
  /\ step /\ UNCHANGED page /\ Renders
  /\ Server /\ UNCHANGED <<token, mut, ack, jump, gestures>>

Hear(k)   == Client(k, Receive(k, token) \/ Refused(k))
Retry(k)  == Client(k, WakeUp(k, token))
Drop(k)   == Client(k, Collect(k))

ServerStep(x) ==
  (Serve(x) \/ Answer(x)) /\ UNCHANGED <<clientVars, sessionVars>>

Next ==
  \/ \E p \in StartPages : Open(p)
  \/ \E p \in DOMAIN Router : Visit(p)
  \/ \E kind \in DOMAIN Submits : Submit(kind)
  \/ Jump \/ Carry \/ Refuse \/ AnswerIsLost
  \/ Saved \/ Deleted \/ SignedUp \/ SignedIn \/ LogOut \/ Look
  \/ \E k \in Watched : Hear(k) \/ Retry(k) \/ Drop(k)
  \/ \E x \in Watched : ServerStep(x)
  \/ \E x \in Watched : (Forgets(x) \/ Fails(x)) /\ UNCHANGED <<clientVars, sessionVars>>
  \/ (Tick \/ OtherWrite) /\ UNCHANGED <<clientVars, sessionVars>>

(* The server and the network answer, and a pause ends.                      *)
Progress == \/ \E x \in Watched : ServerStep(x)
            \/ \E k \in Watched : Hear(k) \/ Retry(k)

Spec == Init /\ [][Next]_vars /\ WF_vars(Progress)

-----------------------------------------------------------------------------
TypeOK ==
  /\ CacheTypeOK /\ ClientTypeOK
  /\ token \in {"none", "out", "member"}
  /\ mut.at \in {"none", "sent", "done"}

(* What the member has written, and was told was written, is in the copies   *)
(* of the lists and of the strategy, once they are fetched: a copy that is   *)
(* older was answered from Redis, or was being fetched when it was marked.   *)
(* (states/strategy/query/useForkStrategy.ts:11 and its like.)               *)
OwnWritesReachTheCopies ==
  \A k \in {"list", "mine"} :
    LET c == q[k] IN
    /\ c.fetch = "idle" /\ c.data # None /\ ~ c.invalid /\ ~ c.error
    /\ c.url \in Guarded /\ c.data.rev < ack[k]
    => c.data.hit \/ c.lost

(* The profile is the one of who is signed in, unless it was being fetched   *)
(* when that changed (states/member/query/useMember.ts:21).  A session that  *)
(* is alive may show as nobody's, when the server failed to look its member  *)
(* up; one that is over never shows a member.                                *)
ProfileIsTheSessions ==
  LET c == q["me"] IN
  /\ c.fetch = "idle" /\ c.data # None /\ ~ c.invalid /\ ~ c.error
  => \/ c.lost
     \/ token = "member" /\ c.data.of \in {"member", "missed"}
     \/ token # "member" /\ c.data.of = None

(* Every fetch comes to an end, once the member is at rest: it is tried      *)
(* again a few times only (src/react/src/App.tsx:28).                        *)
FetchesEnd == []<>(\A k \in Watched : q[k].fetch = "idle")
===============================================================================
