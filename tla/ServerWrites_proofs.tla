-------------------------- MODULE ServerWrites_proofs --------------------------
(*****************************************************************************)
(* The data server, for any number of requests of any kind, addresses, tags, *)
(* tickers and faults: members (what the answers say of a row is so, and an  *)
(* address is registered once), strategies (a fork copies its source, what   *)
(* is answered is whole), tags (a second row of one hash only by an          *)
(* overlap), the lists (a reader misses only what is deleted), and types.    *)
(*****************************************************************************)
EXTENDS ServerWrites, FiniteSetTheorems, SequenceTheorems, TLAPS

(* Requests and their frames are functions on Requests, of records.          *)
Shape ==
  /\ call  = [r \in Requests |-> call[r]]
  /\ frame = [r \in Requests |-> frame[r]]
  /\ \A r \in Requests : \E a, u, o, s :
       call[r] = [route |-> a, user |-> u, on |-> o, status |-> s]

Writing == {"register", "change"}

(* An open request that writes a member: what it knows of the request and,   *)
(* past the look-up, of the table.                                           *)
Frames == [pc : {"find", "select", "write"}, asked : Asked, entity : Asked,
           patch : Asked, insert : BOOLEAN]
WriterOK(r) ==
  LET f == frame[r] IN
  /\ call[r].on \in Emails
  /\ f \in Frames
  /\ f.pc = "find" => f.entity = f.asked
  /\ f.entity.password = f.asked.password
  /\ f.asked.name # None => f.entity.name = f.asked.name
  /\ f.pc = "write" => f.patch.password = f.entity.password
  /\ f.insert => call[r].route = "register"
  /\ f.pc = "write" /\ ~ f.insert => role[call[r].on] # None
  /\ call[r].route = "register" => f.asked \in Account
  /\ call[r].route = "change" /\ f.pc # "find" =>
       role[call[r].on] # None /\ f.entity.name \in Names

WritersOK == \A r \in Requests :
  call[r].status = Open /\ call[r].route \in Writing => WriterOK(r)

TablesOK ==
  /\ role \in [Emails -> Roles \union {None}]
  /\ account  \in [Emails -> Asked]
  /\ promised \in [Emails -> Asked]
  /\ overlapped \subseteq Emails
  /\ \A e \in Emails : IF role[e] = None THEN account[e] = NoAccount
                                         ELSE account[e] \in Account
  /\ \A e \in Emails : account[e].password = promised[e].password

(* As long as no two requests wrote the row of e at once, the one that       *)
(* writes it knows it as it is.                                              *)
Knows(r, e) ==
  LET f == frame[r] IN
  /\ f.pc # "find" =>
       /\ f.asked.name = None => f.entity.name = account[e].name
       /\ call[r].route = "register" => role[e] = None
  /\ f.pc = "write" =>
       /\ f.patch.name = Changed(f.entity, account[e]).name
       /\ f.insert = (role[e] = None)

Registered(r, e) == call[r].route = "register" /\ call[r].on = e
                      /\ call[r].status = "ok"

Alone(e) ==
  /\ account[e].name = promised[e].name
  /\ \A r, s \in Writers(e) : r = s
  /\ \A r \in Writers(e) : Knows(r, e)
  /\ \A r \in Requests : Registered(r, e) => role[e] # None
  /\ \A r, s \in Requests : Registered(r, e) /\ Registered(s, e) => r = s

MemberInv == Shape /\ TablesOK /\ WritersOK
               /\ \A e \in Emails \ overlapped : Alone(e)

-----------------------------------------------------------------------------
LEMMA Statuses3 ==
  /\ StatusOf["EntityNotFoundError"] \notin {"ok", Open}
  /\ StatusOf["PasswordWrongError"] \notin {"ok", Open}
  /\ StatusOf["AlreadyExistError"] \notin {"ok", Open}
  /\ StatusOf["QueryFailedError"] \notin {"ok", Open}
  /\ StatusOf["TypeError"] \notin {"ok", Open}
BY DEF StatusOf, Open

(* What becomes of a request whose status is set.                            *)
LEMMA StatusSet ==
  ASSUME Shape, NEW r \in Requests, NEW s,
         call' = [call EXCEPT ![r].status = s]
  PROVE  /\ call' = [q \in Requests |-> call'[q]]
         /\ \A q \in Requests : \E a, u, o, t :
              call'[q] = [route |-> a, user |-> u, on |-> o, status |-> t]
         /\ \A q \in Requests : /\ call'[q].route = call[q].route
                                /\ call'[q].on = call[q].on
                                /\ call'[q].user = call[q].user
         /\ call'[r].status = s
         /\ \A q \in Requests \ {r} : call'[q] = call[q]
<1>1. PICK a, u, o, t : call[r] = [route |-> a, user |-> u, on |-> o, status |-> t]
  BY DEF Shape
<1>2. call'[r] = [route |-> a, user |-> u, on |-> o, status |-> s]
  <2>1. call'[r] = [call[r] EXCEPT !.status = s]
    BY DEF Shape
  <2> QED BY <1>1, <2>1
<1>3. \A q \in Requests \ {r} : call'[q] = call[q]
  BY DEF Shape
<1>4. call' = [q \in Requests |-> call'[q]]
  BY DEF Shape
<1>5. \A q \in Requests : \E b, v, p, w :
        call'[q] = [route |-> b, user |-> v, on |-> p, status |-> w]
  <2> TAKE q \in Requests
  <2>1. CASE q = r
    BY <1>2, <2>1
  <2>2. CASE q # r
    <3>1. PICK b, v, p, w :
            call[q] = [route |-> b, user |-> v, on |-> p, status |-> w]
      BY DEF Shape
    <3>2. call'[q] = [route |-> b, user |-> v, on |-> p, status |-> w]
      BY <1>3, <2>2, <3>1
    <3> QED BY <3>2, Zenon
  <2> QED BY <2>1, <2>2
<1> QED BY <1>1, <1>2, <1>3, <1>4, <1>5

(* A step of request r, whose route is none of W, leaves the other requests  *)
(* and the members alone.                                                    *)
Shaped == /\ call' = [q \in Requests |-> call'[q]]
          /\ \A q \in Requests : \E a, u, o, t :
               call'[q] = [route |-> a, user |-> u, on |-> o, status |-> t]
Foreign(r, W) ==
  /\ Shaped
  /\ \A q \in Requests \ {r} : call'[q] = call[q]
  /\ call[r] = Unused \/ call[r].route \notin W
  /\ call'[r].route \notin W
  /\ role' = role
Framed(r) ==
  /\ frame' = [q \in Requests |-> frame'[q]]
  /\ \A q \in Requests \ {r} : frame'[q] = frame[q]

LEMMA Answers ==
  ASSUME Shape, NEW r \in Requests, NEW W, call[r].route \notin W, role' = role,
         NEW s, call' = [call EXCEPT ![r].status = s]
  PROVE  Foreign(r, W)
BY StatusSet DEF Foreign, Shaped

LEMMA Still ==
  ASSUME Shape, call' = call
  PROVE  Shaped
<1>1. call' = [q \in Requests |-> call'[q]]
  BY Zenon DEF Shape
<1>2. \A q \in Requests : \E a, u, o, t :
        call'[q] = [route |-> a, user |-> u, on |-> o, status |-> t]
  <2>1. \A q \in Requests : \E a, u, o, t :
          call[q] = [route |-> a, user |-> u, on |-> o, status |-> t]
    BY Zenon DEF Shape
  <2>2. \A q \in Requests : call'[q] = call[q]
    OBVIOUS
  <2> QED BY <2>1, <2>2, Zenon
<1> QED BY <1>1, <1>2 DEF Shaped

LEMMA Waits ==
  ASSUME Shape, NEW r \in Requests, NEW W, call[r].route \notin W, role' = role,
         call' = call
  PROVE  Foreign(r, W)
BY Still DEF Foreign

LEMMA Becomes ==
  ASSUME Shape, NEW r \in Requests, NEW c, call' = [call EXCEPT ![r] = c],
         \E a, u, o, s : c = [route |-> a, user |-> u, on |-> o, status |-> s]
  PROVE  /\ Shaped
         /\ \A q \in Requests \ {r} : call'[q] = call[q]
         /\ call'[r] = c
<1>1. call'[r] = c
  BY DEF Shape
<1>2. \A q \in Requests \ {r} : call'[q] = call[q]
  BY DEF Shape
<1>3. call' = [q \in Requests |-> call'[q]]
  BY DEF Shape
<1>4. ASSUME NEW q \in Requests
      PROVE  \E b, v, p, t :
               call'[q] = [route |-> b, user |-> v, on |-> p, status |-> t]
  <2>1. CASE q = r
    BY <1>1, <2>1, Zenon
  <2>2. CASE q # r
    <3>1. PICK b, v, p, t :
            call[q] = [route |-> b, user |-> v, on |-> p, status |-> t]
      BY <1>4 DEF Shape
    <3>2. call'[q] = [route |-> b, user |-> v, on |-> p, status |-> t]
      BY <1>2, <1>4, <2>2, <3>1
    <3> QED BY <3>2, Zenon
  <2> QED BY <2>1, <2>2
<1> QED BY <1>1, <1>2, <1>3, <1>4 DEF Shaped

(* A row is made: the request is about its number from now on.               *)
LEMMA Numbered ==
  ASSUME Shape, NEW r \in Requests, NEW W, call[r].route \notin W, role' = role,
         NEW n, call' = [call EXCEPT ![r].on = n]
  PROVE  Foreign(r, W)
<1>1. PICK a, u, o, t : call[r] = [route |-> a, user |-> u, on |-> o, status |-> t]
  BY DEF Shape
<1> DEFINE c == [route |-> a, user |-> u, on |-> n, status |-> t]
<1>2. [call[r] EXCEPT !.on = n] = c
  BY <1>1
<1>3. call' = [call EXCEPT ![r] = c]
  BY <1>2, Zenon
<1>4. \E b, v, p, s : c = [route |-> b, user |-> v, on |-> p, status |-> s]
  BY Zenon
<1>5. c.route = call[r].route
  BY <1>1
<1> HIDE DEF c
<1>6. /\ Shaped
      /\ \A q \in Requests \ {r} : call'[q] = call[q]
      /\ call'[r] = c
  BY <1>3, <1>4, Becomes
<1> QED BY <1>5, <1>6, Zenon DEF Foreign

(* A request arrives.                                                        *)
LEMMA Arrives ==
  ASSUME Shape, NEW r \in Requests, NEW route, NEW token, NEW roles, NEW on,
         NEW f, Arrive(r, route, token, roles, on, f)
  PROVE  /\ Shaped
         /\ \A q \in Requests \ {r} : call'[q] = call[q]
         /\ call'[r].route = route /\ call'[r].on = on
         /\ call'[r].user = MemberOf(token)
         /\ call'[r].status = IF CanActivate(MemberOf(token), roles)
                                THEN Open ELSE "forbidden"
         /\ role' = role
         /\ Framed(r)
         /\ frame'[r] = IF CanActivate(MemberOf(token), roles) THEN f
                                                              ELSE NoFrame
<1> DEFINE c == [route |-> route, user |-> MemberOf(token), on |-> on,
                 status |-> IF CanActivate(MemberOf(token), roles)
                              THEN Open ELSE "forbidden"]
<1>1. /\ call' = [call EXCEPT ![r] = c]
      /\ role' = role
      /\ frame' = [frame EXCEPT ![r] = IF CanActivate(MemberOf(token), roles)
                                        THEN f ELSE NoFrame]
  BY Zenon DEF Arrive
<1>2. \E b, v, p, s : c = [route |-> b, user |-> v, on |-> p, status |-> s]
  BY Zenon
<1>3. /\ c.route = route /\ c.on = on /\ c.user = MemberOf(token)
      /\ c.status = IF CanActivate(MemberOf(token), roles)
                      THEN Open ELSE "forbidden"
  OBVIOUS
<1>4. /\ Framed(r)
      /\ frame'[r] = IF CanActivate(MemberOf(token), roles) THEN f ELSE NoFrame
  BY <1>1 DEF Framed, Shape
<1> HIDE DEF c
<1>5. /\ Shaped
      /\ \A q \in Requests \ {r} : call'[q] = call[q]
      /\ call'[r] = c
  BY <1>1, <1>2, Becomes
<1> QED BY <1>1, <1>3, <1>4, <1>5

(* The frame of one request is set, as a whole or in part.                   *)
LEMMA FrameSet ==
  ASSUME Shape, NEW r \in Requests, NEW f, frame' = [frame EXCEPT ![r] = f]
  PROVE  Framed(r) /\ frame'[r] = f
BY DEF Framed, Shape

LEMMA FrameKept ==
  ASSUME Shape, NEW r \in Requests, frame' = frame
  PROVE  Framed(r)
BY DEF Framed, Shape

LEMMA Goes ==
  ASSUME Shape, NEW r \in Requests, NEW pc, Go(r, pc)
  PROVE  Framed(r)
<1>1. frame' = [frame EXCEPT ![r] = [frame[r] EXCEPT !.pc = pc]]
  BY Zenon DEF Go
<1> QED BY <1>1, FrameSet, Zenon

LEMMA Leaves ==
  ASSUME Shape, NEW r \in Requests, Leave(r)
  PROVE  Framed(r)
BY FrameSet, Zenon DEF Leave

LEMMA PartSet ==
  ASSUME Shape, NEW r \in Requests, NEW i, NEW pc, NEW h, SetPart(r, i, pc, h)
  PROVE  Framed(r)
<1> DEFINE half == [frame EXCEPT ![r].parts[i].pc = pc]
<1>1. frame' = [half EXCEPT ![r].parts[i].hash = h]
  BY Zenon DEF SetPart
<1>2. /\ half = [q \in Requests |-> half[q]]
      /\ \A q \in Requests \ {r} : half[q] = frame[q]
  BY Zenon DEF Shape
<1> HIDE DEF half
<1>3. /\ frame' = [q \in Requests |-> frame'[q]]
      /\ \A q \in Requests \ {r} : frame'[q] = half[q]
  BY <1>1, <1>2, Zenon
<1> QED BY <1>2, <1>3 DEF Framed

LEMMA UnivSet ==
  ASSUME Shape, NEW r \in Requests, NEW i, NEW pc, NEW h, SetUniv(r, i, pc, h)
  PROVE  Framed(r)
<1> DEFINE half == [frame EXCEPT ![r].univ[i].pc = pc]
<1>1. frame' = [half EXCEPT ![r].univ[i].id = h]
  BY Zenon DEF SetUniv
<1>2. /\ half = [q \in Requests |-> half[q]]
      /\ \A q \in Requests \ {r} : half[q] = frame[q]
  BY Zenon DEF Shape
<1> HIDE DEF half
<1>3. /\ frame' = [q \in Requests |-> frame'[q]]
      /\ \A q \in Requests \ {r} : frame'[q] = half[q]
  BY <1>1, <1>2, Zenon
<1> QED BY <1>2, <1>3 DEF Framed

LEMMA Rejected ==
  ASSUME Shape, NEW r \in Requests, NEW W, call[r].route \notin W, role' = role,
         NEW error, Reject(r, error)
  PROVE  Foreign(r, W)
BY Answers, Waits DEF Reject, Throw

LEMMA ArrivesForeign ==
  ASSUME Shape, NEW r \in Requests, NEW route, NEW token, NEW roles, NEW on,
         NEW f, Arrive(r, route, token, roles, on, f), NEW W, route \notin W
  PROVE  Foreign(r, W) /\ Framed(r)
<1>1. call[r] = Unused
  BY DEF Arrive
<1> QED BY <1>1, Arrives, Zenon DEF Foreign

(* The routes of members and pictures, which no other service has.           *)
Apart == Writing \union {"upload"}
(* These and those of the lists.                                             *)
Away == Apart \union {"browse", "search"}

-----------------------------------------------------------------------------
(* The steps of the other services, one by one.                              *)
LEMMA StrategyAway ==
  ASSUME Shape, NEW r \in Requests, StrategyStep(r)
  PROVE  Foreign(r, Away) /\ Framed(r)
<1>1. ASSUME NEW t, NEW tags, Create(r, t, tags)
      PROVE  Foreign(r, Away) /\ Framed(r)
  BY <1>1, ArrivesForeign DEF Create, Away, Apart, Writing
<1>2. ASSUME NEW t, NEW c, Fork(r, t, c)
      PROVE  Foreign(r, Away) /\ Framed(r)
  BY <1>2, ArrivesForeign DEF Fork, Away, Apart, Writing
<1>3. ASSUME NEW t, NEW c, Delete(r, t, c)
      PROVE  Foreign(r, Away) /\ Framed(r)
  BY <1>3, ArrivesForeign DEF Delete, Away, Apart, Writing
<1>4. ASSUME NEW t, NEW c, NEW ticker, NEW x, Add(r, t, c, ticker, x)
      PROVE  Foreign(r, Away) /\ Framed(r)
  BY <1>4, ArrivesForeign DEF Add, Away, Apart, Writing
<1>5. ASSUME CreateRow(r)
      PROVE  Foreign(r, Away) /\ Framed(r)
  <2>1. call[r].route \notin Away /\ role' = role
    BY <1>5 DEF CreateRow, At, Away, Apart, Writing
  <2>2. Foreign(r, Away)
    BY <1>5, <2>1, Numbered DEF CreateRow
  <2>3. Framed(r)
    BY <1>5, Goes DEF CreateRow
  <2> QED BY <2>2, <2>3
<1>6. ASSUME CreateInfo(r)
      PROVE  Foreign(r, Away) /\ Framed(r)
  <2>1. call[r].route \notin Away /\ role' = role
    BY <1>6 DEF CreateInfo, At, Away, Apart, Writing
  <2>2. Foreign(r, Away)
    BY <1>6, <2>1, Waits DEF CreateInfo
  <2>3. Framed(r)
    BY <1>6, Goes DEF CreateInfo
  <2> QED BY <2>2, <2>3
<1>7. ASSUME CreateAnswers(r)
      PROVE  Foreign(r, Away) /\ Framed(r)
  <2>1. call[r].route \notin Away /\ role' = role
    BY <1>7 DEF CreateAnswers, At, Away, Apart, Writing
  <2>2. Foreign(r, Away)
    BY <1>7, <2>1, Answers DEF CreateAnswers, AnswerOk, Throw
  <2>3. Framed(r)
    BY <1>7, Goes DEF CreateAnswers
  <2> QED BY <2>2, <2>3
<1>8. ASSUME ForkReads(r)
      PROVE  Foreign(r, Away) /\ Framed(r)
  <2>1. call[r].route \notin Away /\ role' = role
    BY <1>8 DEF ForkReads, At, Away, Apart, Writing
  <2>2. Foreign(r, Away)
    BY <1>8, <2>1, Answers, Waits DEF ForkReads, Throw
  <2>3. Framed(r)
    BY <1>8, Leaves, FrameSet DEF ForkReads
  <2> QED BY <2>2, <2>3
<1>9. ASSUME ForkRow(r)
      PROVE  Foreign(r, Away) /\ Framed(r)
  <2>1. call[r].route \notin Away /\ role' = role
    BY <1>9 DEF ForkRow, At, Away, Apart, Writing
  <2>2. Foreign(r, Away)
    BY <1>9, <2>1, Numbered DEF ForkRow
  <2>3. Framed(r)
    BY <1>9, Goes DEF ForkRow
  <2> QED BY <2>2, <2>3
<1>10. ASSUME ForkInfo(r)
      PROVE  Foreign(r, Away) /\ Framed(r)
  <2>1. call[r].route \notin Away /\ role' = role
    BY <1>10 DEF ForkInfo, At, Away, Apart, Writing
  <2>2. Foreign(r, Away)
    BY <1>10, <2>1, Answers, Waits DEF ForkInfo, Throw
  <2>3. Framed(r)
    BY <1>10, Goes DEF ForkInfo
  <2> QED BY <2>2, <2>3
<1>11. ASSUME ForkAnswers(r)
      PROVE  Foreign(r, Away) /\ Framed(r)
  <2>1. call[r].route \notin Away /\ role' = role
    BY <1>11 DEF ForkAnswers, At, Away, Apart, Writing
  <2>2. Foreign(r, Away)
    BY <1>11, <2>1, Answers DEF ForkAnswers, AnswerOk, Throw
  <2>3. Framed(r)
    BY <1>11, Goes DEF ForkAnswers
  <2> QED BY <2>2, <2>3
<1>12. ASSUME DeleteFind(r)
      PROVE  Foreign(r, Away) /\ Framed(r)
  <2>1. call[r].route \notin Away /\ role' = role
    BY <1>12 DEF DeleteFind, At, Away, Apart, Writing
  <2>2. Foreign(r, Away)
    BY <1>12, <2>1, Answers, Waits DEF DeleteFind, Throw
  <2>3. Framed(r)
    BY <1>12, Goes, Leaves DEF DeleteFind
  <2> QED BY <2>2, <2>3
<1>13. ASSUME DeleteRow(r)
      PROVE  Foreign(r, Away) /\ Framed(r)
  <2>1. call[r].route \notin Away /\ role' = role
    BY <1>13 DEF DeleteRow, At, Away, Apart, Writing
  <2>2. Foreign(r, Away)
    BY <1>13, <2>1, Answers DEF DeleteRow, AnswerOk
  <2>3. Framed(r)
    BY <1>13, Leaves DEF DeleteRow
  <2> QED BY <2>2, <2>3
<1>14. ASSUME AddAnswers(r)
      PROVE  Foreign(r, Away) /\ Framed(r)
  <2>1. call[r].route \notin Away /\ role' = role
    BY <1>14 DEF AddAnswers, At, Away, Apart, Writing
  <2>2. Foreign(r, Away)
    BY <1>14, <2>1, Answers DEF AddAnswers, AnswerOk
  <2>3. Framed(r)
    BY <1>14, Goes DEF AddAnswers
  <2> QED BY <2>2, <2>3
<1>15. ASSUME StrategyRaises(r)
      PROVE  Foreign(r, Away) /\ Framed(r)
  <2>1. call[r].route \notin Away /\ role' = role
    BY <1>15 DEF StrategyRaises, At, Away, Apart, Writing
  <2>2. Foreign(r, Away)
    BY <1>15, <2>1, Answers DEF StrategyRaises, Throw
  <2>3. Framed(r)
    BY <1>15, Goes DEF StrategyRaises
  <2> QED BY <2>2, <2>3
<1>16. ASSUME NEW i, FindTag(r, i)
      PROVE  Foreign(r, Away) /\ Framed(r)
  <2>1. call[r].route \notin Away /\ role' = role
    BY <1>16 DEF FindTag, InTags, Away, Apart, Writing
  <2>2. Foreign(r, Away)
    BY <1>16, <2>1, Waits DEF FindTag
  <2>3. Framed(r)
    BY <1>16, PartSet DEF FindTag
  <2> QED BY <2>2, <2>3
<1>17. ASSUME NEW i, InsertTag(r, i)
      PROVE  Foreign(r, Away) /\ Framed(r)
  <2>1. call[r].route \notin Away /\ role' = role
    BY <1>17 DEF InsertTag, InTags, Away, Apart, Writing
  <2>2. Foreign(r, Away)
    BY <1>17, <2>1, Waits DEF InsertTag
  <2>3. Framed(r)
    BY <1>17, PartSet DEF InsertTag
  <2> QED BY <2>2, <2>3
<1>18. ASSUME NEW i, PairSelect(r, i)
      PROVE  Foreign(r, Away) /\ Framed(r)
  <2>1. call[r].route \notin Away /\ role' = role
    BY <1>18 DEF PairSelect, InTags, Away, Apart, Writing
  <2>2. Foreign(r, Away)
    BY <1>18, <2>1, Waits DEF PairSelect
  <2>3. Framed(r)
    BY <1>18, PartSet DEF PairSelect
  <2> QED BY <2>2, <2>3
<1>19. ASSUME NEW i, PairInsert(r, i)
      PROVE  Foreign(r, Away) /\ Framed(r)
  <2>1. call[r].route \notin Away /\ role' = role
    BY <1>19 DEF PairInsert, InTags, Away, Apart, Writing
  <2>2. Foreign(r, Away)
    BY <1>19, <2>1, Waits, Rejected DEF PairInsert
  <2>3. Framed(r)
    BY <1>19, PartSet DEF PairInsert
  <2> QED BY <2>2, <2>3
<1>20. ASSUME NEW i, TagPartRaises(r, i)
      PROVE  Foreign(r, Away) /\ Framed(r)
  <2>1. call[r].route \notin Away /\ role' = role
    BY <1>20 DEF TagPartRaises, InTags, Away, Apart, Writing
  <2>2. Foreign(r, Away)
    BY <1>20, <2>1, Rejected DEF TagPartRaises
  <2>3. Framed(r)
    BY <1>20, PartSet DEF TagPartRaises
  <2> QED BY <2>2, <2>3
<1>21. ASSUME NEW i, CheckMine(r, i)
      PROVE  Foreign(r, Away) /\ Framed(r)
  <2>1. call[r].route \notin Away /\ role' = role
    BY <1>21 DEF CheckMine, InUniversals, Away, Apart, Writing
  <2>2. Foreign(r, Away)
    BY <1>21, <2>1, Waits, Rejected DEF CheckMine
  <2>3. Framed(r)
    BY <1>21, UnivSet DEF CheckMine
  <2> QED BY <2>2, <2>3
<1>22. ASSUME NEW i, InsertUniversal(r, i)
      PROVE  Foreign(r, Away) /\ Framed(r)
  <2>1. call[r].route \notin Away /\ role' = role
    BY <1>22 DEF InsertUniversal, InUniversals, Away, Apart, Writing
  <2>2. Foreign(r, Away)
    BY <1>22, <2>1, Waits DEF InsertUniversal
  <2>3. Framed(r)
    BY <1>22, UnivSet DEF InsertUniversal
  <2> QED BY <2>2, <2>3
<1>23. ASSUME NEW i, FillUniversal(r, i)
      PROVE  Foreign(r, Away) /\ Framed(r)
  <2>1. call[r].route \notin Away /\ role' = role
    BY <1>23 DEF FillUniversal, InUniversals, Away, Apart, Writing
  <2>2. Foreign(r, Away)
    BY <1>23, <2>1, Waits DEF FillUniversal
  <2>3. Framed(r)
    BY <1>23, UnivSet DEF FillUniversal
  <2> QED BY <2>2, <2>3
<1>24. ASSUME NEW i, UniversalPartRaises(r, i)
      PROVE  Foreign(r, Away) /\ Framed(r)
  <2>1. call[r].route \notin Away /\ role' = role
    BY <1>24 DEF UniversalPartRaises, InUniversals, Away, Apart, Writing
  <2>2. Foreign(r, Away)
    BY <1>24, <2>1, Rejected DEF UniversalPartRaises
  <2>3. Framed(r)
    BY <1>24, UnivSet DEF UniversalPartRaises
  <2> QED BY <2>2, <2>3
<1>25. ASSUME NEW h, ForkTag(r, h)
      PROVE  Foreign(r, Away) /\ Framed(r)
  <2>1. call[r].route \notin Away /\ role' = role
    BY <1>25 DEF ForkTag, At, Away, Apart, Writing
  <2>2. Foreign(r, Away)
    BY <1>25, <2>1, Waits DEF ForkTag
  <2>3. Framed(r)
    BY <1>25, FrameSet, Zenon DEF ForkTag
  <2> QED BY <2>2, <2>3
<1>26. ASSUME NEW h, ForkTagRaises(r, h)
      PROVE  Foreign(r, Away) /\ Framed(r)
  <2>1. call[r].route \notin Away /\ role' = role
    BY <1>26 DEF ForkTagRaises, At, Away, Apart, Writing
  <2>2. Foreign(r, Away)
    BY <1>26, <2>1, Answers DEF ForkTagRaises, Throw
  <2>3. Framed(r)
    BY <1>26, FrameSet, Zenon DEF ForkTagRaises
  <2> QED BY <2>2, <2>3
<1> QED
  BY <1>1, <1>2, <1>3, <1>4, <1>5, <1>6, <1>7, <1>8, <1>9, <1>10, <1>11, <1>12, <1>13, <1>14, <1>15, <1>16, <1>17, <1>18, <1>19, <1>20, <1>21, <1>22, <1>23, <1>24, <1>25, <1>26
  DEF StrategyStep

LEMMA StrategyForeign ==
  ASSUME Shape, NEW r \in Requests, StrategyStep(r)
  PROVE  Foreign(r, Apart) /\ Framed(r)
BY StrategyAway DEF Foreign, Away, Apart

LEMMA FeedOutside ==
  ASSUME Shape, NEW r \in Requests, FeedStep(r), NEW W,
         "browse" \notin W, "search" \notin W
  PROVE  Foreign(r, W) /\ Framed(r)
<1>1. ASSUME NEW feed, Browse(r, feed)
      PROVE  Foreign(r, W) /\ Framed(r)
  BY <1>1, ArrivesForeign DEF Browse
<1>2. ASSUME NEW what, Search(r, what)
      PROVE  Foreign(r, W) /\ Framed(r)
  BY <1>2, ArrivesForeign DEF Search
<1>3. ASSUME ReadPage(r)
      PROVE  Foreign(r, W) /\ Framed(r)
  <2>1. call[r].route \notin W /\ role' = role
    BY <1>3 DEF ReadPage, At
  <2>2. Foreign(r, W)
    BY <1>3, <2>1, Answers, Waits DEF ReadPage, AnswerOk
  <2>3. Framed(r)
    BY <1>3, FrameSet, ZenonT(60) DEF ReadPage
  <2> QED BY <2>2, <2>3
<1>4. ASSUME SearchCodes(r)
      PROVE  Foreign(r, W) /\ Framed(r)
  <2>1. call[r].route \notin W /\ role' = role
    BY <1>4 DEF SearchCodes, At
  <2>2. Foreign(r, W)
    BY <1>4, <2>1, Waits DEF SearchCodes
  <2>3. Framed(r)
    BY <1>4, FrameSet, Zenon DEF SearchCodes
  <2> QED BY <2>2, <2>3
<1>5. ASSUME SearchRows(r) \/ SearchKept(r)
      PROVE  Foreign(r, W) /\ Framed(r)
  <2>1. call[r].route \notin W /\ role' = role
    BY <1>5 DEF SearchRows, SearchKept, At
  <2>2. Foreign(r, W)
    BY <1>5, <2>1, Answers DEF SearchRows, SearchKept, AnswerOk
  <2>3. Framed(r)
    BY <1>5, FrameSet, Zenon DEF SearchRows, SearchKept
  <2> QED BY <2>2, <2>3
<1> QED
  BY <1>1, <1>2, <1>3, <1>4, <1>5
  DEF FeedStep

LEMMA FeedForeign ==
  ASSUME Shape, NEW r \in Requests, FeedStep(r)
  PROVE  Foreign(r, Apart) /\ Framed(r)
<1>1. "browse" \notin Apart /\ "search" \notin Apart
  BY DEF Apart, Writing
<1> QED BY <1>1, FeedOutside

LEMMA UploadOutside ==
  ASSUME Shape, NEW r \in Requests, UploadStep(r), NEW W, "upload" \notin W
  PROVE  Foreign(r, W) /\ Framed(r)
<1>1. ASSUME NEW t, NEW folder, NEW file, Upload(r, t, folder, file)
      PROVE  Foreign(r, W) /\ Framed(r)
  BY <1>1, ArrivesForeign DEF Upload
<1>2. ASSUME PutObject(r)
      PROVE  Foreign(r, W) /\ Framed(r)
  <2>1. call[r].route \notin W /\ role' = role
    BY <1>2 DEF PutObject, At
  <2>2. Foreign(r, W)
    BY <1>2, <2>1, Waits DEF PutObject
  <2>3. Framed(r)
    BY <1>2, Goes DEF PutObject
  <2> QED BY <2>2, <2>3
<1>3. ASSUME SaveUpload(r)
      PROVE  Foreign(r, W) /\ Framed(r)
  <2>1. call[r].route \notin W /\ role' = role
    BY <1>3 DEF SaveUpload, At
  <2>2. Foreign(r, W)
    BY <1>3, <2>1, Answers DEF SaveUpload, AnswerOk
  <2>3. Framed(r)
    BY <1>3, Goes DEF SaveUpload
  <2> QED BY <2>2, <2>3
<1>4. ASSUME UploadRaises(r)
      PROVE  Foreign(r, W) /\ Framed(r)
  <2>1. call[r].route \notin W /\ role' = role
    BY <1>4 DEF UploadRaises, At
  <2>2. Foreign(r, W)
    BY <1>4, <2>1, Answers DEF UploadRaises, Throw
  <2>3. Framed(r)
    BY <1>4, FrameKept DEF UploadRaises
  <2> QED BY <2>2, <2>3
<1> QED
  BY <1>1, <1>2, <1>3, <1>4
  DEF UploadStep

LEMMA UploadForeign ==
  ASSUME Shape, NEW r \in Requests, UploadStep(r)
  PROVE  Foreign(r, Writing) /\ Framed(r)
<1>1. "upload" \notin Writing
  BY DEF Writing
<1> QED BY <1>1, UploadOutside

-----------------------------------------------------------------------------
LEMMA MemberInit1 == Init => MemberInv
<1> SUFFICES ASSUME Init PROVE MemberInv
  OBVIOUS
<1> USE DEF Init, GatewayInit, MemberInit
<1>1. Shape
  <2>1. \A r \in Requests : call[r] = Unused
    OBVIOUS
  <2>2. \E a, u, o, s : Unused = [route |-> a, user |-> u, on |-> o, status |-> s]
    BY Zenon DEF Unused
  <2> QED BY <2>1, <2>2 DEF Shape
<1>2. \A r \in Requests : call[r].status = "unused"
  BY DEF Unused
<1>3. WritersOK
  BY <1>2 DEF WritersOK, Open
<1>4. FirstAccount \in Account /\ NoAccount \in Asked /\ Account \subseteq Asked
  BY MemberAssumption DEF FirstAccount, NoAccount, Asked, Account
<1>5. TablesOK
  BY <1>4, GatewayAssumption DEF TablesOK
<1>6. ASSUME NEW e \in Emails PROVE Alone(e)
  BY <1>2, <1>5 DEF Alone, Writers, Registered, Open
<1> QED BY <1>1, <1>3, <1>5, <1>6 DEF MemberInv

(* A step that neither begins nor ends a request that writes a member, other *)
(* than by a failure, changes nothing that is said here.                     *)
Quiet(r) ==
  /\ Shaped /\ Framed(r)
  /\ \A q \in Requests \ {r} : call'[q] = call[q]
  /\ call'[r].route \notin Writing \/ call'[r].status \notin {"ok", Open}
  /\ role' = role /\ UNCHANGED memberVars

LEMMA ShapeNext ==
  ASSUME Shaped, NEW r \in Requests, Framed(r)
  PROVE  Shape'
BY Zenon DEF Shaped, Framed, Shape

LEMMA QuietKeeps ==
  ASSUME MemberInv, NEW r \in Requests, Quiet(r)
  PROVE  MemberInv'
<1> USE DEF MemberInv, Quiet
<1>1. Shape'
  BY ShapeNext
<1>2. TablesOK'
  BY DEF TablesOK, memberVars
<1>3. ASSUME NEW q \in Requests, call'[q].status \in {"ok", Open},
             call'[q].route \in Writing
      PROVE  q # r /\ call'[q] = call[q] /\ frame'[q] = frame[q]
  BY <1>3 DEF Framed
<1>4. WritersOK'
  BY <1>3 DEF WritersOK, WriterOK
<1>5. ASSUME NEW e \in Emails PROVE Writers(e)' \subseteq Writers(e)
  BY <1>3 DEF Writers, Writing
<1>6. ASSUME NEW e \in Emails, NEW q \in Requests, Registered(q, e)'
      PROVE  Registered(q, e)
  BY <1>3, <1>6 DEF Registered, Writing
<1>7. ASSUME NEW e \in Emails \ overlapped PROVE Alone(e)'
  <2>1. Alone(e) /\ account' = account /\ promised' = promised
    BY DEF memberVars
  <2>2. \A q \in Writers(e)' : Knows(q, e)'
    <3> TAKE q \in Writers(e)'
    <3>1. q \in Writers(e) /\ Knows(q, e)
      BY <1>5, <2>1 DEF Alone
    <3>2. call'[q] = call[q] /\ frame'[q] = frame[q]
      BY <1>3 DEF Writers, Writing
    <3> QED BY <2>1, <3>1, <3>2 DEF Knows
  <2> QED BY <1>5, <1>6, <2>1, <2>2 DEF Alone
<1>8. overlapped' = overlapped
  BY DEF memberVars
<1> QED BY <1>1, <1>2, <1>4, <1>7, <1>8

-----------------------------------------------------------------------------
(* A request to write the row of e arrives.                                  *)
LEMMA BeginKeeps ==
  ASSUME MemberInv, NEW r \in Requests, NEW route \in Writing,
         NEW e \in Emails, NEW a \in Asked, route = "register" => a \in Account,
         Begin(r, route, e, a)
  PROVE  MemberInv'
<1> USE DEF MemberInv
<1> DEFINE f == [pc |-> "find", asked |-> a, entity |-> a,
                 patch |-> NoAccount, insert |-> FALSE]
<1>1. Arrive(r, route, None, {}, e, f)
  BY DEF Begin
<1>2. CanActivate(MemberOf(None), {})
  BY DEF CanActivate
<1>3. NoAccount \in Asked
  BY DEF NoAccount, Asked
<1>4. /\ f \in Frames /\ f.pc = "find" /\ f.asked = a /\ f.entity = a
      /\ f.insert = FALSE
  BY <1>3 DEF Frames
<1> HIDE DEF f
<1>5. /\ Shaped
      /\ \A q \in Requests \ {r} : call'[q] = call[q]
      /\ call'[r].route = route /\ call'[r].on = e /\ call'[r].status = Open
      /\ role' = role
      /\ Framed(r) /\ frame'[r] = f
  BY <1>1, <1>2, Arrives
<1>6. Shape'
  BY <1>5, ShapeNext
<1>7. UNCHANGED <<account, promised>>
      /\ overlapped' = IF Writers(e) = {} THEN overlapped ELSE overlapped \union {e}
  BY DEF Begin
<1>8. TablesOK'
  BY <1>5, <1>7 DEF TablesOK
<1>9. WritersOK'
  <2>1. WriterOK(r)'
    BY <1>4, <1>5 DEF WriterOK
  <2>2. ASSUME NEW q \in Requests \ {r}, call[q].status = Open,
               call[q].route \in Writing
        PROVE  WriterOK(q)'
    <3>1. WriterOK(q)
      BY <2>2 DEF WritersOK
    <3>2. call'[q] = call[q] /\ frame'[q] = frame[q] /\ role' = role
      BY <1>5, <2>2 DEF Framed
    <3> QED BY <3>1, <3>2 DEF WriterOK
  <2> QED BY <1>5, <2>1, <2>2 DEF WritersOK
<1>10. ASSUME NEW d \in Emails, NEW q \in Requests, Registered(q, d)'
       PROVE  Registered(q, d)
  BY <1>5, <1>10 DEF Registered, Open
<1>11. ASSUME NEW d \in Emails \ overlapped' PROVE Alone(d)'
  <2>1. Alone(d)
    BY <1>7
  <2>2. \A p, q \in Writers(d)' : p = q
    BY <1>5, <1>7, <2>1 DEF Alone, Writers, Writing
  <2>3. \A q \in Writers(d)' : Knows(q, d)'
    <3> TAKE q \in Writers(d)'
    <3>1. CASE q = r
      BY <1>4, <1>5, <3>1 DEF Knows
    <3>2. CASE q # r
      <4>1. q \in Requests /\ q \in Writers(d) /\ Knows(q, d)
        BY <1>5, <2>1, <3>2 DEF Alone, Writers
      <4>2. call'[q] = call[q] /\ frame'[q] = frame[q]
        BY <1>5, <3>2, <4>1 DEF Framed
      <4> QED BY <1>5, <1>7, <4>1, <4>2 DEF Knows
    <3> QED BY <3>1, <3>2
  <2> QED BY <1>5, <1>7, <1>10, <2>1, <2>2, <2>3 DEF Alone
<1> QED BY <1>6, <1>8, <1>9, <1>11

(* An open writer moves on within its frame.                                 *)
Moves(r) ==
  /\ call' = call /\ Framed(r)
  /\ call[r].status = Open /\ call[r].route \in Writing
  /\ role' = role /\ UNCHANGED memberVars

LEMMA MovesKeeps ==
  ASSUME MemberInv, NEW r \in Requests, Moves(r), WriterOK(r)',
         Alone(call[r].on) => Knows(r, call[r].on)'
  PROVE  MemberInv'
<1> USE DEF MemberInv, Moves
<1>1. Shape'
  BY Still, ShapeNext
<1>2. TablesOK'
  BY DEF TablesOK, memberVars
<1>3. WritersOK'
  <2>1. ASSUME NEW q \in Requests \ {r}, call[q].status = Open,
               call[q].route \in Writing
        PROVE  WriterOK(q)'
    <3>1. WriterOK(q) /\ frame'[q] = frame[q]
      BY <2>1 DEF WritersOK, Framed
    <3> QED BY <3>1 DEF WriterOK
  <2> QED BY <2>1 DEF WritersOK
<1>4. ASSUME NEW d \in Emails \ overlapped PROVE Alone(d)'
  <2>1. Alone(d) /\ account' = account /\ promised' = promised
    BY DEF memberVars
  <2>2. Writers(d)' = Writers(d)
    BY DEF Writers
  <2>3. \A q \in Writers(d)' : Knows(q, d)'
    <3> TAKE q \in Writers(d)'
    <3>1. CASE q = r
      BY <2>1, <3>1 DEF Writers
    <3>2. CASE q # r
      <4>1. Knows(q, d) /\ frame'[q] = frame[q]
        BY <2>1, <2>2, <3>2 DEF Alone, Framed, Writers
      <4> QED BY <2>1, <4>1 DEF Knows
    <3> QED BY <3>1, <3>2
  <2> QED BY <2>1, <2>2, <2>3 DEF Alone, Registered
<1>5. overlapped' = overlapped
  BY DEF memberVars
<1> QED BY <1>1, <1>2, <1>3, <1>4, <1>5

-----------------------------------------------------------------------------
LEMMA RegisterFindKeeps ==
  ASSUME MemberInv, NEW r \in Requests, RegisterFind(r)
  PROVE  MemberInv'
<1>1. /\ call[r].route = "register" /\ call[r].status = Open
      /\ frame[r].pc = "find" /\ role' = role /\ UNCHANGED memberVars
  BY DEF RegisterFind, At
<1>2. Shape /\ WriterOK(r) /\ call[r].on \in Emails
  BY <1>1 DEF MemberInv, WritersOK, WriterOK, Writing
<1>3. CASE role[call[r].on] # None
  <2>1. Throw(r, "AlreadyExistError") /\ Leave(r)
    BY <1>3 DEF RegisterFind
  <2>2. Framed(r)
    BY <1>2, <2>1, Leaves
  <2>3. /\ Shaped /\ call'[r].status \notin {"ok", Open}
        /\ \A q \in Requests \ {r} : call'[q] = call[q]
    BY <1>2, <2>1, StatusSet, Statuses3 DEF Throw, Shaped
  <2>4. Quiet(r)
    BY <1>1, <2>2, <2>3 DEF Quiet
  <2> QED BY <2>4, QuietKeeps
<1>4. CASE role[call[r].on] = None
  <2>1. frame' = [frame EXCEPT ![r].pc = "select"] /\ call' = call
    BY <1>4 DEF RegisterFind
  <2>2. Framed(r)
    BY <1>2, <2>1, Goes DEF Go
  <2>3. frame'[r] = [frame[r] EXCEPT !.pc = "select"]
    BY <1>2, <2>1, Zenon DEF Shape
  <2>4. frame[r] \in Frames
    BY <1>2 DEF WriterOK
  <2>5. WriterOK(r)'
    BY <1>1, <1>2, <2>1, <2>3, <2>4 DEF WriterOK, Frames
  <2>6. Knows(r, call[r].on)'
    BY <1>1, <1>2, <1>4, <2>1, <2>3, <2>4, MemberAssumption
    DEF Knows, Frames, WriterOK, Account
  <2>7. Moves(r)
    BY <1>1, <2>1, <2>2 DEF Moves, Writing
  <2> QED BY <2>5, <2>6, <2>7, MovesKeeps
<1> QED BY <1>3, <1>4

LEMMA ChangeFindKeeps ==
  ASSUME MemberInv, NEW r \in Requests, ChangeFind(r)
  PROVE  MemberInv'
<1> DEFINE e == call[r].on
<1>1. /\ call[r].route = "change" /\ call[r].status = Open
      /\ frame[r].pc = "find" /\ role' = role /\ UNCHANGED memberVars
  BY DEF ChangeFind, At
<1>2. Shape /\ TablesOK /\ WriterOK(r) /\ e \in Emails
  BY <1>1 DEF MemberInv, WritersOK, WriterOK, Writing
<1>3. CASE role[e] = None
  <2>1. Throw(r, "EntityNotFoundError") /\ Leave(r)
    BY <1>3 DEF ChangeFind
  <2>2. Framed(r)
    BY <1>2, <2>1, Leaves
  <2>3. /\ Shaped /\ call'[r].status \notin {"ok", Open}
        /\ \A q \in Requests \ {r} : call'[q] = call[q]
    BY <1>2, <2>1, StatusSet, Statuses3 DEF Throw, Shaped
  <2>4. Quiet(r)
    BY <1>1, <2>2, <2>3 DEF Quiet
  <2> QED BY <2>4, QuietKeeps
<1>4. CASE role[e] # None
  <2> DEFINE old == frame[r]
             name == IF old.entity.name = None THEN account[e].name
                                               ELSE old.entity.name
             new == [pc |-> "select", asked |-> old.asked,
                     entity |-> [name |-> name, password |-> old.entity.password],
                     patch |-> old.patch, insert |-> old.insert]
  <2>1. /\ frame' = [frame EXCEPT ![r].pc = "select",
                       ![r].entity.name = IF @ = None THEN account[e].name
                                                      ELSE @]
        /\ call' = call
    BY <1>4 DEF ChangeFind
  <2>2. old \in Frames /\ account[e] \in Account
    BY <1>2, <1>4 DEF WriterOK, TablesOK
  <2>3. frame'[r] = [[frame[r] EXCEPT !.pc = "select"]
                       EXCEPT !.entity.name = IF @ = None THEN account[e].name
                                                          ELSE @]
    BY <1>2, <2>1, Zenon DEF Shape
  <2>4. frame'[r] = new
    BY <2>2, <2>3 DEF Frames, Asked
  <2>5. Framed(r)
    BY <1>2, <2>1 DEF Framed, Shape
  <2>6. WriterOK(r)'
    BY <1>1, <1>2, <1>4, <2>1, <2>2, <2>4, MemberAssumption
    DEF WriterOK, Frames, Account, Asked
  <2>7. Knows(r, e)'
    BY <1>1, <1>2, <2>1, <2>2, <2>4, MemberAssumption
    DEF Knows, Frames, Asked, WriterOK, memberVars, Account
  <2>8. Moves(r)
    BY <1>1, <2>1, <2>5 DEF Moves, Writing
  <2> QED BY <2>1, <2>6, <2>7, <2>8, MovesKeeps
<1> QED BY <1>3, <1>4

LEMMA SaveSelectsKeeps ==
  ASSUME MemberInv, NEW r \in Requests, SaveSelects(r)
  PROVE  MemberInv'
<1> DEFINE e == call[r].on
           old == frame[r]
           new == [pc |-> "write", asked |-> old.asked, entity |-> old.entity,
                   patch |-> Changed(old.entity, account[e]),
                   insert |-> role[e] = None]
<1>1. /\ call[r].route \in Writing /\ call[r].status = Open
      /\ frame[r].pc = "select" /\ role' = role /\ UNCHANGED memberVars
      /\ call' = call
      /\ frame' = [frame EXCEPT ![r].pc = "write",
                     ![r].insert = role[e] = None,
                     ![r].patch  = Changed(frame[r].entity, account[e])]
  BY DEF SaveSelects, AtSave, At, Writing
<1>2. Shape /\ TablesOK /\ WriterOK(r) /\ e \in Emails /\ old \in Frames
  BY <1>1 DEF MemberInv, WritersOK, WriterOK
<1>3. frame'[r] = [[[frame[r] EXCEPT !.pc = "write"]
                      EXCEPT !.insert = role[e] = None]
                      EXCEPT !.patch = Changed(frame[r].entity, account[e])]
  BY <1>1, <1>2, Zenon DEF Shape
<1>4. frame'[r] = new
  BY <1>2, <1>3 DEF Frames
<1>5. Changed(old.entity, account[e]) \in Asked
  BY <1>2 DEF Changed, Frames, Asked
<1>6. Framed(r)
  BY <1>1, <1>2 DEF Framed, Shape
<1>7. WriterOK(r)'
  <2>1. new \in Frames
    BY <1>2, <1>5 DEF Frames
  <2>2. /\ new.pc = "write" /\ new.asked = old.asked /\ new.entity = old.entity
        /\ new.insert = (role[e] = None)
        /\ new.patch.password = old.entity.password
    BY DEF Changed
  <2> HIDE DEF new
  <2> QED BY <1>1, <1>2, <1>4, <2>1, <2>2 DEF WriterOK, Writing
<1>8. ASSUME Alone(e) PROVE Knows(r, e)'
  <2>1. Knows(r, e)
    BY <1>1, <1>2, <1>8 DEF Alone, Writers, Writing
  <2> QED BY <1>1, <1>2, <1>4, <2>1 DEF Knows, Frames, memberVars
<1>9. Moves(r)
  BY <1>1, <1>6 DEF Moves
<1> QED BY <1>1, <1>7, <1>8, <1>9, MovesKeeps

(* The write of a save ends the request.                                     *)
LEMMA SaveWritesKeeps ==
  ASSUME MemberInv, NEW r \in Requests, SaveWrites(r)
  PROVE  MemberInv'
<1>0. PICK e : e = call[r].on
  OBVIOUS
<1> USE <1>0
<1> DEFINE f == frame[r]
           row == IF f.insert THEN f.entity ELSE Patched(account[e], f.patch)
<1>1. /\ call[r].route \in Writing /\ call[r].status = Open /\ f.pc = "write"
      /\ Leave(r) /\ overlapped' = overlapped
  BY DEF SaveWrites, AtSave, At, Writing
<1>2. Shape /\ TablesOK /\ WriterOK(r) /\ e \in Emails /\ f \in Frames
  BY <1>1 DEF MemberInv, WritersOK, WriterOK
<1>3. Framed(r)
  BY <1>1, <1>2, Leaves
<1>4. CASE f.insert /\ role[e] # None
  <2>1. /\ Throw(r, "QueryFailedError") /\ UNCHANGED <<role, account, promised>>
    BY <1>4 DEF SaveWrites
  <2>2. /\ Shaped /\ call'[r].status \notin {"ok", Open}
        /\ \A q \in Requests \ {r} : call'[q] = call[q]
    BY <1>2, <2>1, StatusSet, Statuses3 DEF Throw, Shaped
  <2>3. Quiet(r)
    BY <1>1, <1>3, <2>1, <2>2 DEF Quiet, memberVars
  <2> QED BY <2>3, QuietKeeps
<1>5. CASE ~ (f.insert /\ role[e] # None)
  <2>1. /\ account' = [account EXCEPT ![e] = row]
        /\ role' = [role EXCEPT ![e] = IF @ = None THEN "Normal" ELSE @]
        /\ promised' = [promised EXCEPT ![e] = Patched(@, f.asked)]
        /\ call' = [call EXCEPT ![r].status = "ok"]
    BY <1>5, Zenon DEF SaveWrites, AnswerOk
  <2>2. /\ Shaped /\ call'[r].status = "ok"
        /\ \A q \in Requests : /\ call'[q].route = call[q].route
                               /\ call'[q].on = call[q].on
        /\ \A q \in Requests \ {r} : call'[q] = call[q]
    BY <1>2, <2>1, StatusSet DEF Shaped
  <2>3. Shape'
    BY <1>3, <2>2, ShapeNext
  <2>4. row \in Account
    <3>1. CASE f.insert
      BY <1>2, <3>1 DEF WriterOK, Account, Frames, Asked
    <3>2. CASE ~ f.insert
      <4>1. account[e] \in Account /\ f.patch \in Asked
        BY <1>1, <1>2, <3>2 DEF WriterOK, TablesOK, Frames
      <4> QED BY <3>2, <4>1 DEF Patched, Account, Asked
    <3> QED BY <3>1, <3>2
  <2>5. /\ f.asked \in Asked /\ promised[e] \in Asked
        /\ f.insert => f.asked \in Account /\ f.asked.password # None
                         /\ f.asked.name # None
    BY <1>2, MemberAssumption DEF WriterOK, TablesOK, Frames, Account
  <2>6. row.password = Patched(promised[e], f.asked).password
    <3>1. account[e].password = promised[e].password
      BY <1>2 DEF TablesOK
    <3>2. f.entity.password = f.asked.password /\ f.patch.password = f.asked.password
      BY <1>1, <1>2 DEF WriterOK
    <3> QED BY <2>5, <3>1, <3>2 DEF Patched
  <2>7. Patched(promised[e], f.asked) \in Asked /\ row \in Asked
    BY <2>4, <2>5 DEF Patched, Asked, Account
  <2>8. /\ role'[e] # None /\ role'[e] \in Roles
        /\ \A d \in Emails : d # e => role'[d] = role[d]
        /\ \A d \in Emails : role[d] # None => role'[d] # None
        /\ role' \in [Emails -> Roles \union {None}]
    BY <1>2, <2>1, GatewayAssumption DEF TablesOK, Roles
  <2> HIDE DEF row
  <2>9. /\ account'[e] = row /\ promised'[e] = Patched(promised[e], f.asked)
        /\ \A d \in Emails : d # e => account'[d] = account[d]
                                       /\ promised'[d] = promised[d]
        /\ account' \in [Emails -> Asked] /\ promised' \in [Emails -> Asked]
    BY <1>2, <2>1, <2>7 DEF TablesOK
  <2>10. TablesOK'
    <3>1. ASSUME NEW d \in Emails
          PROVE  /\ IF role'[d] = None THEN account'[d] = NoAccount
                                        ELSE account'[d] \in Account
                 /\ account'[d].password = promised'[d].password
      <4>1. CASE d = e
        BY <2>4, <2>6, <2>8, <2>9, <4>1
      <4>2. CASE d # e
        BY <1>2, <2>8, <2>9, <4>2 DEF TablesOK
      <4> QED BY <4>1, <4>2
    <3>2. overlapped' \subseteq Emails
      BY <1>1, <1>2 DEF TablesOK
    <3>3. /\ role' \in [Emails -> Roles \union {None}]
          /\ account' \in [Emails -> Asked] /\ promised' \in [Emails -> Asked]
      BY <2>8, <2>9
    <3> QED BY <3>1, <3>2, <3>3, Zenon DEF TablesOK
  <2>11. WritersOK'
    <3>1. ASSUME NEW q \in Requests \ {r}, call[q].status = Open,
                 call[q].route \in Writing
          PROVE  WriterOK(q)'
      <4>1. WriterOK(q) /\ call'[q] = call[q] /\ frame'[q] = frame[q]
        BY <1>3, <2>2, <3>1 DEF WritersOK, Framed, MemberInv
      <4> QED BY <2>8, <4>1 DEF WriterOK
    <3>2. call'[r].status # Open
      BY <2>2 DEF Open
    <3> QED BY <2>2, <3>1, <3>2 DEF WritersOK
  <2>12. ASSUME Alone(e) PROVE Alone(e)'
    <3>1. r \in Writers(e) /\ Knows(r, e)
      BY <1>1, <2>12 DEF Alone, Writers, Writing
    <3>2. Writers(e)' = {}
      BY <2>2, <2>12, <3>1 DEF Alone, Writers, Open
    <3>3. row.name = Patched(promised[e], f.asked).name
      <4>1. account[e].name = promised[e].name
            /\ (f.asked.name = None => f.entity.name = account[e].name)
            /\ (f.asked.name # None => f.entity.name = f.asked.name)
            /\ f.patch.name = IF f.entity.name = account[e].name THEN None
                                                                ELSE f.entity.name
        BY <1>1, <1>2, <2>12, <3>1 DEF Alone, Knows, WriterOK, Changed
      <4> QED BY <2>5, <4>1 DEF row, Patched
    <3>4. ASSUME NEW q \in Requests \ {r}, Registered(q, e)', call[r].route = "register"
          PROVE  FALSE
      <4>1. role[e] # None
        BY <2>2, <2>12, <3>4 DEF Alone, Registered
      <4> QED BY <1>1, <3>1, <3>4, <4>1 DEF Knows
    <3>5. \A p, q \in Requests : Registered(p, e)' /\ Registered(q, e)' => p = q
      BY <2>2, <2>12, <3>4 DEF Alone, Registered
    <3> QED BY <2>8, <2>9, <3>2, <3>3, <3>5 DEF Alone
  <2>13. ASSUME NEW d \in Emails \ overlapped, d # e PROVE Alone(d)'
    <3>1. Alone(d)
      BY DEF MemberInv
    <3>2. Writers(d)' = Writers(d)
      BY <2>2, <2>13 DEF Writers
    <3>3. \A q \in Requests : Registered(q, d)' => Registered(q, d)
      BY <2>2, <2>13 DEF Registered
    <3>4. \A q \in Writers(d) : Knows(q, d)'
      <4> TAKE q \in Writers(d)
      <4>1. q \in Requests /\ q # r /\ Knows(q, d)
        BY <2>13, <3>1 DEF Alone, Writers
      <4>2. call'[q] = call[q] /\ frame'[q] = frame[q]
        BY <1>3, <2>2, <4>1 DEF Framed
      <4> QED BY <2>8, <2>9, <2>13, <4>1, <4>2 DEF Knows
    <3> QED BY <2>8, <2>9, <2>13, <3>1, <3>2, <3>3, <3>4 DEF Alone
  <2>14. \A d \in Emails \ overlapped : Alone(d)'
    BY <2>12, <2>13 DEF MemberInv
  <2> QED BY <1>1, <2>3, <2>10, <2>11, <2>14 DEF MemberInv
<1> QED BY <1>4, <1>5

LEMMA ForeignKeeps ==
  ASSUME MemberInv, NEW r \in Requests, Foreign(r, Writing), Framed(r),
         UNCHANGED memberVars
  PROVE  MemberInv'
BY QuietKeeps DEF Quiet, Foreign

LEMMA ApartKeeps ==
  ASSUME MemberInv, NEW r \in Requests, Foreign(r, Apart), Framed(r),
         UNCHANGED memberVars
  PROVE  MemberInv'
BY QuietKeeps DEF Quiet, Foreign, Apart

LEMMA MemberKeeps ==
  ASSUME MemberInv, NEW r \in Requests, MemberStep(r)
  PROVE  MemberInv'
<1>0. Shape /\ Account \subseteq Asked
  BY DEF MemberInv, Account, Asked
<1>1. ASSUME NEW e \in Emails, NEW a \in Account, Register(r, e, a)
      PROVE  MemberInv'
  BY <1>0, <1>1, BeginKeeps DEF Register, Writing
<1>2. CASE RegisterFind(r)
  BY <1>2, RegisterFindKeeps
<1>3. ASSUME NEW e \in Emails, NEW a \in Asked, Change(r, e, a)
      PROVE  MemberInv'
  BY <1>3, BeginKeeps DEF Change, Writing
<1>4. CASE ChangeFind(r)
  BY <1>4, ChangeFindKeeps
<1>5. CASE SaveSelects(r)
  BY <1>5, SaveSelectsKeeps
<1>6. CASE SaveWrites(r)
  BY <1>6, SaveWritesKeeps
<1>7. ASSUME NEW e \in Emails, NEW p \in Passwords, Login(r, e, p)
      PROVE  MemberInv'
  BY <1>0, <1>7, ArrivesForeign, ForeignKeeps DEF Login, Writing
<1>8. CASE LoginFind(r)
  <2>1. call[r].route \notin Writing /\ role' = role /\ UNCHANGED memberVars
    BY <1>8 DEF LoginFind, At, Writing
  <2>2. Foreign(r, Writing)
    BY <1>0, <1>8, <2>1, Answers DEF LoginFind, AnswerOk, Throw
  <2>3. Framed(r)
    BY <1>0, <1>8, Leaves DEF LoginFind
  <2> QED BY <2>1, <2>2, <2>3, ForeignKeeps
<1>9. CASE MemberRaises(r)
  <2>1. /\ Throw(r, "QueryFailedError") /\ Leave(r)
        /\ role' = role /\ UNCHANGED memberVars
    BY <1>9 DEF MemberRaises
  <2>2. Framed(r)
    BY <1>0, <2>1, Leaves
  <2>3. /\ Shaped /\ call'[r].status \notin {"ok", Open}
        /\ \A q \in Requests \ {r} : call'[q] = call[q]
    BY <1>0, <2>1, StatusSet, Statuses3 DEF Throw, Shaped
  <2>4. Quiet(r)
    BY <2>1, <2>2, <2>3 DEF Quiet
  <2> QED BY <2>4, QuietKeeps
<1>10. ASSUME NEW t \in Emails \union {None}, Me(r, t)
       PROVE  MemberInv'
  BY <1>0, <1>10, ArrivesForeign, ForeignKeeps DEF Me, Writing
<1>11. CASE MeReturns(r)
  <2>1. call[r].route \notin Writing /\ role' = role /\ UNCHANGED memberVars
    BY <1>11 DEF MeReturns, At, Writing
  <2>2. Foreign(r, Writing)
    BY <1>0, <1>11, <2>1, Answers DEF MeReturns, AnswerOk
  <2>3. Framed(r)
    BY <1>0, <1>11, Leaves DEF MeReturns
  <2> QED BY <2>1, <2>2, <2>3, ForeignKeeps
<1> QED
  BY <1>1, <1>2, <1>3, <1>4, <1>5, <1>6, <1>7, <1>8, <1>9, <1>10, <1>11
  DEF MemberStep

LEMMA NothingKeeps ==
  ASSUME MemberInv, UNCHANGED <<gatewayVars, memberVars>>
  PROVE  MemberInv'
<1>1. /\ call' = call /\ frame' = frame /\ role' = role /\ account' = account
      /\ promised' = promised /\ overlapped' = overlapped
  BY DEF gatewayVars, memberVars
<1>2. Shape'
  <2>1. Shaped
    BY <1>1, Still DEF MemberInv
  <2>2. frame' = [r \in Requests |-> frame'[r]]
    BY <1>1, Zenon DEF MemberInv, Shape
  <2> QED BY <2>1, <2>2, Zenon DEF Shaped, Shape
<1>3. TablesOK' /\ WritersOK'
  BY <1>1 DEF MemberInv, TablesOK, WritersOK, WriterOK
<1>4. \A e \in Emails \ overlapped' : Alone(e)'
  BY <1>1 DEF MemberInv, Alone, Knows, Writers, Registered
<1> QED BY <1>2, <1>3, <1>4 DEF MemberInv

LEMMA NextKeeps == MemberInv /\ [Next]_vars => MemberInv'
<1> SUFFICES ASSUME MemberInv, [Next]_vars PROVE MemberInv'
  OBVIOUS
<1>0. Shape
  BY DEF MemberInv
<1>1. ASSUME NEW r \in Requests, MemberStep(r) PROVE MemberInv'
  BY <1>1, MemberKeeps
<1>2. ASSUME NEW r \in Requests, StrategyStep(r), UNCHANGED memberVars
      PROVE  MemberInv'
  BY <1>0, <1>2, StrategyForeign, ApartKeeps
<1>3. ASSUME NEW r \in Requests, FeedStep(r), UNCHANGED memberVars
      PROVE  MemberInv'
  BY <1>0, <1>3, FeedForeign, ApartKeeps
<1>4. ASSUME NEW r \in Requests, UploadStep(r), UNCHANGED memberVars
      PROVE  MemberInv'
  BY <1>0, <1>4, UploadForeign, ForeignKeeps
<1>5. ASSUME Tick, UNCHANGED memberVars PROVE MemberInv'
  BY <1>5, NothingKeeps DEF Tick
<1>6. ASSUME UNCHANGED vars PROVE MemberInv'
  BY <1>6, NothingKeeps DEF vars
<1> QED BY <1>1, <1>2, <1>3, <1>4, <1>5, <1>6 DEF Next, Step

-----------------------------------------------------------------------------
(* A row of member_info is what the answered requests say: its password      *)
(* whatever overlaps, its name unless two requests wrote it at once          *)
(* (MemberService.createMemberInfo, updateMemberInfo).                       *)
THEOREM RowsAreAsAnswered == Spec => []RowIsAsAnswered
<1>1. MemberInv => RowIsAsAnswered
  BY DEF MemberInv, TablesOK, Alone, RowIsAsAnswered
<1> QED BY <1>1, MemberInit1, NextKeeps, PTL DEF Spec

(* Two registrations of one address are answered ok only if the second       *)
(* overlapped a writer of the row (MemberService.createMemberInfo).          *)
THEOREM AddressesAreRegisteredOnce == Spec => []RegisteredOnce
<1>1. MemberInv => RegisteredOnce
  <2> SUFFICES ASSUME MemberInv, NEW e \in Emails \ overlapped,
                      NEW r \in Requests, NEW s \in Requests,
                      {call[r].route, call[s].route} = {"register"},
                      {call[r].on, call[s].on} = {e},
                      {call[r].status, call[s].status} = {"ok"}
               PROVE  r = s
    BY DEF RegisteredOnce
  <2>1. Registered(r, e) /\ Registered(s, e)
    BY DEF Registered
  <2> QED BY <2>1 DEF MemberInv, Alone
<1> QED BY <1>1, MemberInit1, NextKeeps, PTL DEF Spec

-----------------------------------------------------------------------------
(* Pictures.  An upload on its way, or left there by a failure, has its key  *)
(* and its file; one between its two calls finds its object in the store as  *)
(* long as no other upload crossed it.                                       *)
UploadFrames == [pc : {"put", "row", "done"}, key : Keys, file : Files]

UploadInv ==
  /\ Shape
  /\ UploadTypeOK
  /\ upload \in Seq([key : Keys, file : Files])
  /\ \A r \in Requests : call[r].route = "upload" =>
       frame[r] = NoFrame \/ frame[r] \in UploadFrames
  /\ \A r \in Requests, k \in Keys \ crossed :
       At(r, "upload", "row") /\ frame[r].key = k => object[k] = frame[r].file
  /\ RowIsTheObject

LEMMA PictureInit == Init => UploadInv
<1> SUFFICES ASSUME Init PROVE UploadInv
  OBVIOUS
<1> USE DEF Init, GatewayInit, UploadInit
<1>1. Shape
  BY MemberInit1 DEF MemberInv
<1>2. upload = << >> /\ upload \in Seq([key : Keys, file : Files])
  OBVIOUS
<1>3. \A r \in Requests : call[r].route = None /\ frame[r] = NoFrame
  BY DEF Unused
<1>4. UploadTypeOK
  BY <1>2, UploadAssumption DEF UploadTypeOK
<1>5. RowIsTheObject
  BY <1>2 DEF RowIsTheObject
<1> QED BY <1>1, <1>2, <1>3, <1>4, <1>5, UploadAssumption DEF UploadInv, At

(* A step of another service.                                                *)
Bystander(r) ==
  /\ Shaped /\ Framed(r)
  /\ \A q \in Requests \ {r} : call'[q] = call[q]
  /\ call[r].route # "upload" /\ call'[r].route # "upload"
  /\ UNCHANGED <<object, upload, crossed>>
  /\ clock' \in 0 .. LastTime

LEMMA BystanderKeeps ==
  ASSUME UploadInv, NEW r \in Requests, Bystander(r)
  PROVE  UploadInv'
<1> USE DEF UploadInv, Bystander
<1>1. Shape'
  BY ShapeNext
<1>2. ASSUME NEW q \in Requests, call'[q].route = "upload" \/ call[q].route = "upload"
      PROVE  call'[q] = call[q] /\ frame'[q] = frame[q]
  BY <1>2 DEF Framed
<1>3. UploadTypeOK' /\ upload' \in Seq([key : Keys, file : Files])
  BY DEF UploadTypeOK
<1>4. \A q \in Requests : call'[q].route = "upload" =>
        frame'[q] = NoFrame \/ frame'[q] \in UploadFrames
  BY <1>2
<1>5. \A q \in Requests, k \in Keys \ crossed' :
        At(q, "upload", "row")' /\ frame'[q].key = k => object'[k] = frame'[q].file
  BY <1>2 DEF At
<1>6. RowIsTheObject'
  <2> SUFFICES ASSUME NEW k \in Keys \ crossed,
                      NEW i \in DOMAIN upload, upload[i].key = k,
                      \A j \in DOMAIN upload : upload[j].key = k => ~ j > i,
                      object[k] # upload[i].file
               PROVE  \E q \in Requests :
                        /\ call'[q].route = "upload"
                        /\ frame'[q].key = k /\ frame'[q].pc = "row"
                        /\ frame'[q].file = object[k]
    BY DEF RowIsTheObject
  <2>1. PICK q \in Requests : /\ call[q].route = "upload"
                              /\ frame[q].key = k /\ frame[q].pc = "row"
                              /\ frame[q].file = object[k]
    BY DEF RowIsTheObject
  <2> QED BY <1>2, <2>1
<1> QED BY <1>1, <1>3, <1>4, <1>5, <1>6

LEMMA UploadArrives ==
  ASSUME UploadInv, NEW r \in Requests, NEW token, NEW folder \in Stamped \union {"ticker"},
         NEW file \in Files, Upload(r, token, folder, file)
  PROVE  UploadInv'
<1> USE DEF UploadInv
<1> DEFINE roles == {"Admin", "DAServer"}
           f == [pc |-> "put", key |-> KeyOf(folder), file |-> file]
<1>1. Arrive(r, "upload", token, roles, folder, f) /\ UNCHANGED uploadVars
  BY DEF Upload
<1>2. f \in UploadFrames /\ f.pc = "put"
  BY DEF UploadFrames, KeyOf, Keys, UploadTypeOK
<1>3. NoFrame.pc = "none"
  BY DEF NoFrame
<1> HIDE DEF f, roles
<1>4. /\ Shaped /\ Framed(r) /\ call'[r].route = "upload"
      /\ \A q \in Requests \ {r} : call'[q] = call[q]
      /\ frame'[r] \in {f, NoFrame}
  BY <1>1, Arrives
<1>5. call[r].route # "upload"
  BY <1>1, UploadAssumption DEF Arrive, Unused
<1>6. \A q \in Requests \ {r} : call'[q] = call[q] /\ frame'[q] = frame[q]
  BY <1>4 DEF Framed
<1>7. Shape'
  BY <1>4, ShapeNext
<1>8. UploadTypeOK' /\ upload' = upload /\ object' = object /\ crossed' = crossed
  BY <1>1 DEF UploadTypeOK, uploadVars
<1>9. \A q \in Requests : call'[q].route = "upload" =>
        frame'[q] = NoFrame \/ frame'[q] \in UploadFrames
  BY <1>2, <1>4, <1>6
<1>10. \A q \in Requests, k \in Keys \ crossed' :
         At(q, "upload", "row")' /\ frame'[q].key = k => object'[k] = frame'[q].file
  BY <1>2, <1>3, <1>4, <1>6, <1>8 DEF At
<1>11. RowIsTheObject'
  <2> SUFFICES ASSUME NEW k \in Keys \ crossed,
                      NEW i \in DOMAIN upload, upload[i].key = k,
                      \A j \in DOMAIN upload : upload[j].key = k => ~ j > i,
                      object[k] # upload[i].file
               PROVE  \E q \in Requests :
                        /\ call'[q].route = "upload"
                        /\ frame'[q].key = k /\ frame'[q].pc = "row"
                        /\ frame'[q].file = object[k]
    BY <1>8 DEF RowIsTheObject
  <2>1. PICK q \in Requests : /\ call[q].route = "upload"
                              /\ frame[q].key = k /\ frame[q].pc = "row"
                              /\ frame[q].file = object[k]
    BY DEF RowIsTheObject
  <2> QED BY <1>5, <1>6, <2>1
<1> QED BY <1>7, <1>8, <1>9, <1>10, <1>11

(* The object is put: whoever waits to store a row under the key is crossed. *)
LEMMA PutKeeps ==
  ASSUME UploadInv, NEW r \in Requests, PutObject(r)
  PROVE  UploadInv'
<1> USE DEF UploadInv
<1> DEFINE f == frame[r]
<1>1. /\ call[r].route = "upload" /\ call[r].status = Open /\ f.pc = "put"
      /\ object' = [object EXCEPT ![f.key] = f.file]
      /\ Go(r, "row") /\ call' = call /\ upload' = upload /\ clock' = clock
      /\ crossed' = IF \E s \in Requests : At(s, "upload", "row")
                                            /\ frame[s].key = f.key
                      THEN crossed \union {f.key} ELSE crossed
  BY DEF PutObject, At
<1>2. f \in UploadFrames
  BY <1>1 DEF NoFrame
<1>3. f.key \in Keys /\ f.file \in Files
  BY <1>2 DEF UploadFrames
<1>4. /\ frame'[r].pc = "row" /\ frame'[r].key = f.key /\ frame'[r].file = f.file
      /\ frame'[r] \in UploadFrames
  <2>1. frame'[r] = [frame[r] EXCEPT !.pc = "row"]
    BY <1>1, Zenon DEF Shape, Go
  <2> QED BY <1>2, <2>1 DEF UploadFrames
<1>5. Framed(r) /\ Shaped
  BY <1>1, Goes, Still
<1>6. Shape'
  BY <1>5, ShapeNext
<1>7. \A q \in Requests \ {r} : call'[q] = call[q] /\ frame'[q] = frame[q]
  BY <1>1, <1>5 DEF Framed
<1>8. object \in [Keys -> Files \union {None}]
  BY DEF UploadTypeOK
<1>9. /\ object' \in [Keys -> Files \union {None}] /\ object'[f.key] = f.file
      /\ \A k \in Keys : k # f.key => object'[k] = object[k]
  BY <1>1, <1>3, <1>8
<1>10. UploadTypeOK' /\ upload' \in Seq([key : Keys, file : Files])
  BY <1>1, <1>9 DEF UploadTypeOK
<1>11. \A q \in Requests : call'[q].route = "upload" =>
         frame'[q] = NoFrame \/ frame'[q] \in UploadFrames
  BY <1>4, <1>7
<1>12. ASSUME NEW q \in Requests, NEW k \in Keys \ crossed',
              At(q, "upload", "row")', frame'[q].key = k
       PROVE  object'[k] = frame'[q].file
  <2>1. CASE q = r
    BY <1>4, <1>9, <1>12, <2>1
  <2>2. CASE q # r
    <3>1. At(q, "upload", "row") /\ frame[q].key = k
      BY <1>7, <1>12, <2>2 DEF At
    <3>2. k # f.key /\ k \notin crossed
      BY <1>1, <1>12, <3>1
    <3> QED BY <1>7, <1>9, <2>2, <3>1, <3>2
  <2> QED BY <2>1, <2>2
<1>13. RowIsTheObject'
  <2> SUFFICES ASSUME NEW k \in Keys \ crossed',
                      NEW i \in DOMAIN upload, upload[i].key = k,
                      \A j \in DOMAIN upload : upload[j].key = k => ~ j > i,
                      object'[k] # upload[i].file
               PROVE  \E q \in Requests :
                        /\ call'[q].route = "upload"
                        /\ frame'[q].key = k /\ frame'[q].pc = "row"
                        /\ frame'[q].file = object'[k]
    BY <1>1 DEF RowIsTheObject
  <2>1. CASE k = f.key
    BY <1>1, <1>4, <1>9, <2>1
  <2>2. CASE k # f.key
    <3>1. k \notin crossed /\ object'[k] = object[k]
      BY <1>1, <1>9, <2>2
    <3>2. PICK q \in Requests : /\ call[q].route = "upload"
                                /\ frame[q].key = k /\ frame[q].pc = "row"
                                /\ frame[q].file = object[k]
      BY <3>1 DEF RowIsTheObject
    <3> QED BY <1>1, <1>7, <3>1, <3>2
  <2> QED BY <2>1, <2>2
<1> QED BY <1>6, <1>10, <1>11, <1>12, <1>13

LEMMA RowOfTable ==
  ASSUME NEW S, NEW s \in Seq(S), NEW i \in DOMAIN s
  PROVE  s[i] \in S
OBVIOUS

(* The row is stored, of the object that was put.                            *)
LEMMA SaveUploadKeeps ==
  ASSUME UploadInv, NEW r \in Requests, SaveUpload(r)
  PROVE  UploadInv'
<1> USE DEF UploadInv
<1> DEFINE f == frame[r]
           row == [key |-> f.key, file |-> f.file]
<1>1. /\ At(r, "upload", "row") /\ call[r].route = "upload" /\ f.pc = "row"
      /\ upload' = Append(upload, row)
      /\ AnswerOk(r) /\ Go(r, "done")
      /\ object' = object /\ crossed' = crossed /\ clock' = clock
  BY DEF SaveUpload, At
<1>2. f \in UploadFrames
  BY <1>1 DEF NoFrame
<1>3. f.key \in Keys /\ f.file \in Files /\ row \in [key : Keys, file : Files]
      /\ row.key = f.key /\ row.file = f.file
  BY <1>2 DEF UploadFrames
<1>4. frame'[r].pc = "done" /\ frame'[r] \in UploadFrames
  <2>1. frame'[r] = [frame[r] EXCEPT !.pc = "done"]
    BY <1>1, Zenon DEF Shape, Go
  <2> QED BY <1>2, <2>1 DEF UploadFrames
<1>5. Framed(r) /\ Shaped
  BY <1>1, Goes, StatusSet DEF AnswerOk, Shaped
<1>6. Shape'
  BY <1>5, ShapeNext
<1>7. \A q \in Requests \ {r} : call'[q] = call[q] /\ frame'[q] = frame[q]
  BY <1>1, <1>5, StatusSet DEF Framed, AnswerOk
<1> HIDE DEF row
<1>8. /\ upload' \in Seq([key : Keys, file : Files])
      /\ DOMAIN upload' = 1 .. Len(upload) + 1 /\ DOMAIN upload = 1 .. Len(upload)
      /\ \A i \in DOMAIN upload : upload'[i] = upload[i]
      /\ upload'[Len(upload) + 1] = row
      /\ Len(upload) \in Nat
  BY <1>1, <1>3
<1>9. UploadTypeOK'
  <2>1. ASSUME NEW i \in DOMAIN upload'
        PROVE  upload'[i].key \in Keys /\ upload'[i].file \in Files
    <3>1. upload'[i] \in [key : Keys, file : Files]
      BY <1>8, RowOfTable
    <3> QED BY <3>1
  <2> QED BY <1>1, <2>1 DEF UploadTypeOK
<1>10. \A q \in Requests : call'[q].route = "upload" =>
         frame'[q] = NoFrame \/ frame'[q] \in UploadFrames
  BY <1>4, <1>7
<1>11. \A q \in Requests, k \in Keys \ crossed' :
         At(q, "upload", "row")' /\ frame'[q].key = k => object'[k] = frame'[q].file
  BY <1>1, <1>4, <1>7 DEF At
<1>12. RowIsTheObject'
  <2> SUFFICES ASSUME NEW k \in Keys \ crossed,
                      NEW i \in DOMAIN upload', upload'[i].key = k,
                      \A j \in DOMAIN upload' : upload'[j].key = k => ~ j > i,
                      object[k] # upload'[i].file
               PROVE  \E q \in Requests :
                        /\ call'[q].route = "upload"
                        /\ frame'[q].key = k /\ frame'[q].pc = "row"
                        /\ frame'[q].file = object[k]
    BY <1>1 DEF RowIsTheObject
  <2>1. CASE k = f.key
    <3>1. i = Len(upload) + 1
      BY <1>3, <1>8, <2>1
    <3>2. object[k] = f.file
      BY <1>1, <2>1
    <3> QED BY <1>3, <1>8, <3>1, <3>2
  <2>2. CASE k # f.key
    <3>1. i \in DOMAIN upload /\ upload[i].key = k /\ upload[i].file # object[k]
          /\ \A j \in DOMAIN upload : upload[j].key = k => ~ j > i
      BY <1>3, <1>8, <2>2
    <3>2. PICK q \in Requests : /\ call[q].route = "upload"
                                /\ frame[q].key = k /\ frame[q].pc = "row"
                                /\ frame[q].file = object[k]
      BY <3>1 DEF RowIsTheObject
    <3> QED BY <1>7, <2>2, <3>2
  <2> QED BY <2>1, <2>2
<1> QED BY <1>6, <1>8, <1>9, <1>10, <1>11, <1>12

(* An upload fails: it stays where it is, answered.                          *)
LEMMA UploadRaisesKeeps ==
  ASSUME UploadInv, NEW r \in Requests, UploadRaises(r)
  PROVE  UploadInv'
<1> USE DEF UploadInv
<1>1. /\ call[r].route = "upload" /\ Throw(r, "QueryFailedError")
      /\ frame' = frame /\ UNCHANGED uploadVars
  BY DEF UploadRaises, At
<1>2. /\ Shaped /\ call'[r].status # Open
      /\ \A q \in Requests : call'[q].route = call[q].route
      /\ \A q \in Requests \ {r} : call'[q] = call[q]
  BY <1>1, StatusSet, Statuses3 DEF Throw, Shaped
<1>3. Shape'
  BY <1>1, <1>2, FrameKept, ShapeNext
<1>4. UploadTypeOK' /\ upload' = upload /\ object' = object /\ crossed' = crossed
  BY <1>1 DEF UploadTypeOK, uploadVars
<1>5. \A q \in Requests, k \in Keys \ crossed' :
        At(q, "upload", "row")' /\ frame'[q].key = k => object'[k] = frame'[q].file
  BY <1>1, <1>2, <1>4 DEF At
<1>6. RowIsTheObject'
  BY <1>1, <1>2, <1>4 DEF RowIsTheObject
<1> QED BY <1>1, <1>2, <1>3, <1>4, <1>5, <1>6

(* A step of a member's request, whose route is none of W, leaves the other  *)
(* requests alone.                                                           *)
Outside(r, W) ==
  /\ Shaped /\ Framed(r)
  /\ \A q \in Requests \ {r} : call'[q] = call[q]
  /\ call[r] = Unused \/ call[r].route \notin W
  /\ call'[r].route \notin W

LEMMA MemberOutside ==
  ASSUME Shape, NEW r \in Requests, MemberStep(r), NEW W,
         "register" \notin W, "change" \notin W, "login" \notin W, "me" \notin W
  PROVE  Outside(r, W)
<1>1. ASSUME NEW route, NEW token, NEW roles, NEW on, NEW f,
             Arrive(r, route, token, roles, on, f), route \notin W
      PROVE  Outside(r, W)
  <2>1. call[r] = Unused
    BY <1>1 DEF Arrive
  <2> QED BY <1>1, <2>1, Arrives DEF Outside
<1>2. ASSUME NEW s, call[r].route \notin W,
             call' = [call EXCEPT ![r].status = s], Framed(r)
      PROVE  Outside(r, W)
  BY <1>2, StatusSet DEF Outside, Shaped
<1>3. ASSUME call[r].route \notin W, call' = call, Framed(r)
      PROVE  Outside(r, W)
  BY <1>3, Still DEF Outside
<1>4. ASSUME NEW e, NEW a, Register(r, e, a) \/ Change(r, e, a)
      PROVE  Outside(r, W)
  BY <1>1, <1>4 DEF Register, Change, Begin
<1>5. ASSUME NEW e, NEW p, Login(r, e, p)
      PROVE  Outside(r, W)
  BY <1>1, <1>5 DEF Login
<1>6. ASSUME NEW t, Me(r, t)
      PROVE  Outside(r, W)
  BY <1>1, <1>6 DEF Me
<1>7. CASE RegisterFind(r)
  <2>1. call[r].route \notin W
    BY <1>7 DEF RegisterFind, At
  <2>2. \/ Throw(r, "AlreadyExistError") /\ Leave(r)
        \/ Go(r, "select") /\ call' = call
    BY <1>7 DEF RegisterFind, Go
  <2> QED BY <1>2, <1>3, <2>1, <2>2, Goes, Leaves DEF Throw
<1>8. CASE ChangeFind(r)
  <2>1. call[r].route \notin W
    BY <1>8 DEF ChangeFind, At
  <2>2. CASE role[call[r].on] = None
    BY <1>2, <1>8, <2>1, <2>2, Leaves DEF ChangeFind, Throw
  <2>3. CASE role[call[r].on] # None
    <3>1. /\ call' = call
          /\ frame' = [frame EXCEPT ![r].pc = "select",
                         ![r].entity.name = IF @ = None
                                              THEN account[call[r].on].name ELSE @]
      BY <1>8, <2>3 DEF ChangeFind
    <3>2. Framed(r)
      BY <3>1 DEF Framed, Shape
    <3> QED BY <1>3, <2>1, <3>1, <3>2
  <2> QED BY <2>2, <2>3
<1>9. CASE SaveSelects(r)
  <2>1. call[r].route \notin W /\ call' = call
    BY <1>9 DEF SaveSelects, AtSave, At
  <2>2. Framed(r)
    BY <1>9 DEF SaveSelects, Framed, Shape
  <2> QED BY <1>3, <2>1, <2>2
<1>10. CASE SaveWrites(r)
  <2>1. call[r].route \notin W /\ Leave(r)
    BY <1>10 DEF SaveWrites, AtSave, At
  <2>2. Throw(r, "QueryFailedError") \/ AnswerOk(r)
    BY <1>10 DEF SaveWrites
  <2> QED BY <1>2, <2>1, <2>2, Leaves DEF Throw, AnswerOk
<1>11. CASE LoginFind(r)
  <2>1. call[r].route \notin W /\ Leave(r)
    BY <1>11 DEF LoginFind, At
  <2> QED BY <1>2, <1>11, <2>1, Leaves DEF LoginFind, Throw, AnswerOk
<1>12. CASE MemberRaises(r)
  <2>1. call[r].route \notin W /\ Leave(r)
    BY <1>12 DEF MemberRaises, At
  <2> QED BY <1>2, <1>12, <2>1, Leaves DEF MemberRaises, Throw
<1>13. CASE MeReturns(r)
  <2>1. call[r].route \notin W /\ Leave(r)
    BY <1>13 DEF MeReturns, At
  <2> QED BY <1>2, <1>13, <2>1, Leaves DEF MeReturns, AnswerOk
<1> QED
  BY <1>4, <1>5, <1>6, <1>7, <1>8, <1>9, <1>10, <1>11, <1>12, <1>13
  DEF MemberStep

LEMMA MemberIsBystander ==
  ASSUME UploadInv, NEW r \in Requests, MemberStep(r), UNCHANGED uploadVars
  PROVE  Bystander(r)
<1>1. Outside(r, {"upload"})
  BY MemberOutside DEF UploadInv
<1>2. Unused.route # "upload"
  BY UploadAssumption DEF Unused
<1> QED BY <1>1, <1>2 DEF Bystander, Outside, UploadInv, UploadTypeOK, uploadVars

LEMMA OthersAreBystanders ==
  ASSUME UploadInv, NEW r \in Requests, Foreign(r, Apart), Framed(r),
         UNCHANGED uploadVars
  PROVE  Bystander(r)
<1>1. Unused.route # "upload"
  BY UploadAssumption DEF Unused
<1> QED BY <1>1 DEF Bystander, Foreign, Apart, UploadInv, UploadTypeOK, uploadVars

LEMMA PictureKeeps == UploadInv /\ [Next]_vars => UploadInv'
<1> SUFFICES ASSUME UploadInv, [Next]_vars PROVE UploadInv'
  OBVIOUS
<1>0. Shape
  BY DEF UploadInv
<1>1. ASSUME NEW r \in Requests, MemberStep(r), UNCHANGED uploadVars
      PROVE  UploadInv'
  BY <1>1, MemberIsBystander, BystanderKeeps
<1>2. ASSUME NEW r \in Requests, StrategyStep(r) \/ FeedStep(r),
             UNCHANGED uploadVars
      PROVE  UploadInv'
  BY <1>0, <1>2, StrategyForeign, FeedForeign, OthersAreBystanders, BystanderKeeps
<1>3. ASSUME NEW r \in Requests, UploadStep(r)
      PROVE  UploadInv'
  BY <1>3, UploadArrives, PutKeeps, SaveUploadKeeps, UploadRaisesKeeps
  DEF UploadStep
<1>4. ASSUME call' = call, frame' = frame, UNCHANGED <<object, upload, crossed>>,
             clock' \in 0 .. LastTime
      PROVE  UploadInv'
  <2>1. Shape'
    <3>1. Shaped
      BY <1>0, <1>4, Still
    <3>2. frame' = [r \in Requests |-> frame'[r]]
      BY <1>0, <1>4, Zenon DEF Shape
    <3> QED BY <3>1, <3>2, Zenon DEF Shaped, Shape
  <2>2. UploadTypeOK'
    BY <1>4 DEF UploadInv, UploadTypeOK
  <2> QED BY <1>4, <2>1, <2>2 DEF UploadInv, RowIsTheObject, At
<1>5. CASE Tick
  <2>1. clock' \in 0 .. LastTime
    BY <1>5, UploadAssumption DEF Tick, UploadInv, UploadTypeOK
  <2> QED BY <1>4, <1>5, <2>1 DEF Tick, gatewayVars
<1>6. CASE UNCHANGED vars
  BY <1>4, <1>6 DEF vars, gatewayVars, uploadVars, UploadInv, UploadTypeOK
<1> QED BY <1>1, <1>2, <1>3, <1>5, <1>6 DEF Next, Step

(* The last row of a name is of what the store holds under it, unless two    *)
(* uploads crossed or one has not stored its row (UploadService.uploadFile). *)
THEOREM RowsAreTheObjects == Spec => []RowIsTheObject
<1>1. UploadInv => RowIsTheObject
  BY DEF UploadInv
<1> QED BY <1>1, PictureInit, PictureKeeps, PTL DEF Spec

-----------------------------------------------------------------------------
(* Strategies: the rows of the tables, and what requests remember of them.   *)

Making == {"create", "fork"}
Adding == {"add", "fork"}

Rows      == [maker : Emails, operator : Emails, open : BOOLEAN, live : BOOLEAN]
Listed    == [code : Nat, ticker : Tickers, setting : Settings \union {None}]
TagParts  == [pc : {"find", "insert", "tagged", "pair", "paired", "failed", "lost"},
              tag : Tags, hash : Nat]
UnivParts == [pc : {"mine", "insert", "again", "fill", "filled", "failed"},
              ticker : Tickers, setting : Settings \union {None}, id : Nat]
CreateFrames == [pc : {"row", "info", "tags", "done", "failed"},
                 parts : Seq(TagParts)]
AddFrames    == [pc : {"universals", "done"}, univ : Seq(UnivParts)]
ForkFrames   == [pc : {"source", "row", "info", "universals", "done", "failed"},
                 source : Nat, univ : Seq(UnivParts), tags : SUBSET Nat,
                 paired : SUBSET Nat, info : BOOLEAN, maker : Emails \union {None}]

(* The tickers a request adds to a strategy.                                 *)
Univs(r) == IF call[r].route \in Adding /\ frame[r].pc # "none"
              THEN frame[r].univ ELSE << >>

StrategyTables ==
  /\ strategy \in Seq(Rows) /\ 1 \in Codes
  /\ invest \subseteq Codes /\ pushed \subseteq Codes
  /\ universal \in Seq(Listed)
  /\ \A u \in DOMAIN universal : universal[u].code \in Codes
  /\ 1 \in DOMAIN universal
  /\ universal[1].code = 1 /\ universal[1].setting # None
  /\ hash \in Seq(Tags) /\ hashList \subseteq (DOMAIN hash) \X Codes
  /\ shared \subseteq Tags

(* Refused at the door, or at a source that is not there.                    *)
Refused(r) == frame[r] = NoFrame /\ call[r].status \notin {Open, "ok"}

(* A request that makes a strategy has its number once the row is there, and *)
(* a principal once it goes on.                                              *)
NumberOK(r) ==
  call[r].route \in Making =>
    /\ call[r].on \in {0} \union (Codes \ {1})
    /\ frame[r].pc \in {"none", "source", "row"} => call[r].on = 0
    /\ frame[r].pc \in {"info", "tags", "universals", "done"} => call[r].on # 0
    /\ frame[r].pc \in {"tags", "universals", "done"} => call[r].on \in invest
    /\ call[r].status = "ok" => frame[r].pc = "done"

(* A part of createMyStrategy that has found or inserted its tag.            *)
TagOK(r, i) ==
  LET p == frame[r].parts[i] IN
  /\ p.pc \in {"tagged", "pair", "paired"} =>
       p.hash \in DOMAIN hash /\ hash[p.hash] = p.tag
  /\ p.pc = "paired" => <<p.hash, call[r].on>> \in hashList

CreateOK(r) ==
  call[r].route = "create" =>
    \/ Refused(r)
    \/ /\ call[r].user \in Emails /\ frame[r] \in CreateFrames
       /\ frame[r].pc \in {"row", "info"} =>
            \A i \in DOMAIN frame[r].parts : frame[r].parts[i].pc = "find"
       /\ frame[r].pc = "done" => AllPaired(r)
       /\ \A i \in DOMAIN frame[r].parts : TagOK(r, i)
       /\ \A h \in DOMAIN hash : <<h, call[r].on>> \in hashList =>
            \E i \in Part(r, "paired") : frame[r].parts[i].hash = h

(* A ticker that is being added has the row it inserted, which is filled in  *)
(* when it says so.                                                          *)
UnivOK(r) ==
  \A i \in DOMAIN Univs(r) :
    LET p == Univs(r)[i] IN
    /\ p.pc \in {"mine", "insert"} => p.id = 0
    /\ p.pc \in {"again", "fill", "filled"} => p.id # 0
    /\ p.id # 0 => /\ p.id \in DOMAIN universal \ {1}
                   /\ universal[p.id].code = call[r].on
                   /\ universal[p.id].ticker = p.ticker
                   /\ universal[p.id].setting \in {None, p.setting}
    /\ p.pc = "filled" => universal[p.id].setting = p.setting

AddOK(r) ==
  call[r].route = "add" =>
    \/ Refused(r)
    \/ /\ call[r].on \in Codes /\ frame[r] \in AddFrames
       /\ \A i \in DOMAIN frame[r].univ : frame[r].univ[i].setting \in Settings
       /\ call[r].status = "ok" => AllFilled(r)

ForkOK(r) ==
  call[r].route = "fork" =>
    \/ Refused(r)
    \/ LET f == frame[r] IN
       /\ call[r].user \in Emails /\ f \in ForkFrames
       /\ f.paired \subseteq f.tags /\ f.tags \subseteq DOMAIN hash
       /\ f.pc \in {"row", "info"} => f.maker \in Emails
       /\ f.pc \in {"source", "row", "info"} =>
            f.paired = {} /\ \A i \in DOMAIN f.univ : f.univ[i].id = 0
       /\ call[r].on # 0 =>
            /\ strategy[call[r].on].maker = f.maker
            /\ \A h \in DOMAIN hash :
                 <<h, call[r].on>> \in hashList <=> h \in f.paired
       /\ f.pc = "done" => AllFilled(r) /\ f.tags = f.paired

RequestOK(r) ==
  /\ NumberOK(r) /\ CreateOK(r) /\ UnivOK(r) /\ AddOK(r) /\ ForkOK(r)

(* No two requests make one strategy, no two parts fill one row; every       *)
(* ticker was added by a part, every strategy that has no principal is being *)
(* made, and what is to be backtested is a fork that was answered.           *)
CodesApart ==
  \A r, q \in Requests :
    /\ call[r].route \in Making /\ call[q].route \in Making
    /\ call[r].on # 0 /\ call[r].on = call[q].on
    => r = q
IdsApart ==
  \A r, q \in Requests : \A i \in DOMAIN Univs(r), j \in DOMAIN Univs(q) :
    Univs(r)[i].id # 0 /\ Univs(r)[i].id = Univs(q)[j].id => r = q /\ i = j
RowsAdded ==
  \A u \in DOMAIN universal \ {1} :
    \E r \in Requests : \E i \in DOMAIN Univs(r) : Univs(r)[i].id = u
BareAreMade ==
  \A c \in Codes \ invest :
    \E r \in Requests : call[r].route \in Making /\ call[r].on = c
PushedAreForks ==
  \A c \in pushed : \E r \in Requests :
    call[r].route = "fork" /\ call[r].on = c /\ call[r].status = "ok"

StrategyInv ==
  /\ Shape /\ StrategyTables
  /\ \A r \in Requests : RequestOK(r)
  /\ CodesApart /\ IdsApart /\ RowsAdded /\ BareAreMade /\ PushedAreForks

-----------------------------------------------------------------------------
(* What a step of request r does to the tables and to the numbers it holds.  *)

OthersStay(r) ==
  /\ Shaped /\ Framed(r)
  /\ \A q \in Requests \ {r} : call'[q] = call[q]

TablesGrow(r) ==
  /\ \A c \in Codes : c \in Codes' /\ strategy'[c].maker = strategy[c].maker
  /\ invest \subseteq invest'
  /\ \A h \in DOMAIN hash : h \in DOMAIN hash' /\ hash'[h] = hash[h]
  /\ hashList \subseteq hashList'
  /\ \A p \in hashList' \ hashList :
       call[r].route \in Making /\ call[r].on # 0 /\ p[2] = call[r].on
  /\ \A u \in DOMAIN universal :
       /\ u \in DOMAIN universal'
       /\ universal'[u].code = universal[u].code
       /\ universal'[u].ticker = universal[u].ticker
       /\ \/ universal'[u].setting = universal[u].setting
          \/ \E i \in DOMAIN Univs(r) : Univs(r)[i].id = u

NumbersKept(r) ==
  /\ call[r].route \in Making /\ call[r].on # 0 =>
       call'[r].route = call[r].route /\ call'[r].on = call[r].on
  /\ call'[r].route \in Making /\ call'[r].on # 0 =>
       \/ call[r].route \in Making /\ call'[r].on = call[r].on
       \/ call'[r].on \notin Codes
  /\ \A c \in Codes' \ Codes : call'[r].route \in Making /\ call'[r].on = c
  /\ \A c \in pushed' \ pushed :
       call'[r].route = "fork" /\ call'[r].on = c /\ call'[r].status = "ok"
  /\ call[r].route = "fork" /\ call[r].status = "ok" => call'[r] = call[r]

IdsKept(r) ==
  /\ \A i \in DOMAIN Univs(r) : Univs(r)[i].id # 0 =>
       i \in DOMAIN Univs(r)' /\ Univs(r)'[i].id = Univs(r)[i].id
  /\ \A i \in DOMAIN Univs(r)' :
       \/ Univs(r)'[i].id = 0
       \/ i \in DOMAIN Univs(r) /\ Univs(r)'[i].id = Univs(r)[i].id
       \/ Univs(r)'[i].id \notin DOMAIN universal
  /\ \A i, j \in DOMAIN Univs(r)' :
       Univs(r)'[i].id # 0 /\ Univs(r)'[i].id = Univs(r)'[j].id => i = j
  /\ \A u \in DOMAIN universal' \ DOMAIN universal :
       \E i \in DOMAIN Univs(r)' : Univs(r)'[i].id = u

Advances(r) == OthersStay(r) /\ TablesGrow(r) /\ NumbersKept(r) /\ IdsKept(r)

LEMMA OtherUnivs ==
  ASSUME NEW r \in Requests, OthersStay(r), NEW q \in Requests \ {r}
  PROVE  Univs(q)' = Univs(q)
BY DEF OthersStay, Framed, Univs

(* What another request remembers is still so.                               *)
LEMMA OthersOK ==
  ASSUME StrategyInv, NEW r \in Requests, OthersStay(r), TablesGrow(r),
         NEW q \in Requests \ {r}
  PROVE  RequestOK(q)'
<1>1. RequestOK(q) /\ call'[q] = call[q] /\ frame'[q] = frame[q]
  BY DEF StrategyInv, OthersStay, Framed
<1>2. hashList \subseteq (DOMAIN hash) \X Codes
  BY DEF StrategyInv, StrategyTables
<1>3. ASSUME call[q].route \in Making, call[q].on # 0, NEW h,
             <<h, call[q].on>> \in hashList'
      PROVE  <<h, call[q].on>> \in hashList /\ h \in DOMAIN hash
  <2>1. SUFFICES <<h, call[q].on>> \in hashList
    BY <1>2
  <2>2. CASE <<h, call[q].on>> \notin hashList
    <3>1. /\ call[r].route \in Making /\ call[r].on # 0
          /\ <<h, call[q].on>>[2] = call[r].on
      BY <1>3, <2>2 DEF TablesGrow
    <3>2. call[r].on = call[q].on
      BY <3>1
    <3> QED
      BY <1>3, <3>1, <3>2 DEF StrategyInv, CodesApart
  <2> QED
    BY <2>2
<1>4. NumberOK(q)'
  BY <1>1 DEF RequestOK, NumberOK, TablesGrow
<1>5. CreateOK(q)'
  <2>1. CASE call[q].route # "create" \/ Refused(q)
    BY <1>1, <2>1 DEF CreateOK, Refused
  <2>2. CASE call[q].route = "create" /\ ~Refused(q)
    <3>1. /\ call[q].user \in Emails /\ frame[q] \in CreateFrames
          /\ frame[q].pc \in {"row", "info"} =>
               \A i \in DOMAIN frame[q].parts : frame[q].parts[i].pc = "find"
          /\ frame[q].pc = "done" => AllPaired(q)
      BY <1>1, <2>2, Zenon DEF RequestOK, CreateOK
    <3>2. \A i \in DOMAIN frame[q].parts : TagOK(q, i)
      BY <1>1, <2>2, Zenon DEF RequestOK, CreateOK
    <3>3. \A i \in DOMAIN frame[q].parts : TagOK(q, i)'
      BY <1>1, <3>2 DEF TagOK, TablesGrow
    <3>4. ASSUME NEW h, <<h, call[q].on>> \in hashList'
          PROVE  \E i \in Part(q, "paired") : frame[q].parts[i].hash = h
      <4>1. CASE call[q].on = 0
        <5>2. <<h, 0>> \notin hashList
          <6>1. 0 \notin Codes
            BY DEF StrategyInv, StrategyTables, Codes
          <6> QED
            BY <1>2, <6>1
        <5>3. call[r].on # 0 /\ <<h, 0>>[2] = call[r].on
          BY <3>4, <4>1, <5>2 DEF TablesGrow
        <5> QED
          BY <5>3
      <4>2. CASE call[q].on # 0
        <5>1. <<h, call[q].on>> \in hashList /\ h \in DOMAIN hash
          BY <1>3, <2>2, <3>4, <4>2 DEF Making
        <5> QED
          BY <1>1, <2>2, <5>1, Zenon DEF RequestOK, CreateOK
      <4> QED
        BY <4>1, <4>2
    <3> QED
      BY <1>1, <3>1, <3>3, <3>4 DEF CreateOK, AllPaired, Part
  <2> QED
    BY <2>1, <2>2
<1>6. UnivOK(q)'
  <2> DEFINE U == Univs(q)
  <2>1. Univs(q)' = U
    BY OtherUnivs
  <2> SUFFICES ASSUME NEW i \in DOMAIN U
               PROVE  LET p == U[i] IN
                      /\ p.pc \in {"mine", "insert"} => p.id = 0
                      /\ p.pc \in {"again", "fill", "filled"} => p.id # 0
                      /\ p.id # 0 => /\ p.id \in DOMAIN universal' \ {1}
                                     /\ universal'[p.id].code = call[q].on
                                     /\ universal'[p.id].ticker = p.ticker
                                     /\ universal'[p.id].setting \in {None, p.setting}
                      /\ p.pc = "filled" => universal'[p.id].setting = p.setting
    BY <1>1, <2>1 DEF UnivOK
  <2>2. /\ U[i].pc \in {"mine", "insert"} => U[i].id = 0
        /\ U[i].pc \in {"again", "fill", "filled"} => U[i].id # 0
        /\ U[i].id # 0 => /\ U[i].id \in DOMAIN universal \ {1}
                          /\ universal[U[i].id].code = call[q].on
                          /\ universal[U[i].id].ticker = U[i].ticker
                          /\ universal[U[i].id].setting \in {None, U[i].setting}
        /\ U[i].pc = "filled" => universal[U[i].id].setting = U[i].setting
    BY <1>1 DEF RequestOK, UnivOK
  <2>3. \A j \in DOMAIN Univs(r) : U[i].id # 0 => Univs(r)[j].id # U[i].id
    BY DEF StrategyInv, IdsApart
  <2>4. U[i].id # 0 => universal'[U[i].id].setting = universal[U[i].id].setting
    BY <2>2, <2>3 DEF TablesGrow
  <2> QED
    BY <2>2, <2>4 DEF TablesGrow
<1>7. AddOK(q)'
  BY <1>1 DEF RequestOK, AddOK, Refused, AllFilled, Univ, TablesGrow
<1>8. ForkOK(q)'
  <2>1. CASE call[q].route # "fork" \/ Refused(q)
    BY <1>1, <2>1 DEF ForkOK, Refused
  <2>2. CASE call[q].route = "fork" /\ ~Refused(q)
    <3> DEFINE f == frame[q]
    <3>1. /\ call[q].user \in Emails /\ f \in ForkFrames
          /\ f.paired \subseteq f.tags /\ f.tags \subseteq DOMAIN hash
          /\ f.pc \in {"row", "info"} => f.maker \in Emails
          /\ f.pc \in {"source", "row", "info"} =>
               f.paired = {} /\ \A i \in DOMAIN f.univ : f.univ[i].id = 0
          /\ f.pc = "done" => AllFilled(q) /\ f.tags = f.paired
      BY <1>1, <2>2, Zenon DEF RequestOK, ForkOK
    <3>2. call[q].on # 0 =>
            /\ strategy[call[q].on].maker = f.maker
            /\ \A h \in DOMAIN hash :
                 <<h, call[q].on>> \in hashList <=> h \in f.paired
      BY <1>1, <2>2, Zenon DEF RequestOK, ForkOK
    <3>3. ASSUME call[q].on # 0
          PROVE  /\ strategy'[call[q].on].maker = f.maker
                 /\ \A h \in DOMAIN hash' :
                      <<h, call[q].on>> \in hashList' <=> h \in f.paired
      <4>1. call[q].on \in Codes
        BY <1>1, <2>2, <3>3 DEF RequestOK, NumberOK, Making
      <4>2. strategy'[call[q].on].maker = f.maker
        BY <3>2, <3>3, <4>1 DEF TablesGrow
      <4>3. \A h \in DOMAIN hash' :
              <<h, call[q].on>> \in hashList' <=> h \in f.paired
        BY <1>3, <2>2, <3>1, <3>2, <3>3 DEF TablesGrow, Making
      <4> QED
        BY <4>2, <4>3
    <3>4. f.tags \subseteq DOMAIN hash'
      BY <3>1 DEF TablesGrow
    <3>5. f.pc = "done" => AllFilled(q)' /\ f.tags = f.paired
      BY <1>1, <3>1 DEF AllFilled, Univ
    <3> QED
      BY <1>1, <3>1, <3>3, <3>4, <3>5 DEF ForkOK
  <2> QED
    BY <2>1, <2>2
<1> QED
  BY <1>4, <1>5, <1>6, <1>7, <1>8 DEF RequestOK

(* A step keeps the invariant if its request does.                           *)
LEMMA AdvanceKeeps ==
  ASSUME StrategyInv, NEW r \in Requests, Advances(r), StrategyTables',
         RequestOK(r)'
  PROVE  StrategyInv'
<1> USE DEF Advances
<1>1. Shape'
  BY ShapeNext DEF OthersStay
<1>2. \A q \in Requests : RequestOK(q)'
  BY OthersOK
<1>3. \A q \in Requests \ {r} : call'[q] = call[q] /\ Univs(q)' = Univs(q)
  BY OtherUnivs DEF OthersStay
<1>4. \A q \in Requests : call[q].route \in Making =>
        call[q].on \in {0} \union Codes
  BY DEF StrategyInv, RequestOK, NumberOK
<1>5. CodesApart'
  <2> SUFFICES ASSUME NEW p \in Requests, NEW q \in Requests,
                      call'[p].route \in Making, call'[q].route \in Making,
                      call'[p].on # 0, call'[p].on = call'[q].on
               PROVE  p = q
    BY DEF CodesApart
  <2>1. ASSUME NEW x \in Requests, x # r,
               call'[x].route \in Making, call'[x].on # 0, call'[x].on = call'[r].on,
               call'[r].route \in Making
        PROVE  FALSE
    <3>1. call[x].on \in Codes /\ call[x].route \in Making
      BY <1>3, <1>4, <2>1
    <3>2. call[r].route \in Making /\ call'[r].on = call[r].on
      BY <1>3, <2>1, <3>1 DEF NumbersKept
    <3> QED
      BY <1>3, <2>1, <3>1, <3>2 DEF StrategyInv, CodesApart
  <2>2. CASE p # r /\ q # r
    BY <1>3, <2>2 DEF StrategyInv, CodesApart
  <2> QED
    BY <2>1, <2>2
<1>6. IdsApart'
  <2> SUFFICES ASSUME NEW p \in Requests, NEW q \in Requests,
                      NEW i \in DOMAIN Univs(p)', NEW j \in DOMAIN Univs(q)',
                      Univs(p)'[i].id # 0, Univs(p)'[i].id = Univs(q)'[j].id
               PROVE  p = q /\ i = j
    BY DEF IdsApart
  <2>1. ASSUME NEW x \in Requests, x # r, NEW k \in DOMAIN Univs(x)',
               NEW l \in DOMAIN Univs(r)', Univs(x)'[k].id # 0,
               Univs(x)'[k].id = Univs(r)'[l].id
        PROVE  FALSE
    <3>1. k \in DOMAIN Univs(x) /\ Univs(x)'[k] = Univs(x)[k]
      BY <1>3, <2>1
    <3>2. Univs(x)[k].id \in DOMAIN universal
      BY <2>1, <3>1 DEF StrategyInv, RequestOK, UnivOK
    <3>3. l \in DOMAIN Univs(r) /\ Univs(r)'[l].id = Univs(r)[l].id
      BY <2>1, <3>1, <3>2 DEF IdsKept
    <3> QED
      BY <2>1, <3>1, <3>3 DEF StrategyInv, IdsApart
  <2>2. CASE p # r /\ q # r
    BY <1>3, <2>2 DEF StrategyInv, IdsApart
  <2>3. CASE p = r /\ q = r
    BY <2>3 DEF IdsKept
  <2> QED
    BY <2>1, <2>2, <2>3
<1>7. RowsAdded'
  <2> SUFFICES ASSUME NEW u \in DOMAIN universal' \ {1}
               PROVE  \E q \in Requests : \E i \in DOMAIN Univs(q)' :
                        Univs(q)'[i].id = u
    BY DEF RowsAdded
  <2>1. CASE u \notin DOMAIN universal
    BY <2>1 DEF IdsKept
  <2>2. CASE u \in DOMAIN universal
    <3>1. PICK q \in Requests : \E i \in DOMAIN Univs(q) : Univs(q)[i].id = u
      BY <2>2 DEF StrategyInv, RowsAdded
    <3>2. PICK i \in DOMAIN Univs(q) : Univs(q)[i].id = u
      BY <3>1
    <3>3. u # 0
      BY <2>2 DEF StrategyInv, StrategyTables
    <3> QED
      BY <1>3, <3>2, <3>3 DEF IdsKept
  <2> QED
    BY <2>1, <2>2
<1>8. BareAreMade'
  <2> SUFFICES ASSUME NEW c \in Codes' \ invest'
               PROVE  \E q \in Requests : call'[q].route \in Making /\ call'[q].on = c
    BY DEF BareAreMade
  <2>1. CASE c \notin Codes
    BY <2>1 DEF NumbersKept
  <2>2. CASE c \in Codes
    <3>1. c \notin invest
      BY DEF TablesGrow
    <3>2. PICK q \in Requests : call[q].route \in Making /\ call[q].on = c
      BY <2>2, <3>1 DEF StrategyInv, BareAreMade
    <3>3. c # 0
      BY <2>2 DEF StrategyInv, StrategyTables, Codes
    <3> QED
      BY <1>3, <3>2, <3>3 DEF NumbersKept
  <2> QED
    BY <2>1, <2>2
<1>9. PushedAreForks'
  <2> SUFFICES ASSUME NEW c \in pushed'
               PROVE  \E q \in Requests : /\ call'[q].route = "fork"
                                          /\ call'[q].on = c
                                          /\ call'[q].status = "ok"
    BY DEF PushedAreForks
  <2>1. CASE c \notin pushed
    BY <2>1 DEF NumbersKept
  <2>2. CASE c \in pushed
    <3>1. PICK q \in Requests : /\ call[q].route = "fork" /\ call[q].on = c
                                /\ call[q].status = "ok"
      BY <2>2 DEF StrategyInv, PushedAreForks
    <3> QED
      BY <1>3, <3>1 DEF NumbersKept
  <2> QED
    BY <2>1, <2>2
<1> QED
  BY <1>1, <1>2, <1>5, <1>6, <1>7, <1>8, <1>9 DEF StrategyInv


LEMMA StrategyInvInit == Init => StrategyInv
<1> SUFFICES ASSUME Init PROVE StrategyInv
  OBVIOUS
<1> DEFINE first == [code |-> 1, ticker |-> CHOOSE t \in Tickers : TRUE,
                     setting |-> CHOOSE s \in Settings : TRUE]
           tag   == CHOOSE t \in Tags : TRUE
<1>1. Shape
  BY MemberInit1 DEF MemberInv
<1>2. /\ strategy = <<FirstStrategy>> /\ invest = {1} /\ universal = <<first>>
      /\ hash = <<tag>> /\ hashList = {<<1, 1>>} /\ pushed = {} /\ shared = {}
  BY Zenon DEF Init, StrategyInit
<1>3. FirstStrategy \in Rows
  BY StrategyAssumption DEF FirstStrategy, Rows
<1>4. first \in Listed /\ first.code = 1 /\ first.setting # None
  BY StrategyAssumption DEF Listed
<1>5. tag \in Tags
  BY StrategyAssumption
<1>6. StrategyTables
  <2> HIDE DEF first, tag
  <2>1. Codes = {1}
    BY <1>2 DEF Codes
  <2>2. strategy \in Seq(Rows) /\ universal \in Seq(Listed) /\ hash \in Seq(Tags)
    BY <1>2, <1>3, <1>4, <1>5
  <2>3. DOMAIN universal = {1} /\ universal[1] = first /\ DOMAIN hash = {1}
    BY <1>2
  <2> QED
    BY <1>2, <1>4, <2>1, <2>2, <2>3 DEF StrategyTables
<1>7. \A r \in Requests : call[r].route = None /\ frame[r] = NoFrame
  BY DEF Init, GatewayInit, Unused
<1>8. None \notin {"create", "add", "fork"}
  BY StrategyAssumption
<1>9. \A r \in Requests : Univs(r) = << >> /\ call[r].route \notin Making
  BY <1>7, <1>8 DEF Univs, Adding, Making
<1>10. \A r \in Requests : RequestOK(r)
  BY <1>7, <1>8, <1>9
  DEF RequestOK, NumberOK, CreateOK, UnivOK, AddOK, ForkOK
<1>11. CodesApart /\ IdsApart
  BY <1>9 DEF CodesApart, IdsApart
<1>12. RowsAdded
  <2>1. DOMAIN universal \ {1} = {}
    BY <1>2
  <2> QED
    BY <2>1 DEF RowsAdded
<1>13. BareAreMade
  <2>1. Codes \ invest = {}
    BY <1>2 DEF Codes
  <2> QED
    BY <2>1 DEF BareAreMade
<1>14. PushedAreForks
  BY <1>2 DEF PushedAreForks
<1> QED
  BY <1>1, <1>6, <1>10, <1>11, <1>12, <1>13, <1>14 DEF StrategyInv

-----------------------------------------------------------------------------
(* Steps that leave the tables of strategies alone                           *)

LEMMA TablesRest ==
  ASSUME StrategyInv, NEW r \in Requests, UNCHANGED strategyVars
  PROVE  TablesGrow(r) /\ StrategyTables'
<1>1. /\ strategy' = strategy /\ invest' = invest /\ universal' = universal
      /\ hash' = hash /\ hashList' = hashList /\ pushed' = pushed
      /\ shared' = shared
  BY DEF strategyVars
<1>2. Codes' = Codes
  BY <1>1 DEF Codes
<1>3. TablesGrow(r)
  BY <1>1, <1>2 DEF TablesGrow
<1>4. StrategyTables'
  BY <1>1, <1>2 DEF StrategyInv, StrategyTables
<1> QED
  BY <1>3, <1>4

(* A request of another service, or one that arrives there.                  *)
Elsewhere(r) ==
  /\ call[r] = Unused \/ call[r].route \notin {"create", "add", "fork"}
  /\ call'[r].route \notin {"create", "add", "fork"}

LEMMA ElsewhereGrows ==
  ASSUME StrategyInv, NEW r \in Requests, OthersStay(r), Elsewhere(r),
         TablesGrow(r), StrategyTables', DOMAIN universal' = DOMAIN universal,
         pushed' = pushed, Codes' = Codes
  PROVE  StrategyInv'
<1>1. call[r].route \notin {"create", "add", "fork"}
  BY StrategyAssumption DEF Elsewhere, Unused
<1>2. Univs(r) = << >> /\ Univs(r)' = << >>
  BY <1>1 DEF Univs, Adding, Elsewhere
<1>3. NumbersKept(r)
  BY <1>1 DEF NumbersKept, Making, Elsewhere
<1>4. IdsKept(r)
  BY <1>2 DEF IdsKept
<1>5. RequestOK(r)'
  BY <1>2 DEF RequestOK, NumberOK, CreateOK, UnivOK, AddOK, ForkOK, Making, Elsewhere
<1> QED
  BY <1>3, <1>4, <1>5, AdvanceKeeps DEF Advances

LEMMA ElsewhereKeeps ==
  ASSUME StrategyInv, NEW r \in Requests, OthersStay(r), Elsewhere(r),
         UNCHANGED strategyVars
  PROVE  StrategyInv'
<1>1. DOMAIN universal' = DOMAIN universal /\ pushed' = pushed /\ Codes' = Codes
  BY DEF strategyVars, Codes
<1> QED
  BY <1>1, TablesRest, ElsewhereGrows

-----------------------------------------------------------------------------
(* The steps of strategies, one by one                                       *)

(* A member who may go on has an address.                                    *)
LEMMA MemberKnown ==
  ASSUME NEW token \in Emails \union {None}, CanActivate(MemberOf(token), {"Any"})
  PROVE  MemberOf(token) \in Emails
BY DEF CanActivate, MemberOf

LEMMA ArrivalKeeps ==
  ASSUME StrategyInv, NEW r \in Requests, NEW route \in {"create", "add", "fork"},
         NEW token, NEW roles, NEW on, NEW f,
         Arrive(r, route, token, roles, on, f), UNCHANGED strategyVars,
         route \in Making => on = 0,
         f.pc # "none", route \in Adding => \A i \in DOMAIN f.univ : f.univ[i].id = 0,
         RequestOK(r)'
  PROVE  StrategyInv'
<1>1. /\ call[r] = Unused /\ OthersStay(r)
      /\ call'[r].route = route /\ call'[r].on = on
      /\ frame'[r] = f \/ frame'[r] = NoFrame
  <2>1. call[r] = Unused
    BY DEF Arrive
  <2>2. Shape
    BY DEF StrategyInv
  <2> QED
    BY <2>1, <2>2, Arrives DEF OthersStay
<1>2. call[r].route \notin {"create", "add", "fork"}
  BY <1>1, StrategyAssumption DEF Unused
<1>3. Univs(r) = << >>
  BY <1>2 DEF Univs, Adding
<1>4. \A i \in DOMAIN Univs(r)' : Univs(r)'[i].id = 0
  <2>1. CASE Univs(r)' = << >>
    BY <2>1
  <2>2. CASE Univs(r)' # << >>
    <3>1. route \in Adding /\ frame'[r].pc # "none" /\ Univs(r)' = frame'[r].univ
      BY <1>1, <2>2 DEF Univs
    <3>2. frame'[r] = f
      BY <1>1, <3>1 DEF NoFrame
    <3> QED
      BY <3>1, <3>2
  <2> QED
    BY <2>1, <2>2
<1>5. TablesGrow(r) /\ StrategyTables'
  BY TablesRest
<1>6. DOMAIN universal' = DOMAIN universal /\ pushed' = pushed /\ Codes' = Codes
  BY DEF strategyVars, Codes
<1>7. NumbersKept(r)
  BY <1>1, <1>2, <1>6 DEF NumbersKept, Making
<1>8. IdsKept(r)
  BY <1>3, <1>4, <1>6 DEF IdsKept
<1> QED
  BY <1>1, <1>5, <1>7, <1>8, AdvanceKeeps DEF Advances

LEMMA CreateKeeps ==
  ASSUME StrategyInv, NEW r \in Requests, NEW token \in Emails \union {None},
         NEW tags \in TagLists, Create(r, token, tags)
  PROVE  StrategyInv'
<1> DEFINE f == [pc |-> "row", parts |-> [i \in DOMAIN tags |-> TagPart(tags[i])]]
<1>1. Arrive(r, "create", token, {"Any"}, 0, f) /\ UNCHANGED strategyVars
  BY DEF Create
<1>2. /\ call'[r].route = "create" /\ call'[r].on = 0
      /\ call'[r].user = MemberOf(token)
      /\ call'[r].status = IF CanActivate(MemberOf(token), {"Any"})
                             THEN Open ELSE "forbidden"
      /\ frame'[r] = IF CanActivate(MemberOf(token), {"Any"}) THEN f ELSE NoFrame
  BY <1>1, Arrives DEF StrategyInv
<1>3. tags \in Seq(Tags)
  BY StrategyAssumption
<1>4. f.parts \in Seq(TagParts) /\ DOMAIN f.parts = DOMAIN tags
  <2>1. PICK n \in Nat : DOMAIN tags = 1 .. n
    BY <1>3
  <2>2. \A i \in DOMAIN tags : TagPart(tags[i]) \in TagParts
    BY <1>3 DEF TagPart, TagParts
  <2> QED
    BY <2>1, <2>2
<1>5. f \in CreateFrames /\ f.pc = "row"
  BY <1>4 DEF CreateFrames
<1>6. \A i \in DOMAIN f.parts : f.parts[i].pc = "find"
  BY DEF TagPart
<1>7. <<0, 0>> # <<0, 1>> /\ 0 \notin Codes' /\ hashList' \subseteq (DOMAIN hash') \X Codes'
  BY <1>1, TablesRest DEF StrategyTables, Codes
<1>8. CreateOK(r)'
  <2>1. CASE CanActivate(MemberOf(token), {"Any"})
    <3>1. frame'[r] = f /\ call'[r].user \in Emails
      BY <1>2, <2>1, MemberKnown
    <3>2. \A i \in DOMAIN f.parts : TagOK(r, i)'
      BY <1>6, <3>1 DEF TagOK
    <3>3. \A h \in DOMAIN hash' : <<h, 0>> \notin hashList'
      BY <1>7
    <3> HIDE DEF f
    <3> QED
      BY <1>2, <1>5, <1>6, <3>1, <3>2, <3>3 DEF CreateOK
  <2>2. CASE ~CanActivate(MemberOf(token), {"Any"})
    BY <1>2, <2>2 DEF CreateOK, Refused, Open
  <2> QED
    BY <2>1, <2>2
<1>9. RequestOK(r)'
  <2>1. frame'[r].pc \in {"row", "none"} /\ call'[r].status # "ok"
    BY <1>2 DEF NoFrame, Open
  <2>2. Univs(r)' = << >>
    BY <1>2 DEF Univs, Adding
  <2> QED
    BY <1>2, <1>8, <2>1, <2>2
    DEF RequestOK, NumberOK, UnivOK, AddOK, ForkOK, Making
<1> HIDE DEF f
<1> QED
  BY <1>1, <1>5, <1>9, ArrivalKeeps DEF Making, Adding

LEMMA AddKeeps ==
  ASSUME StrategyInv, NEW r \in Requests, NEW token \in Emails \union {None},
         NEW c \in Codes, NEW t \in Tickers, NEW s \in Settings,
         Add(r, token, c, t, s)
  PROVE  StrategyInv'
<1> DEFINE p == UniversalPart(t, s)
           f == [pc |-> "universals", univ |-> <<p>>]
<1>1. Arrive(r, "add", token, {"Any"}, c, f) /\ UNCHANGED strategyVars
  BY DEF Add
<1>2. /\ call'[r].route = "add" /\ call'[r].on = c
      /\ call'[r].status = IF CanActivate(MemberOf(token), {"Any"})
                             THEN Open ELSE "forbidden"
      /\ frame'[r] = IF CanActivate(MemberOf(token), {"Any"}) THEN f ELSE NoFrame
  BY <1>1, Arrives DEF StrategyInv
<1>3. /\ p \in UnivParts /\ p.pc = "mine" /\ p.id = 0 /\ p.setting \in Settings
  BY DEF UniversalPart, UnivParts
<1> HIDE DEF p
<1>4. f \in AddFrames /\ f.pc = "universals" /\ f.univ = <<p>>
  BY <1>3 DEF AddFrames
<1>5. \A i \in DOMAIN f.univ : f.univ[i] = p
  BY <1>4
<1> HIDE DEF f
<1>6. Codes' = Codes
  BY <1>1 DEF strategyVars, Codes
<1>7. AddOK(r)'
  BY <1>2, <1>3, <1>4, <1>5, <1>6 DEF AddOK, Refused, Open
<1>8. UnivOK(r)'
  <2>1. Univs(r)' = << >> \/ Univs(r)' = f.univ
    BY <1>2 DEF Univs, NoFrame
  <2> QED
    BY <1>3, <1>5, <2>1 DEF UnivOK
<1>9. RequestOK(r)'
  BY <1>2, <1>7, <1>8 DEF RequestOK, NumberOK, CreateOK, ForkOK, Making
<1> QED
  BY <1>1, <1>3, <1>4, <1>5, <1>9, ArrivalKeeps DEF Making

LEMMA ForkKeeps ==
  ASSUME StrategyInv, NEW r \in Requests, NEW token \in Emails \union {None},
         NEW c \in Codes, Fork(r, token, c)
  PROVE  StrategyInv'
<1> DEFINE f == [pc |-> "source", source |-> c, univ |-> << >>, tags |-> {},
                 paired |-> {}, info |-> FALSE, maker |-> None]
<1>1. Arrive(r, "fork", token, {"Any"}, 0, f) /\ UNCHANGED strategyVars
  BY DEF Fork
<1>2. /\ call'[r].route = "fork" /\ call'[r].on = 0
      /\ call'[r].user = MemberOf(token)
      /\ call'[r].status = IF CanActivate(MemberOf(token), {"Any"})
                             THEN Open ELSE "forbidden"
      /\ frame'[r] = IF CanActivate(MemberOf(token), {"Any"}) THEN f ELSE NoFrame
  BY <1>1, Arrives DEF StrategyInv
<1>3. /\ f.pc = "source" /\ f.univ = << >> /\ f.tags = {} /\ f.paired = {}
      /\ f \in ForkFrames
  <2>1. c \in Nat
    BY DEF StrategyInv, StrategyTables, Codes
  <2>2. << >> \in Seq(UnivParts)
    OBVIOUS
  <2> QED
    BY <2>1, <2>2 DEF ForkFrames
<1> HIDE DEF f
<1>4. ForkOK(r)'
  <2>1. CASE CanActivate(MemberOf(token), {"Any"})
    BY <1>2, <1>3, <2>1, MemberKnown DEF ForkOK
  <2>2. CASE ~CanActivate(MemberOf(token), {"Any"})
    BY <1>2, <2>2 DEF ForkOK, Refused, Open
  <2> QED
    BY <2>1, <2>2
<1>5. Univs(r)' = << >>
  BY <1>2, <1>3 DEF Univs, NoFrame
<1>6. frame'[r].pc \in {"source", "none"} /\ call'[r].status # "ok"
  BY <1>2, <1>3 DEF NoFrame, Open
<1>7. RequestOK(r)'
  BY <1>2, <1>4, <1>5, <1>6 DEF RequestOK, NumberOK, CreateOK, UnivOK, AddOK, Making
<1> QED
  BY <1>1, <1>3, <1>7, ArrivalKeeps DEF Making, Adding

-----------------------------------------------------------------------------
(* What a step sets                                                          *)

LEMMA GoesTo ==
  ASSUME Shape, NEW r \in Requests, NEW pc, Go(r, pc)
  PROVE  Framed(r) /\ frame'[r] = [frame[r] EXCEPT !.pc = pc]
<1>1. frame' = [frame EXCEPT ![r] = [frame[r] EXCEPT !.pc = pc]]
  BY Zenon DEF Go
<1> QED
  BY <1>1, FrameSet, Zenon

LEMMA CreateFrameGoes ==
  ASSUME NEW f \in CreateFrames, NEW pc \in {"row", "info", "tags", "done", "failed"}
  PROVE  /\ [f EXCEPT !.pc = pc] \in CreateFrames
         /\ [f EXCEPT !.pc = pc].pc = pc
         /\ [f EXCEPT !.pc = pc].parts = f.parts
BY DEF CreateFrames

LEMMA CreateGoes ==
  ASSUME Shape, NEW r \in Requests, frame[r] \in CreateFrames,
         NEW pc \in {"row", "info", "tags", "done", "failed"}, Go(r, pc)
  PROVE  /\ Framed(r) /\ frame'[r] \in CreateFrames
         /\ frame'[r].pc = pc /\ frame'[r].parts = frame[r].parts
<1>1. Framed(r) /\ frame'[r] = [frame[r] EXCEPT !.pc = pc]
  BY GoesTo
<1>2. PICK f \in CreateFrames : f = frame[r]
  OBVIOUS
<1>3. PICK g : g = [f EXCEPT !.pc = pc]
  OBVIOUS
<1>4. g \in CreateFrames /\ g.pc = pc /\ g.parts = f.parts
  BY <1>3, CreateFrameGoes
<1>5. frame'[r] = g
  BY <1>1, <1>2, <1>3, Zenon
<1> QED
  BY <1>1, <1>2, <1>4, <1>5, Zenon

LEMMA PartTyped ==
  ASSUME NEW f \in CreateFrames, NEW i \in DOMAIN f.parts
  PROVE  f.parts[i] \in TagParts /\ f.parts[i].tag \in Tags /\ f.parts[i].hash \in Nat
<1>1. f.parts \in Seq(TagParts)
  BY DEF CreateFrames
<1>2. f.parts[i] \in TagParts
  BY <1>1
<1> QED
  BY <1>2 DEF TagParts

LEMMA AddFrameGoes ==
  ASSUME NEW f \in AddFrames, NEW pc \in {"universals", "done"}
  PROVE  /\ [f EXCEPT !.pc = pc] \in AddFrames
         /\ [f EXCEPT !.pc = pc].pc = pc
         /\ [f EXCEPT !.pc = pc].univ = f.univ
BY DEF AddFrames

(* A request gets the number of the row it made.                             *)
LEMMA OnSet ==
  ASSUME Shape, NEW r \in Requests, NEW n, call' = [call EXCEPT ![r].on = n]
  PROVE  /\ Shaped
         /\ \A q \in Requests \ {r} : call'[q] = call[q]
         /\ call'[r].on = n /\ call'[r].route = call[r].route
         /\ call'[r].user = call[r].user /\ call'[r].status = call[r].status
<1>1. PICK a, u, o, t : call[r] = [route |-> a, user |-> u, on |-> o, status |-> t]
  BY DEF Shape
<1> DEFINE c == [route |-> a, user |-> u, on |-> n, status |-> t]
<1>2. [call[r] EXCEPT !.on = n] = c
  BY <1>1
<1>3. call' = [call EXCEPT ![r] = c]
  BY <1>2, Zenon
<1>4. \E b, v, p, s : c = [route |-> b, user |-> v, on |-> p, status |-> s]
  BY Zenon
<1>5. /\ c.route = call[r].route /\ c.user = call[r].user
      /\ c.status = call[r].status /\ c.on = n
  BY <1>1
<1> HIDE DEF c
<1>6. /\ Shaped
      /\ \A q \in Requests \ {r} : call'[q] = call[q]
      /\ call'[r] = c
  BY <1>3, <1>4, Becomes
<1> QED
  BY <1>5, <1>6, Zenon

(* A request is answered, or not.                                            *)
Called(r) ==
  /\ Shaped
  /\ \A q \in Requests \ {r} : call'[q] = call[q]
  /\ call'[r].route = call[r].route /\ call'[r].on = call[r].on
  /\ call'[r].user = call[r].user

LEMMA StatusCalled ==
  ASSUME Shape, NEW r \in Requests, NEW s, call' = [call EXCEPT ![r].status = s]
  PROVE  Called(r) /\ call'[r].status = s
BY StatusSet DEF Called, Shaped

LEMMA ErrorsAreErrors ==
  ASSUME NEW error \in {"EntityNotFoundError", "PasswordWrongError",
                        "AlreadyExistError", "QueryFailedError", "TypeError"}
  PROVE  StatusOf[error] \notin {"ok", Open, "unused"}
<1>1. /\ StatusOf["EntityNotFoundError"] \notin {"ok", Open, "unused"}
      /\ StatusOf["PasswordWrongError"] \notin {"ok", Open, "unused"}
      /\ StatusOf["AlreadyExistError"] \notin {"ok", Open, "unused"}
      /\ StatusOf["QueryFailedError"] \notin {"ok", Open, "unused"}
      /\ StatusOf["TypeError"] \notin {"ok", Open, "unused"}
  BY DEF StatusOf, Open
<1> QED
  BY <1>1

LEMMA ThrowCalled ==
  ASSUME Shape, NEW r \in Requests,
         NEW error \in {"EntityNotFoundError", "PasswordWrongError",
                        "AlreadyExistError", "QueryFailedError", "TypeError"},
         Throw(r, error)
  PROVE  Called(r) /\ call'[r].status \notin {"ok", Open, "unused"}
<1>1. call' = [call EXCEPT ![r].status = StatusOf[error]]
  BY Zenon DEF Throw
<1> QED
  BY <1>1, StatusCalled, ErrorsAreErrors

LEMMA OkCalled ==
  ASSUME Shape, NEW r \in Requests, AnswerOk(r)
  PROVE  Called(r) /\ call'[r].status = "ok"
BY StatusCalled DEF AnswerOk

LEMMA SameCalled ==
  ASSUME Shape, NEW r \in Requests, call' = call
  PROVE  Called(r) /\ call'[r] = call[r]
BY Still DEF Called

LEMMA RejectCalled ==
  ASSUME Shape, NEW r \in Requests,
         NEW error \in {"EntityNotFoundError", "PasswordWrongError",
                        "AlreadyExistError", "QueryFailedError", "TypeError"},
         Reject(r, error)
  PROVE  /\ Called(r)
         /\ call'[r] = call[r] \/ call'[r].status \notin {"ok", Open, "unused"}
BY ThrowCalled, SameCalled DEF Reject

(* A part of createMyStrategy moves on.                                      *)
LEMMA PartMoved ==
  ASSUME Shape, NEW r \in Requests, frame[r] \in CreateFrames,
         NEW i \in DOMAIN frame[r].parts,
         NEW pc \in {"find", "insert", "tagged", "pair", "paired", "failed", "lost"},
         NEW h \in Nat, SetPart(r, i, pc, h)
  PROVE  /\ Framed(r) /\ frame'[r] \in CreateFrames
         /\ frame'[r].pc = frame[r].pc
         /\ DOMAIN frame'[r].parts = DOMAIN frame[r].parts
         /\ \A j \in DOMAIN frame[r].parts \ {i} :
              frame'[r].parts[j] = frame[r].parts[j]
         /\ frame'[r].parts[i].pc = pc /\ frame'[r].parts[i].hash = h
         /\ frame'[r].parts[i].tag = frame[r].parts[i].tag
<1>1. PICK f \in CreateFrames : f = frame[r]
  OBVIOUS
<1>2. PICK q \in Seq(TagParts) : q = f.parts
  BY DEF CreateFrames
<1>3. q[i] \in TagParts /\ i \in DOMAIN q
  BY <1>1, <1>2
<1> DEFINE p == [pc |-> pc, tag |-> q[i].tag, hash |-> h]
           half == [frame EXCEPT ![r].parts[i].pc = pc]
           mid  == [f EXCEPT !.parts = [q EXCEPT ![i] = [q[i] EXCEPT !.pc = pc]]]
<1>4. half = [frame EXCEPT ![r] = mid]
  BY <1>1, <1>2, Zenon
<1>5. half[r] = mid /\ half = [x \in Requests |-> half[x]]
  BY <1>4 DEF Shape
<1>6. mid.parts = [q EXCEPT ![i] = [q[i] EXCEPT !.pc = pc]]
  BY DEF CreateFrames
<1>7. mid.parts[i] = [q[i] EXCEPT !.pc = pc]
  BY <1>3, <1>6
<1>8. frame' = [half EXCEPT ![r].parts[i].hash = h]
  BY Zenon DEF SetPart
<1> HIDE DEF half, mid
<1>9. frame' = [half EXCEPT ![r] = [mid EXCEPT !.parts =
                  [mid.parts EXCEPT ![i] = [mid.parts[i] EXCEPT !.hash = h]]]]
  BY <1>5, <1>8, Zenon
<1>10. [[q[i] EXCEPT !.pc = pc] EXCEPT !.hash = h] = p
  <2>1. PICK a, t, b : q[i] = [pc |-> a, tag |-> t, hash |-> b]
    BY <1>3 DEF TagParts
  <2>2. [q[i] EXCEPT !.pc = pc] = [pc |-> pc, tag |-> t, hash |-> b] /\ q[i].tag = t
    BY <2>1
  <2>3. [[pc |-> pc, tag |-> t, hash |-> b] EXCEPT !.hash = h]
          = [pc |-> pc, tag |-> t, hash |-> h]
    OBVIOUS
  <2> QED
    BY <2>2, <2>3, Zenon
<1>11. [mid.parts EXCEPT ![i] = [mid.parts[i] EXCEPT !.hash = h]]
         = [q EXCEPT ![i] = p]
  <2>1. [mid.parts EXCEPT ![i] = [mid.parts[i] EXCEPT !.hash = h]]
          = [mid.parts EXCEPT ![i] = p]
    BY <1>7, <1>10, Zenon
  <2> HIDE DEF p
  <2>2. [[q EXCEPT ![i] = [q[i] EXCEPT !.pc = pc]] EXCEPT ![i] = p] = [q EXCEPT ![i] = p]
    BY <1>3
  <2> QED
    BY <1>6, <2>1, <2>2, Zenon
<1> DEFINE new == [f EXCEPT !.parts = [q EXCEPT ![i] = p]]
<1>12. [mid EXCEPT !.parts = [q EXCEPT ![i] = p]] = new
  <2> HIDE DEF p
  <2> QED
    BY DEF CreateFrames, mid
<1>13. frame' = [half EXCEPT ![r] = new]
  BY <1>9, <1>11, <1>12, Zenon
<1>14. frame'[r] = new
  BY <1>5, <1>13, Zenon
<1>15. p \in TagParts
  BY <1>3 DEF TagParts
<1> HIDE DEF p
<1>16. [q EXCEPT ![i] = p] \in Seq(TagParts)
  BY <1>3, <1>15
<1>17. new \in CreateFrames /\ new.pc = f.pc /\ new.parts = [q EXCEPT ![i] = p]
  BY <1>16 DEF CreateFrames
<1>18. Framed(r)
  BY PartSet
<1> HIDE DEF new
<1>19. /\ frame'[r] \in CreateFrames /\ frame'[r].pc = frame[r].pc
       /\ frame'[r].parts = [q EXCEPT ![i] = p] /\ frame[r].parts = q
  BY <1>1, <1>2, <1>14, <1>17
<1>20. /\ DOMAIN frame'[r].parts = DOMAIN frame[r].parts
       /\ \A j \in DOMAIN frame[r].parts \ {i} :
            frame'[r].parts[j] = frame[r].parts[j]
       /\ frame'[r].parts[i] = p
  BY <1>3, <1>19
<1>21. p.pc = pc /\ p.hash = h /\ p.tag = frame[r].parts[i].tag
  BY <1>19 DEF p
<1> QED
  BY <1>18, <1>19, <1>20, <1>21

(* A part of addUniversal moves on, by itself or in a fork.                  *)
LEMMA UnivMoved ==
  ASSUME Shape, NEW r \in Requests,
         frame[r] \in AddFrames \/ frame[r] \in ForkFrames,
         NEW i \in DOMAIN frame[r].univ,
         NEW pc \in {"mine", "insert", "again", "fill", "filled", "failed"},
         NEW n \in Nat, SetUniv(r, i, pc, n)
  PROVE  /\ Framed(r)
         /\ frame[r] \in AddFrames => frame'[r] \in AddFrames
         /\ frame[r] \in ForkFrames =>
              /\ frame'[r] \in ForkFrames /\ frame'[r].tags = frame[r].tags
              /\ frame'[r].paired = frame[r].paired
              /\ frame'[r].maker = frame[r].maker
         /\ frame'[r].pc = frame[r].pc
         /\ DOMAIN frame'[r].univ = DOMAIN frame[r].univ
         /\ \A j \in DOMAIN frame[r].univ \ {i} :
              frame'[r].univ[j] = frame[r].univ[j]
         /\ frame'[r].univ[i].pc = pc /\ frame'[r].univ[i].id = n
         /\ frame'[r].univ[i].ticker = frame[r].univ[i].ticker
         /\ frame'[r].univ[i].setting = frame[r].univ[i].setting
<1>1. PICK f : f = frame[r] /\ (f \in AddFrames \/ f \in ForkFrames)
  OBVIOUS
<1>2. PICK q \in Seq(UnivParts) : q = f.univ
  BY <1>1 DEF AddFrames, ForkFrames
<1>3. q[i] \in UnivParts /\ i \in DOMAIN q
  BY <1>1, <1>2
<1> DEFINE p == [pc |-> pc, ticker |-> q[i].ticker, setting |-> q[i].setting,
                 id |-> n]
           half == [frame EXCEPT ![r].univ[i].pc = pc]
           mid  == [f EXCEPT !.univ = [q EXCEPT ![i] = [q[i] EXCEPT !.pc = pc]]]
<1>4. half = [frame EXCEPT ![r] = mid]
  BY <1>1, <1>2, Zenon
<1>5. half[r] = mid /\ half = [x \in Requests |-> half[x]]
  BY <1>4 DEF Shape
<1>6. mid.univ = [q EXCEPT ![i] = [q[i] EXCEPT !.pc = pc]]
  BY <1>1 DEF AddFrames, ForkFrames
<1>7. mid.univ[i] = [q[i] EXCEPT !.pc = pc]
  BY <1>3, <1>6
<1>8. frame' = [half EXCEPT ![r].univ[i].id = n]
  BY Zenon DEF SetUniv
<1> HIDE DEF half, mid
<1>9. frame' = [half EXCEPT ![r] = [mid EXCEPT !.univ =
                  [mid.univ EXCEPT ![i] = [mid.univ[i] EXCEPT !.id = n]]]]
  BY <1>5, <1>8, Zenon
<1>10. [[q[i] EXCEPT !.pc = pc] EXCEPT !.id = n] = p
  <2>1. PICK a, t, s, b : q[i] = [pc |-> a, ticker |-> t, setting |-> s, id |-> b]
    BY <1>3 DEF UnivParts
  <2>2. /\ [q[i] EXCEPT !.pc = pc] = [pc |-> pc, ticker |-> t, setting |-> s, id |-> b]
        /\ q[i].ticker = t /\ q[i].setting = s
    BY <2>1
  <2>3. [[pc |-> pc, ticker |-> t, setting |-> s, id |-> b] EXCEPT !.id = n]
          = [pc |-> pc, ticker |-> t, setting |-> s, id |-> n]
    OBVIOUS
  <2> QED
    BY <2>2, <2>3, Zenon
<1>11. [mid.univ EXCEPT ![i] = [mid.univ[i] EXCEPT !.id = n]]
         = [q EXCEPT ![i] = p]
  <2>1. [mid.univ EXCEPT ![i] = [mid.univ[i] EXCEPT !.id = n]]
          = [mid.univ EXCEPT ![i] = p]
    BY <1>7, <1>10, Zenon
  <2> HIDE DEF p
  <2>2. [[q EXCEPT ![i] = [q[i] EXCEPT !.pc = pc]] EXCEPT ![i] = p] = [q EXCEPT ![i] = p]
    BY <1>3
  <2> QED
    BY <1>6, <2>1, <2>2, Zenon
<1> DEFINE new == [f EXCEPT !.univ = [q EXCEPT ![i] = p]]
<1>12. [mid EXCEPT !.univ = [q EXCEPT ![i] = p]] = new
  <2> HIDE DEF p
  <2> QED
    BY <1>1 DEF AddFrames, ForkFrames, mid
<1>13. frame' = [half EXCEPT ![r] = new]
  BY <1>9, <1>11, <1>12, Zenon
<1>14. frame'[r] = new
  BY <1>5, <1>13, Zenon
<1>15. p \in UnivParts
  <2>1. q[i].ticker \in Tickers /\ q[i].setting \in Settings \union {None}
    BY <1>3 DEF UnivParts
  <2> QED
    BY <2>1 DEF UnivParts
<1> HIDE DEF p
<1>16. [q EXCEPT ![i] = p] \in Seq(UnivParts)
  BY <1>3, <1>15
<1>17. /\ f \in AddFrames => new \in AddFrames
       /\ f \in ForkFrames => /\ new \in ForkFrames /\ new.tags = f.tags
                              /\ new.paired = f.paired /\ new.maker = f.maker
       /\ new.pc = f.pc /\ new.univ = [q EXCEPT ![i] = p]
  <2>1. CASE f \in AddFrames
    BY <1>16, <2>1 DEF AddFrames, ForkFrames
  <2>2. CASE f \in ForkFrames
    BY <1>16, <2>2 DEF AddFrames, ForkFrames
  <2> QED
    BY <1>1, <2>1, <2>2
<1>18. Framed(r)
  BY UnivSet
<1> HIDE DEF new
<1>19. /\ frame[r] \in AddFrames => frame'[r] \in AddFrames
       /\ frame[r] \in ForkFrames =>
            /\ frame'[r] \in ForkFrames /\ frame'[r].tags = frame[r].tags
            /\ frame'[r].paired = frame[r].paired
            /\ frame'[r].maker = frame[r].maker
       /\ frame'[r].pc = frame[r].pc
       /\ frame'[r].univ = [q EXCEPT ![i] = p] /\ frame[r].univ = q
  BY <1>1, <1>2, <1>14, <1>17
<1>20. /\ DOMAIN frame'[r].univ = DOMAIN frame[r].univ
       /\ \A j \in DOMAIN frame[r].univ \ {i} :
            frame'[r].univ[j] = frame[r].univ[j]
       /\ frame'[r].univ[i] = p
  BY <1>3, <1>19
<1>21. /\ p.pc = pc /\ p.id = n /\ p.ticker = frame[r].univ[i].ticker
       /\ p.setting = frame[r].univ[i].setting
  BY <1>19 DEF p
<1> QED
  BY <1>18, <1>19, <1>20, <1>21

-----------------------------------------------------------------------------
(* What a request is known to be                                             *)

LEMMA Numbers ==
  ASSUME StrategyInv
  PROVE  /\ Codes = 1 .. Len(strategy) /\ Len(strategy) \in Nat
         /\ 0 \notin Codes /\ Codes \subseteq Nat
         /\ hashList \subseteq (DOMAIN hash) \X Codes
         /\ DOMAIN hash \subseteq Nat /\ DOMAIN universal \subseteq Nat
BY DEF StrategyInv, StrategyTables, Codes

LEMMA Creating ==
  ASSUME StrategyInv, NEW r \in Requests, call[r].route = "create",
         frame[r].pc # "none"
  PROVE  /\ NumberOK(r)
         /\ call[r].user \in Emails /\ frame[r] \in CreateFrames
         /\ frame[r].pc \in {"row", "info"} =>
              \A i \in DOMAIN frame[r].parts : frame[r].parts[i].pc = "find"
         /\ frame[r].pc = "done" => AllPaired(r)
         /\ \A i \in DOMAIN frame[r].parts : TagOK(r, i)
         /\ \A h \in DOMAIN hash : <<h, call[r].on>> \in hashList =>
              \E i \in Part(r, "paired") : frame[r].parts[i].hash = h
         /\ Univs(r) = << >>
<1>1. RequestOK(r)
  BY DEF StrategyInv
<1>2. ~Refused(r)
  BY DEF Refused, NoFrame
<1>3. Univs(r) = << >>
  BY DEF Univs, Adding
<1> QED
  BY <1>1, <1>2, <1>3 DEF RequestOK, CreateOK

LEMMA Forking ==
  ASSUME StrategyInv, NEW r \in Requests, call[r].route = "fork",
         frame[r].pc # "none"
  PROVE  /\ NumberOK(r) /\ UnivOK(r)
         /\ call[r].user \in Emails /\ frame[r] \in ForkFrames
         /\ frame[r].paired \subseteq frame[r].tags
         /\ frame[r].tags \subseteq DOMAIN hash
         /\ frame[r].pc \in {"row", "info"} => frame[r].maker \in Emails
         /\ frame[r].pc \in {"source", "row", "info"} =>
              /\ frame[r].paired = {}
              /\ \A i \in DOMAIN frame[r].univ : frame[r].univ[i].id = 0
         /\ call[r].on # 0 =>
              /\ strategy[call[r].on].maker = frame[r].maker
              /\ \A h \in DOMAIN hash :
                   <<h, call[r].on>> \in hashList <=> h \in frame[r].paired
         /\ frame[r].pc = "done" => AllFilled(r) /\ frame[r].tags = frame[r].paired
         /\ Univs(r) = frame[r].univ
<1>1. RequestOK(r)
  BY DEF StrategyInv
<1>2. ~Refused(r)
  BY DEF Refused, NoFrame
<1>3. Univs(r) = frame[r].univ
  BY DEF Univs, Adding
<1> QED
  BY <1>1, <1>2, <1>3 DEF RequestOK, ForkOK

LEMMA AddingOne ==
  ASSUME StrategyInv, NEW r \in Requests, call[r].route = "add",
         frame[r].pc # "none"
  PROVE  /\ UnivOK(r) /\ call[r].on \in Codes /\ frame[r] \in AddFrames
         /\ \A i \in DOMAIN frame[r].univ : frame[r].univ[i].setting \in Settings
         /\ call[r].status = "ok" => AllFilled(r)
         /\ Univs(r) = frame[r].univ
<1>1. RequestOK(r)
  BY DEF StrategyInv
<1>2. ~Refused(r)
  BY DEF Refused, NoFrame
<1>3. Univs(r) = frame[r].univ
  BY DEF Univs, Adding
<1> QED
  BY <1>1, <1>2, <1>3 DEF RequestOK, AddOK

(* A step that makes no row and gives no number.                             *)
SameIds(r) ==
  \/ /\ DOMAIN Univs(r)' = DOMAIN Univs(r)
     /\ \A i \in DOMAIN Univs(r) : Univs(r)'[i].id = Univs(r)[i].id
  \/ /\ \A i \in DOMAIN Univs(r) : Univs(r)[i].id = 0
     /\ \A i \in DOMAIN Univs(r)' : Univs(r)'[i].id = 0

LEMMA StepKeeps ==
  ASSUME StrategyInv, NEW r \in Requests, Called(r), Framed(r), TablesGrow(r),
         StrategyTables', Codes' = Codes, pushed' = pushed,
         DOMAIN universal' = DOMAIN universal, SameIds(r),
         call[r].status = "ok" => call'[r] = call[r], RequestOK(r)'
  PROVE  StrategyInv'
<1>1. OthersStay(r)
  BY DEF Called, OthersStay
<1>2. NumbersKept(r)
  BY DEF NumbersKept, Called
<1>3. IdsKept(r)
  <2>1. \A i, j \in DOMAIN Univs(r) :
          Univs(r)[i].id # 0 /\ Univs(r)[i].id = Univs(r)[j].id => i = j
    BY DEF StrategyInv, IdsApart
  <2> QED
    BY <2>1 DEF IdsKept, SameIds
<1> QED
  BY <1>1, <1>2, <1>3, AdvanceKeeps DEF Advances

LEMMA RestKeeps ==
  ASSUME StrategyInv, NEW r \in Requests, Called(r), Framed(r),
         UNCHANGED strategyVars, SameIds(r),
         call[r].status = "ok" => call'[r] = call[r], RequestOK(r)'
  PROVE  StrategyInv'
<1>1. /\ Codes' = Codes /\ pushed' = pushed
      /\ DOMAIN universal' = DOMAIN universal
  BY DEF strategyVars, Codes
<1> QED
  BY <1>1, TablesRest, StepKeeps

(* What is left to show of a request to make a strategy.                     *)
LEMMA CreateRequest ==
  ASSUME NEW r \in Requests, call[r].route = "create", call'[r].route = "create",
         NumberOK(r)', CreateOK(r)'
  PROVE  RequestOK(r)' /\ SameIds(r)
<1>1. Univs(r)' = << >> /\ Univs(r) = << >>
  BY DEF Univs, Adding
<1> QED
  BY <1>1 DEF RequestOK, UnivOK, AddOK, ForkOK, SameIds

LEMMA PartKeeps ==
  ASSUME StrategyInv, NEW r \in Requests, InTags(r),
         NEW i \in DOMAIN frame[r].parts, frame[r].parts[i].pc # "paired",
         NEW pc \in {"find", "insert", "tagged", "pair", "paired", "failed", "lost"},
         NEW h \in Nat, SetPart(r, i, pc, h), Called(r),
         call'[r] = call[r] \/ call'[r].status # "ok",
         UNCHANGED <<strategy, invest, universal, pushed>>, StrategyTables',
         \A g \in DOMAIN hash : g \in DOMAIN hash' /\ hash'[g] = hash[g],
         \/ hashList' = hashList
         \/ pc = "paired" /\ hashList' = hashList \union {<<h, call[r].on>>},
         pc \in {"tagged", "pair", "paired"} =>
           h \in DOMAIN hash' /\ hash'[h] = frame[r].parts[i].tag,
         pc = "paired" => <<h, call[r].on>> \in hashList'
  PROVE  StrategyInv'
<1>1. call[r].route = "create" /\ frame[r].pc = "tags" /\ Shape
  BY DEF InTags, StrategyInv
<1>2. /\ NumberOK(r) /\ call[r].user \in Emails /\ frame[r] \in CreateFrames
      /\ \A j \in DOMAIN frame[r].parts : TagOK(r, j)
      /\ \A g \in DOMAIN hash : <<g, call[r].on>> \in hashList =>
           \E j \in Part(r, "paired") : frame[r].parts[j].hash = g
  BY <1>1, Creating
<1>3. /\ Framed(r) /\ frame'[r] \in CreateFrames /\ frame'[r].pc = "tags"
      /\ DOMAIN frame'[r].parts = DOMAIN frame[r].parts
      /\ \A j \in DOMAIN frame[r].parts \ {i} :
           frame'[r].parts[j] = frame[r].parts[j]
      /\ frame'[r].parts[i].pc = pc /\ frame'[r].parts[i].hash = h
      /\ frame'[r].parts[i].tag = frame[r].parts[i].tag
  BY <1>1, <1>2, PartMoved
<1>4. /\ call'[r].route = "create" /\ call'[r].on = call[r].on
      /\ call'[r].user = call[r].user
  BY <1>1 DEF Called
<1>5. /\ call[r].on \in Codes \ {1} /\ call[r].on # 0 /\ call[r].on \in invest
      /\ call[r].status # "ok"
  BY <1>1, <1>2 DEF NumberOK, Making
<1>6. Codes' = Codes
  BY DEF Codes
<1>7. NumberOK(r)'
  BY <1>3, <1>4, <1>5, <1>6 DEF NumberOK
<1>8. \A j \in DOMAIN frame'[r].parts : TagOK(r, j)'
  <2> TAKE j \in DOMAIN frame'[r].parts
  <2>1. CASE j = i
    BY <1>3, <1>4, <2>1 DEF TagOK
  <2>2. CASE j # i
    <3>1. frame'[r].parts[j] = frame[r].parts[j] /\ TagOK(r, j)
      BY <1>2, <1>3, <2>2
    <3>2. hashList \subseteq hashList'
      OBVIOUS
    <3> QED
      BY <1>4, <3>1, <3>2 DEF TagOK
  <2> QED
    BY <2>1, <2>2
<1>9. ASSUME NEW g \in DOMAIN hash', <<g, call'[r].on>> \in hashList'
      PROVE  \E j \in Part(r, "paired")' : frame'[r].parts[j].hash = g
  <2>1. CASE <<g, call[r].on>> \in hashList
    <3>1. g \in DOMAIN hash
      BY <2>1, Numbers
    <3>2. PICK j \in Part(r, "paired") : frame[r].parts[j].hash = g
      BY <1>2, <2>1, <3>1
    <3>3. j \in DOMAIN frame[r].parts \ {i} /\ frame[r].parts[j].pc = "paired"
      BY <3>2 DEF Part
    <3> QED
      BY <1>3, <3>2, <3>3 DEF Part
  <2>2. CASE <<g, call[r].on>> \notin hashList
    <3>1. pc = "paired" /\ g = h
      BY <1>4, <1>9, <2>2
    <3> QED
      BY <1>3, <3>1 DEF Part
  <2> QED
    BY <2>1, <2>2
<1>10. CreateOK(r)'
  <2>1. frame'[r].pc \notin {"row", "info", "done"}
    BY <1>3
  <2> QED
    BY <1>2, <1>3, <1>4, <1>8, <1>9, <2>1 DEF CreateOK
<1>11. RequestOK(r)' /\ SameIds(r)
  BY <1>1, <1>4, <1>7, <1>10, CreateRequest
<1>12. TablesGrow(r)
  <2>1. \A p \in hashList' \ hashList : p[2] = call[r].on
    OBVIOUS
  <2> QED
    BY <1>1, <1>5, <1>6, <2>1 DEF TablesGrow, Making
<1> QED
  BY <1>3, <1>5, <1>6, <1>11, <1>12, StepKeeps

(* A part of addUniversal that has the row n after its step.                 *)
LEMMA UnivKeeps ==
  ASSUME StrategyInv, NEW r \in Requests, InUniversals(r),
         NEW i \in DOMAIN frame[r].univ, frame[r].univ[i].pc # "filled",
         NEW pc \in {"mine", "insert", "again", "fill", "filled", "failed"},
         NEW n \in Nat, SetUniv(r, i, pc, n), Called(r),
         call'[r] = call[r] \/ call'[r].status # "ok",
         UNCHANGED <<strategy, invest, hash, hashList, pushed>>, StrategyTables',
         \/ n = frame[r].univ[i].id /\ DOMAIN universal' = DOMAIN universal
         \/ /\ frame[r].univ[i].id = 0 /\ n \notin DOMAIN universal
            /\ DOMAIN universal' = DOMAIN universal \union {n},
         \A u \in DOMAIN universal :
           /\ universal'[u].code = universal[u].code
           /\ universal'[u].ticker = universal[u].ticker
           /\ u # n \/ n = 0 => universal'[u].setting = universal[u].setting,
         pc \in {"mine", "insert"} => n = 0,
         pc \in {"again", "fill", "filled"} => n # 0,
         n # 0 => /\ n \in DOMAIN universal' \ {1}
                  /\ universal'[n].code = call[r].on
                  /\ universal'[n].ticker = frame[r].univ[i].ticker
                  /\ universal'[n].setting \in {None, frame[r].univ[i].setting},
         pc = "filled" => universal'[n].setting = frame[r].univ[i].setting
  PROVE  StrategyInv'
<1>1. call[r].route \in Adding /\ frame[r].pc = "universals" /\ Shape
  BY DEF InUniversals, Adding, StrategyInv
<1>2. UnivOK(r) /\ Univs(r) = frame[r].univ
  BY <1>1, Forking, AddingOne DEF Adding
<1>3. /\ call[r].route = "add" => frame[r] \in AddFrames
      /\ call[r].route = "fork" => frame[r] \in ForkFrames
  BY <1>1, Forking, AddingOne
<1>4. /\ Framed(r)
      /\ frame[r] \in AddFrames => frame'[r] \in AddFrames
      /\ frame[r] \in ForkFrames =>
           /\ frame'[r] \in ForkFrames /\ frame'[r].tags = frame[r].tags
           /\ frame'[r].paired = frame[r].paired
           /\ frame'[r].maker = frame[r].maker
      /\ frame'[r].pc = "universals"
      /\ DOMAIN frame'[r].univ = DOMAIN frame[r].univ
      /\ \A j \in DOMAIN frame[r].univ \ {i} :
           frame'[r].univ[j] = frame[r].univ[j]
      /\ frame'[r].univ[i].pc = pc /\ frame'[r].univ[i].id = n
      /\ frame'[r].univ[i].ticker = frame[r].univ[i].ticker
      /\ frame'[r].univ[i].setting = frame[r].univ[i].setting
  BY <1>1, <1>3, UnivMoved DEF Adding
<1>5. /\ call'[r].route = call[r].route /\ call'[r].on = call[r].on
      /\ call'[r].user = call[r].user /\ Univs(r)' = frame'[r].univ
  BY <1>1, <1>4 DEF Called, Univs
<1>6. call[r].status # "ok" /\ call'[r].status # "ok"
  <2>1. CASE call[r].route = "fork"
    BY <1>1, <2>1, Forking DEF NumberOK, Making
  <2>2. CASE call[r].route = "add"
    <3>1. ~AllFilled(r)
      BY DEF AllFilled, Univ
    <3> QED
      BY <1>1, <2>2, <3>1, AddingOne
  <2> QED
    BY <1>1, <2>1, <2>2 DEF Adding
<1>7. Codes' = Codes
  BY DEF Codes
<1>8. \A j \in DOMAIN frame[r].univ \ {i} :
        LET p == frame[r].univ[j] IN
        p.id # 0 => /\ p.id # n /\ p.id \in DOMAIN universal \ {1}
                    /\ universal[p.id].code = call[r].on
                    /\ universal[p.id].ticker = p.ticker
                    /\ universal[p.id].setting \in {None, p.setting}
  <2>1. \A j \in DOMAIN frame[r].univ \ {i} :
          frame[r].univ[j].id # 0 => frame[r].univ[j].id # frame[r].univ[i].id
    BY <1>2 DEF StrategyInv, IdsApart
  <2> QED
    BY <1>2, <2>1 DEF UnivOK
<1>9. UnivOK(r)'
  <2> SUFFICES ASSUME NEW j \in DOMAIN frame'[r].univ
               PROVE  LET p == frame'[r].univ[j] IN
                      /\ p.pc \in {"mine", "insert"} => p.id = 0
                      /\ p.pc \in {"again", "fill", "filled"} => p.id # 0
                      /\ p.id # 0 => /\ p.id \in DOMAIN universal' \ {1}
                                     /\ universal'[p.id].code = call[r].on
                                     /\ universal'[p.id].ticker = p.ticker
                                     /\ universal'[p.id].setting \in {None, p.setting}
                      /\ p.pc = "filled" => universal'[p.id].setting = p.setting
    BY <1>5 DEF UnivOK
  <2>1. CASE j = i
    BY <1>4, <2>1
  <2>2. CASE j # i
    <3> DEFINE p == frame[r].univ[j]
    <3>1. frame'[r].univ[j] = p
      BY <1>4, <2>2
    <3>2. /\ p.pc \in {"mine", "insert"} => p.id = 0
          /\ p.pc \in {"again", "fill", "filled"} => p.id # 0
          /\ p.pc = "filled" => universal[p.id].setting = p.setting
      BY <1>2, <1>4 DEF UnivOK
    <3>3. p.id # 0 => /\ p.id # n /\ p.id \in DOMAIN universal \ {1}
                      /\ universal[p.id].code = call[r].on
                      /\ universal[p.id].ticker = p.ticker
                      /\ universal[p.id].setting \in {None, p.setting}
      BY <1>4, <1>8, <2>2
    <3> HIDE DEF p
    <3>4. p.id # 0 => /\ p.id \in DOMAIN universal' \ {1}
                      /\ universal'[p.id].code = universal[p.id].code
                      /\ universal'[p.id].ticker = universal[p.id].ticker
                      /\ universal'[p.id].setting = universal[p.id].setting
      BY <3>3
    <3> QED
      BY <3>1, <3>2, <3>3, <3>4
  <2> QED
    BY <2>1, <2>2
<1>10. NumberOK(r)'
  <2>1. call[r].route \in Making => NumberOK(r)
    BY <1>1, Forking DEF Making, Adding
  <2> QED
    BY <1>1, <1>4, <1>5, <1>6, <1>7, <2>1 DEF NumberOK
<1>11. AddOK(r)'
  <2>1. CASE call[r].route = "add"
    <3>1. /\ call[r].on \in Codes
          /\ \A j \in DOMAIN frame[r].univ : frame[r].univ[j].setting \in Settings
      BY <1>1, <2>1, AddingOne
    <3>2. \A j \in DOMAIN frame'[r].univ : frame'[r].univ[j].setting \in Settings
      BY <1>4, <3>1
    <3> QED
      BY <1>3, <1>4, <1>5, <1>6, <1>7, <2>1, <3>1, <3>2 DEF AddOK
  <2> QED
    BY <1>5, <2>1 DEF AddOK
<1>12. ForkOK(r)'
  <2>1. CASE call[r].route = "fork"
    <3>1. /\ call[r].user \in Emails
          /\ frame[r].paired \subseteq frame[r].tags
          /\ frame[r].tags \subseteq DOMAIN hash
          /\ call[r].on # 0 =>
               /\ strategy[call[r].on].maker = frame[r].maker
               /\ \A h \in DOMAIN hash :
                    <<h, call[r].on>> \in hashList <=> h \in frame[r].paired
      BY <1>1, <2>1, Forking
    <3>2. frame'[r].pc \notin {"source", "row", "info", "done"}
      BY <1>4
    <3>3. /\ frame'[r] \in ForkFrames /\ frame'[r].tags = frame[r].tags
          /\ frame'[r].paired = frame[r].paired
          /\ frame'[r].maker = frame[r].maker
      BY <1>3, <1>4, <2>1
    <3> QED
      BY <1>5, <2>1, <3>1, <3>2, <3>3 DEF ForkOK
  <2> QED
    BY <1>5, <2>1 DEF ForkOK
<1>13. CreateOK(r)'
  BY <1>1, <1>5 DEF CreateOK, Adding
<1>14. RequestOK(r)'
  BY <1>9, <1>10, <1>11, <1>12, <1>13 DEF RequestOK
<1>15. OthersStay(r)
  BY <1>4 DEF Called, OthersStay
<1>16. TablesGrow(r)
  <2>1. \A u \in DOMAIN universal : u = n /\ n # 0 => n = frame[r].univ[i].id
    OBVIOUS
  <2>2. \A u \in DOMAIN universal :
          /\ u \in DOMAIN universal'
          /\ \/ universal'[u].setting = universal[u].setting
             \/ \E j \in DOMAIN Univs(r) : Univs(r)[j].id = u
    BY <1>2, <2>1
  <2> QED
    BY <1>7, <2>2 DEF TablesGrow
<1>17. NumbersKept(r)
  BY <1>5, <1>6, <1>7 DEF NumbersKept
<1>18. IdsKept(r)
  <2>1. \A x, y \in DOMAIN Univs(r) :
          Univs(r)[x].id # 0 /\ Univs(r)[x].id = Univs(r)[y].id => x = y
    BY DEF StrategyInv, IdsApart
  <2>2. /\ DOMAIN Univs(r)' = DOMAIN Univs(r)
        /\ \A j \in DOMAIN Univs(r) \ {i} : Univs(r)'[j] = Univs(r)[j]
        /\ Univs(r)'[i].id = n /\ i \in DOMAIN Univs(r)
    BY <1>2, <1>4, <1>5
  <2>3. \A j \in DOMAIN Univs(r) : Univs(r)[j].id \in DOMAIN universal \union {0}
    BY <1>2 DEF UnivOK
  <2>4. \A j \in DOMAIN Univs(r) \ {i} :
          Univs(r)[j].id # 0 => Univs(r)[j].id # n
    BY <1>2, <1>8
  <2>5. \A j \in DOMAIN Univs(r) : Univs(r)[j].id # 0 => Univs(r)'[j].id = Univs(r)[j].id
    BY <1>2, <2>2
  <2>6. \A j \in DOMAIN Univs(r) : \/ Univs(r)'[j].id = Univs(r)[j].id
                                   \/ Univs(r)'[j].id \notin DOMAIN universal
    BY <1>2, <2>2
  <2>7. \A x, y \in DOMAIN Univs(r) :
          Univs(r)'[x].id # 0 /\ Univs(r)'[x].id = Univs(r)'[y].id => x = y
    BY <2>1, <2>2, <2>4
  <2>8. \A u \in DOMAIN universal' \ DOMAIN universal :
          \E j \in DOMAIN Univs(r) : Univs(r)'[j].id = u
    BY <2>2
  <2> QED
    BY <2>2, <2>5, <2>6, <2>7, <2>8 DEF IdsKept
<1> QED
  BY <1>14, <1>15, <1>16, <1>17, <1>18, AdvanceKeeps DEF Advances

-----------------------------------------------------------------------------
(* createMyStrategy                                                          *)

LEMMA RowMade ==
  ASSUME StrategyInv, NEW r \in Requests, NEW row \in Rows,
         strategy' = Append(strategy, row),
         UNCHANGED <<invest, universal, hash, hashList, pushed, shared>>
  PROVE  /\ TablesGrow(r) /\ StrategyTables'
         /\ Codes' = Codes \union {Len(strategy) + 1}
         /\ Len(strategy) + 1 \notin Codes \union {0, 1}
         /\ strategy'[Len(strategy) + 1] = row
<1>1. strategy \in Seq(Rows) /\ 1 \in Codes
  BY DEF StrategyInv, StrategyTables
<1>2. /\ Len(strategy) \in Nat /\ Codes = 1 .. Len(strategy)
      /\ Codes' = 1 .. (Len(strategy) + 1)
  BY <1>1 DEF Codes
<1>3. Len(strategy) + 1 \notin Codes \union {0, 1}
  BY <1>1, <1>2
<1>4. Codes' = Codes \union {Len(strategy) + 1}
  BY <1>2
<1>5. /\ strategy' \in Seq(Rows) /\ strategy'[Len(strategy) + 1] = row
      /\ \A c \in Codes : strategy'[c] = strategy[c]
  BY <1>1, <1>2
<1>6. TablesGrow(r)
  BY <1>4, <1>5 DEF TablesGrow
<1>7. StrategyTables'
  BY <1>1, <1>4, <1>5 DEF StrategyInv, StrategyTables
<1> QED
  BY <1>3, <1>4, <1>5, <1>6, <1>7

LEMMA MakeKeeps ==
  ASSUME StrategyInv, NEW r \in Requests, call[r].route \in Making, call[r].on = 0,
         NEW row \in Rows, strategy' = Append(strategy, row),
         UNCHANGED <<invest, universal, hash, hashList, pushed, shared>>,
         OthersStay(r), call'[r].route = call[r].route,
         call'[r].on = Len(strategy) + 1, call[r].status # "ok",
         \A i \in DOMAIN Univs(r) : Univs(r)[i].id = 0,
         Univs(r)' = Univs(r), RequestOK(r)'
  PROVE  StrategyInv'
<1>1. /\ TablesGrow(r) /\ StrategyTables'
      /\ Codes' = Codes \union {Len(strategy) + 1}
      /\ Len(strategy) + 1 \notin Codes
  BY RowMade
<1>2. NumbersKept(r)
  BY <1>1 DEF NumbersKept
<1>3. IdsKept(r)
  BY DEF IdsKept
<1> QED
  BY <1>1, <1>2, <1>3, AdvanceKeeps DEF Advances

LEMMA CreateRowKeeps ==
  ASSUME StrategyInv, NEW r \in Requests, CreateRow(r)
  PROVE  StrategyInv'
<1>1. /\ call[r].route = "create" /\ call[r].status = Open /\ frame[r].pc = "row"
      /\ Shape
  BY DEF CreateRow, At, StrategyInv
<1>2. /\ NumberOK(r) /\ call[r].user \in Emails /\ frame[r] \in CreateFrames
      /\ \A i \in DOMAIN frame[r].parts : frame[r].parts[i].pc = "find"
      /\ Univs(r) = << >>
  BY <1>1, Creating
<1>3. PICK open \in BOOLEAN :
        strategy' = Append(strategy, [maker |-> call[r].user,
                                      operator |-> call[r].user,
                                      open |-> open, live |-> TRUE])
  BY DEF CreateRow
<1> DEFINE row == [maker |-> call[r].user, operator |-> call[r].user,
                   open |-> open, live |-> TRUE]
           n   == Len(strategy) + 1
<1>4. row \in Rows
  BY <1>2 DEF Rows
<1>5. /\ call' = [call EXCEPT ![r].on = n] /\ Go(r, "info")
      /\ UNCHANGED <<invest, universal, hash, hashList, pushed, shared>>
  BY DEF CreateRow
<1>6. /\ call'[r].route = "create" /\ call'[r].on = n
      /\ call'[r].user = call[r].user /\ call'[r].status = Open
      /\ Shaped /\ \A q \in Requests \ {r} : call'[q] = call[q]
  BY <1>1, <1>5, OnSet
<1>7. Framed(r) /\ frame'[r] = [frame[r] EXCEPT !.pc = "info"]
  BY <1>1, <1>5, GoesTo
<1>8. /\ frame'[r] \in CreateFrames /\ frame'[r].pc = "info"
      /\ frame'[r].parts = frame[r].parts
  BY <1>1, <1>2, <1>5, CreateGoes
<1> HIDE DEF row
<1>9. Codes' = Codes \union {n} /\ n \notin Codes \union {0, 1}
  BY <1>3, <1>4, <1>5, RowMade DEF row
<1> HIDE DEF n
<1>10. NumberOK(r)'
  BY <1>6, <1>8, <1>9 DEF NumberOK, Open
<1>11. \A h \in DOMAIN hash' : <<h, call'[r].on>> \notin hashList'
  BY <1>5, <1>6, <1>9, Numbers
<1>12. \A i \in DOMAIN frame'[r].parts : TagOK(r, i)'
  BY <1>2, <1>8 DEF TagOK
<1>13. CreateOK(r)'
  BY <1>2, <1>6, <1>8, <1>11, <1>12 DEF CreateOK
<1>14. RequestOK(r)'
  BY <1>1, <1>6, <1>10, <1>13, CreateRequest
<1>15. /\ call[r].on = 0 /\ call[r].route \in Making /\ call[r].status # "ok"
  BY <1>1, <1>2 DEF NumberOK, Making, Open
<1>16. Univs(r)' = << >>
  BY <1>6 DEF Univs, Adding
<1>17. strategy' = Append(strategy, row)
  BY <1>3 DEF row
<1>18. OthersStay(r)
  BY <1>6, <1>7 DEF OthersStay
<1> QED
  BY <1>1, <1>2, <1>4, <1>5, <1>6, <1>14, <1>15, <1>16, <1>17, <1>18, MakeKeeps
  DEF n

LEMMA TagsOfParts ==
  ASSUME StrategyInv, NEW r \in Requests, call[r].route = "create",
         frame[r].pc # "none"
  PROVE  Repeated(r) \subseteq Tags /\ Sought(r) \subseteq Tags
<1>1. frame[r] \in CreateFrames
  BY Creating
<1>2. \A i \in DOMAIN frame[r].parts : frame[r].parts[i].tag \in Tags
  BY <1>1, PartTyped
<1> QED
  BY <1>2 DEF Repeated, Sought, Part

LEMMA CreateInfoKeeps ==
  ASSUME StrategyInv, NEW r \in Requests, CreateInfo(r)
  PROVE  StrategyInv'
<1>1. /\ call[r].route = "create" /\ call[r].status = Open /\ frame[r].pc = "info"
      /\ Shape
  BY DEF CreateInfo, At, StrategyInv
<1>2. /\ NumberOK(r) /\ call[r].user \in Emails /\ frame[r] \in CreateFrames
      /\ \A i \in DOMAIN frame[r].parts : frame[r].parts[i].pc = "find"
      /\ \A i \in DOMAIN frame[r].parts : TagOK(r, i)
      /\ \A h \in DOMAIN hash : <<h, call[r].on>> \in hashList =>
           \E i \in Part(r, "paired") : frame[r].parts[i].hash = h
  BY <1>1, Creating
<1>3. /\ invest' = invest \union {call[r].on} /\ Go(r, "tags") /\ call' = call
      /\ UNCHANGED <<strategy, universal, hash, hashList, pushed>>
  BY DEF CreateInfo
<1>4. shared' \subseteq Tags
  <2>1. shared \subseteq Tags
    BY DEF StrategyInv, StrategyTables
  <2>2. shared' = shared \union Repeated(r)
                    \union (Sought(r) \intersect
                              UNION {Sought(q) : q \in {q \in Requests : InTags(q)}})
    BY Zenon DEF CreateInfo
  <2>3. Repeated(r) \subseteq Tags /\ Sought(r) \subseteq Tags
    BY <1>1, TagsOfParts
  <2> QED
    BY <2>1, <2>2, <2>3
<1>5. Framed(r) /\ frame'[r] = [frame[r] EXCEPT !.pc = "tags"]
  BY <1>1, <1>3, GoesTo
<1>6. /\ frame'[r] \in CreateFrames /\ frame'[r].pc = "tags"
      /\ frame'[r].parts = frame[r].parts
  BY <1>1, <1>2, <1>3, CreateGoes
<1>7. Called(r)
  BY <1>1, <1>3, SameCalled
<1>8. call[r].on \in Codes \ {1} /\ call[r].on # 0
  BY <1>1, <1>2 DEF NumberOK, Making
<1>9. Codes' = Codes
  BY <1>3 DEF Codes
<1>10. StrategyTables' /\ TablesGrow(r)
  BY <1>3, <1>4, <1>8, <1>9 DEF StrategyInv, StrategyTables, TablesGrow
<1>11. NumberOK(r)'
  BY <1>1, <1>3, <1>6, <1>8, <1>9 DEF NumberOK, Open
<1>12. CreateOK(r)'
  <2>1. \A i \in DOMAIN frame'[r].parts : TagOK(r, i)'
    BY <1>2, <1>3, <1>6 DEF TagOK
  <2>2. Part(r, "paired")' = Part(r, "paired")
    BY <1>6 DEF Part
  <2> QED
    BY <1>2, <1>3, <1>6, <2>1, <2>2 DEF CreateOK
<1>13. RequestOK(r)' /\ SameIds(r)
  BY <1>1, <1>3, <1>11, <1>12, CreateRequest
<1> QED
  BY <1>1, <1>3, <1>5, <1>7, <1>9, <1>10, <1>13, StepKeeps DEF Open

LEMMA FindTagKeeps ==
  ASSUME StrategyInv, NEW r \in Requests, NEW i, FindTag(r, i)
  PROVE  StrategyInv'
<1>1. /\ InTags(r) /\ i \in DOMAIN frame[r].parts /\ frame[r].parts[i].pc = "find"
      /\ call' = call /\ UNCHANGED strategyVars /\ Shape
  BY DEF FindTag, Part, StrategyInv
<1> DEFINE found == {h \in DOMAIN hash : hash[h] = frame[r].parts[i].tag}
<1>2. \/ SetPart(r, i, "insert", 0)
      \/ \E h \in found : SetPart(r, i, "tagged", h)
  BY Zenon DEF FindTag
<1>3. Called(r)
  BY <1>1, SameCalled
<1>4. StrategyTables'
  BY <1>1, TablesRest
<1>5. /\ UNCHANGED <<strategy, invest, universal, pushed>>
      /\ hash' = hash /\ hashList' = hashList
  BY <1>1 DEF strategyVars
<1>6. CASE SetPart(r, i, "insert", 0)
  BY <1>1, <1>3, <1>4, <1>5, <1>6, PartKeeps
<1>7. ASSUME NEW h \in found, SetPart(r, i, "tagged", h)
      PROVE  StrategyInv'
  <2>1. h \in Nat /\ h \in DOMAIN hash' /\ hash'[h] = frame[r].parts[i].tag
    BY <1>5, <1>7, Numbers
  <2> QED
    BY <1>1, <1>3, <1>4, <1>5, <1>7, <2>1, PartKeeps
<1> QED
  BY <1>2, <1>6, <1>7

LEMMA InsertTagKeeps ==
  ASSUME StrategyInv, NEW r \in Requests, NEW i, InsertTag(r, i)
  PROVE  StrategyInv'
<1> DEFINE tag == frame[r].parts[i].tag
           n   == Len(hash) + 1
<1>1. /\ InTags(r) /\ i \in DOMAIN frame[r].parts /\ frame[r].parts[i].pc = "insert"
      /\ call' = call /\ UNCHANGED <<strategy, invest, universal, hashList, pushed>>
      /\ Shape /\ hash' = Append(hash, tag) /\ SetPart(r, i, "tagged", n)
      /\ shared' = shared
  BY DEF InsertTag, Part, StrategyInv
<1>2. Called(r)
  BY <1>1, SameCalled
<1>3. tag \in Tags
  <2>1. frame[r] \in CreateFrames
    BY <1>1, Creating DEF InTags
  <2> QED
    BY <1>1, <2>1, PartTyped
<1>4. hash \in Seq(Tags)
  BY DEF StrategyInv, StrategyTables
<1> HIDE DEF tag
<1>5. /\ hash' \in Seq(Tags) /\ DOMAIN hash' = DOMAIN hash \union {n}
      /\ hash'[n] = tag /\ n \in Nat /\ \A g \in DOMAIN hash : hash'[g] = hash[g]
  BY <1>1, <1>3, <1>4
<1>6. StrategyTables'
  BY <1>1, <1>5 DEF StrategyInv, StrategyTables, Codes
<1> HIDE DEF n
<1> QED
  BY <1>1, <1>2, <1>5, <1>6, PartKeeps DEF tag

LEMMA PairSelectKeeps ==
  ASSUME StrategyInv, NEW r \in Requests, NEW i, PairSelect(r, i)
  PROVE  StrategyInv'
<1> DEFINE h == frame[r].parts[i].hash
<1>1. /\ InTags(r) /\ i \in DOMAIN frame[r].parts /\ frame[r].parts[i].pc = "tagged"
      /\ call' = call /\ UNCHANGED strategyVars /\ Shape
      /\ SetPart(r, i, IF Pair(r, i) \in hashList THEN "paired" ELSE "pair", h)
  BY DEF PairSelect, Part, StrategyInv
<1>2. Called(r)
  BY <1>1, SameCalled
<1>3. StrategyTables'
  BY <1>1, TablesRest
<1>4. /\ UNCHANGED <<strategy, invest, universal, pushed>>
      /\ hash' = hash /\ hashList' = hashList
  BY <1>1 DEF strategyVars
<1>5. h \in DOMAIN hash /\ hash[h] = frame[r].parts[i].tag /\ h \in Nat
  <2>1. TagOK(r, i)
    BY <1>1, Creating DEF InTags
  <2> QED
    BY <1>1, <2>1, Numbers DEF TagOK
<1>6. CASE Pair(r, i) \in hashList
  BY <1>1, <1>2, <1>3, <1>4, <1>5, <1>6, PartKeeps DEF Pair
<1>7. CASE Pair(r, i) \notin hashList
  BY <1>1, <1>2, <1>3, <1>4, <1>5, <1>7, PartKeeps
<1> QED
  BY <1>6, <1>7

LEMMA PairInsertKeeps ==
  ASSUME StrategyInv, NEW r \in Requests, NEW i, PairInsert(r, i)
  PROVE  StrategyInv'
<1> DEFINE h == frame[r].parts[i].hash
<1>1. /\ InTags(r) /\ i \in DOMAIN frame[r].parts /\ frame[r].parts[i].pc = "pair"
      /\ UNCHANGED <<strategy, invest, universal, hash, pushed, shared>> /\ Shape
  BY DEF PairInsert, Part, StrategyInv
<1>2. h \in DOMAIN hash /\ hash[h] = frame[r].parts[i].tag /\ h \in Nat
  <2>1. TagOK(r, i)
    BY <1>1, Creating DEF InTags
  <2> QED
    BY <1>1, <2>1, Numbers DEF TagOK
<1>3. call[r].on \in Codes
  BY <1>1, Creating DEF InTags, NumberOK, Making
<1>4. Codes' = Codes
  BY <1>1 DEF Codes
<1>5. CASE Pair(r, i) \in hashList
  <2>1. /\ Reject(r, "QueryFailedError") /\ SetPart(r, i, "failed", h)
        /\ hashList' = hashList
    BY <1>5 DEF PairInsert
  <2>2. Called(r) /\ (call'[r] = call[r] \/ call'[r].status # "ok")
    BY <1>1, <2>1, RejectCalled
  <2>3. StrategyTables'
    BY <1>1, <1>4, <2>1 DEF StrategyInv, StrategyTables
  <2> QED
    BY <1>1, <1>2, <2>1, <2>2, <2>3, PartKeeps
<1>6. CASE Pair(r, i) \notin hashList
  <2>1. /\ call' = call /\ SetPart(r, i, "paired", h)
        /\ hashList' = hashList \union {<<h, call[r].on>>}
    BY <1>6 DEF PairInsert, Pair
  <2>2. Called(r) /\ call'[r] = call[r]
    BY <1>1, <2>1, SameCalled
  <2>3. StrategyTables'
    BY <1>1, <1>2, <1>3, <1>4, <2>1 DEF StrategyInv, StrategyTables
  <2> QED
    BY <1>1, <1>2, <2>1, <2>2, <2>3, PartKeeps
<1> QED
  BY <1>5, <1>6

LEMMA TagPartRaisesKeeps ==
  ASSUME StrategyInv, NEW r \in Requests, NEW i \in DOMAIN frame[r].parts,
         TagPartRaises(r, i)
  PROVE  StrategyInv'
<1>1. /\ InTags(r) /\ UNCHANGED strategyVars /\ Shape
      /\ Reject(r, "QueryFailedError")
  BY DEF TagPartRaises, StrategyInv
<1>2. Called(r) /\ (call'[r] = call[r] \/ call'[r].status # "ok")
  BY <1>1, RejectCalled
<1>3. StrategyTables'
  BY <1>1, TablesRest
<1>4. /\ UNCHANGED <<strategy, invest, universal, pushed>>
      /\ hash' = hash /\ hashList' = hashList
  BY <1>1 DEF strategyVars
<1>5. \/ SetPart(r, i, "lost", 0)
      \/ SetPart(r, i, "failed", frame[r].parts[i].hash)
  BY DEF TagPartRaises
<1>6. frame[r].parts[i].pc # "paired"
  BY DEF TagPartRaises, Part
<1>7. frame[r].parts[i].hash \in Nat
  <2>1. frame[r] \in CreateFrames
    BY <1>1, Creating DEF InTags
  <2> QED
    BY <2>1, PartTyped
<1> QED
  BY <1>1, <1>2, <1>3, <1>4, <1>5, <1>6, <1>7, PartKeeps

LEMMA CreateAnswersKeeps ==
  ASSUME StrategyInv, NEW r \in Requests, CreateAnswers(r)
  PROVE  StrategyInv'
<1>1. /\ call[r].route = "create" /\ call[r].status = Open /\ frame[r].pc = "tags"
      /\ AllPaired(r) /\ Go(r, "done") /\ UNCHANGED strategyVars /\ Shape
  BY DEF CreateAnswers, At, StrategyInv
<1>2. AnswerOk(r) \/ Throw(r, "EntityNotFoundError")
  BY DEF CreateAnswers
<1>3. Called(r)
  BY <1>1, <1>2, OkCalled, ThrowCalled
<1>4. /\ NumberOK(r) /\ call[r].user \in Emails /\ frame[r] \in CreateFrames
      /\ \A i \in DOMAIN frame[r].parts : TagOK(r, i)
      /\ \A h \in DOMAIN hash : <<h, call[r].on>> \in hashList =>
           \E i \in Part(r, "paired") : frame[r].parts[i].hash = h
  BY <1>1, Creating
<1>5. Framed(r) /\ frame'[r] = [frame[r] EXCEPT !.pc = "done"]
  BY <1>1, GoesTo
<1>6. /\ frame'[r] \in CreateFrames /\ frame'[r].pc = "done"
      /\ frame'[r].parts = frame[r].parts
  BY <1>1, <1>4, CreateGoes
<1>7. /\ call'[r].route = "create" /\ call'[r].on = call[r].on
      /\ call'[r].user = call[r].user
      /\ hash' = hash /\ hashList' = hashList /\ Codes' = Codes /\ invest' = invest
  BY <1>1, <1>3 DEF Called, strategyVars, Codes
<1>8. NumberOK(r)'
  BY <1>1, <1>4, <1>6, <1>7 DEF NumberOK
<1>9. CreateOK(r)'
  <2>1. \A i \in DOMAIN frame'[r].parts : TagOK(r, i)'
    BY <1>4, <1>6, <1>7 DEF TagOK
  <2>2. Part(r, "paired")' = Part(r, "paired")
    BY <1>6 DEF Part
  <2>3. AllPaired(r)'
    BY <1>1, <1>6, <2>2 DEF AllPaired
  <2> QED
    BY <1>4, <1>6, <1>7, <2>1, <2>2, <2>3 DEF CreateOK
<1>10. RequestOK(r)' /\ SameIds(r)
  BY <1>1, <1>7, <1>8, <1>9, CreateRequest
<1> QED
  BY <1>1, <1>3, <1>5, <1>10, RestKeeps DEF Open

-----------------------------------------------------------------------------
(* addUniversal, by itself or as a part of a fork                            *)

LEMMA UnivKnown ==
  ASSUME StrategyInv, NEW r \in Requests, InUniversals(r),
         NEW i \in DOMAIN frame[r].univ
  PROVE  LET p == frame[r].univ[i] IN
         /\ p.ticker \in Tickers /\ p.setting \in Settings \union {None}
         /\ p.id \in Nat /\ call[r].on \in Codes
         /\ p.pc \in {"mine", "insert"} => p.id = 0
         /\ p.pc \in {"again", "fill"} => p.id # 0
         /\ p.id # 0 => /\ p.id \in DOMAIN universal \ {1}
                        /\ universal[p.id].code = call[r].on
                        /\ universal[p.id].ticker = p.ticker
                        /\ universal[p.id].setting \in {None, p.setting}
<1>1. call[r].route \in Adding /\ frame[r].pc = "universals"
  BY DEF InUniversals, Adding
<1>2. UnivOK(r) /\ Univs(r) = frame[r].univ
  BY <1>1, Forking, AddingOne DEF Adding
<1>3. frame[r].univ \in Seq(UnivParts)
  BY <1>1, Forking, AddingOne DEF Adding, AddFrames, ForkFrames
<1>4. frame[r].univ[i] \in UnivParts
  BY <1>3
<1>5. call[r].on \in Codes
  BY <1>1, Forking, AddingOne DEF Adding, NumberOK, Making
<1>6. /\ frame[r].univ[i].ticker \in Tickers
      /\ frame[r].univ[i].setting \in Settings \union {None}
      /\ frame[r].univ[i].id \in Nat
  BY <1>4 DEF UnivParts
<1> QED
  BY <1>2, <1>5, <1>6 DEF UnivOK

(* The part goes on, or fails, and no table is written.                      *)
LEMMA UnivStays ==
  ASSUME StrategyInv, NEW r \in Requests, InUniversals(r),
         NEW i \in DOMAIN frame[r].univ, frame[r].univ[i].pc # "filled",
         NEW pc \in {"mine", "insert", "again", "fill", "failed"},
         SetUniv(r, i, pc, frame[r].univ[i].id), Called(r),
         call'[r] = call[r] \/ call'[r].status # "ok",
         UNCHANGED strategyVars,
         pc \in {"mine", "insert"} => frame[r].univ[i].id = 0,
         pc \in {"again", "fill"} => frame[r].univ[i].id # 0
  PROVE  StrategyInv'
<1> DEFINE n == frame[r].univ[i].id
<1>1. /\ UNCHANGED <<strategy, invest, universal, hash, hashList, pushed>>
      /\ StrategyTables'
  BY TablesRest DEF strategyVars
<1>2. n \in Nat /\ (n # 0 => /\ n \in DOMAIN universal' \ {1}
                             /\ universal'[n].code = call[r].on
                             /\ universal'[n].ticker = frame[r].univ[i].ticker
                             /\ universal'[n].setting \in {None, frame[r].univ[i].setting})
  BY <1>1, UnivKnown
<1>3. SetUniv(r, i, pc, n)
  OBVIOUS
<1>4. n = frame[r].univ[i].id
  OBVIOUS
<1> HIDE DEF n
<1> QED
  BY <1>1, <1>2, <1>3, <1>4, UnivKeeps

LEMMA CheckMineKeeps ==
  ASSUME StrategyInv, NEW r \in Requests, NEW i, CheckMine(r, i)
  PROVE  StrategyInv'
<1> DEFINE n == frame[r].univ[i].id
<1>1. /\ InUniversals(r) /\ i \in DOMAIN frame[r].univ /\ Shape
      /\ frame[r].univ[i].pc \in {"mine", "again"} /\ UNCHANGED strategyVars
  BY DEF CheckMine, Univ, StrategyInv
<1>2. \/ /\ SetUniv(r, i, IF i \in Univ(r, "mine") THEN "insert" ELSE "fill", n)
         /\ call' = call
      \/ Reject(r, "EntityNotFoundError") /\ SetUniv(r, i, "failed", n)
  BY DEF CheckMine
<1>3. /\ frame[r].univ[i].pc = "mine" => n = 0
      /\ frame[r].univ[i].pc = "again" => n # 0
  BY <1>1, UnivKnown
<1>4. CASE Reject(r, "EntityNotFoundError") /\ SetUniv(r, i, "failed", n)
  <2>1. Called(r) /\ (call'[r] = call[r] \/ call'[r].status # "ok")
    BY <1>1, <1>4, RejectCalled
  <2> QED
    BY <1>1, <1>4, <2>1, UnivStays
<1>5. CASE /\ SetUniv(r, i, IF i \in Univ(r, "mine") THEN "insert" ELSE "fill", n)
           /\ call' = call
  <2>1. Called(r) /\ call'[r] = call[r]
    BY <1>1, <1>5, SameCalled
  <2>2. CASE i \in Univ(r, "mine")
    <3>1. SetUniv(r, i, "insert", n) /\ n = 0
      BY <1>3, <1>5, <2>2 DEF Univ
    <3> QED
      BY <1>1, <2>1, <3>1, UnivStays
  <2>3. CASE i \notin Univ(r, "mine")
    <3>1. SetUniv(r, i, "fill", n) /\ n # 0
      BY <1>1, <1>3, <1>5, <2>3 DEF Univ
    <3> QED
      BY <1>1, <2>1, <3>1, UnivStays
  <2> QED
    BY <2>2, <2>3
<1> QED
  BY <1>2, <1>4, <1>5

LEMMA UniversalPartRaisesKeeps ==
  ASSUME StrategyInv, NEW r \in Requests, NEW i, UniversalPartRaises(r, i)
  PROVE  StrategyInv'
<1>1. /\ InUniversals(r) /\ i \in DOMAIN frame[r].univ /\ Shape
      /\ frame[r].univ[i].pc # "filled" /\ UNCHANGED strategyVars
      /\ SetUniv(r, i, "failed", frame[r].univ[i].id)
      /\ Reject(r, "QueryFailedError")
  BY DEF UniversalPartRaises, Univ, StrategyInv
<1>2. Called(r) /\ (call'[r] = call[r] \/ call'[r].status # "ok")
  BY <1>1, RejectCalled
<1> QED
  BY <1>1, <1>2, UnivStays

LEMMA InsertUniversalKeeps ==
  ASSUME StrategyInv, NEW r \in Requests, NEW i, InsertUniversal(r, i)
  PROVE  StrategyInv'
<1> DEFINE p == frame[r].univ[i]
           n == Len(universal) + 1
           row == [code |-> call[r].on, ticker |-> p.ticker, setting |-> None]
<1>1. /\ InUniversals(r) /\ i \in DOMAIN frame[r].univ /\ p.pc = "insert"
      /\ call' = call /\ UNCHANGED <<strategy, invest, hash, hashList, pushed, shared>>
      /\ Shape /\ universal' = Append(universal, row) /\ SetUniv(r, i, "again", n)
  BY DEF InsertUniversal, Univ, StrategyInv
<1>2. Called(r) /\ call'[r] = call[r]
  BY <1>1, SameCalled
<1>3. p.ticker \in Tickers /\ call[r].on \in Codes /\ p.id = 0
  BY <1>1, UnivKnown
<1>4. universal \in Seq(Listed) /\ 1 \in DOMAIN universal
  BY DEF StrategyInv, StrategyTables
<1>5. /\ row \in Listed /\ row.code = call[r].on /\ row.ticker = p.ticker
      /\ row.setting = None
  BY <1>3, Numbers DEF Listed
<1> HIDE DEF row
<1>6. /\ universal' \in Seq(Listed) /\ DOMAIN universal' = DOMAIN universal \union {n}
      /\ universal'[n] = row /\ n \in Nat /\ n \notin DOMAIN universal /\ n # 1 /\ n # 0
      /\ \A u \in DOMAIN universal : universal'[u] = universal[u]
  BY <1>1, <1>4, <1>5
<1>7. Codes' = Codes
  BY <1>1 DEF Codes
<1>8. StrategyTables'
  <2>1. \A u \in DOMAIN universal' : universal'[u].code \in Codes
    BY <1>3, <1>5, <1>6 DEF StrategyInv, StrategyTables
  <2>2. universal'[1] = universal[1] /\ 1 \in DOMAIN universal'
    BY <1>4, <1>6
  <2> QED
    BY <1>1, <1>6, <1>7, <2>1, <2>2 DEF StrategyInv, StrategyTables
<1> HIDE DEF n
<1>9. n \in DOMAIN universal' \ {1}
  BY <1>6
<1> QED
  BY <1>1, <1>2, <1>3, <1>5, <1>6, <1>8, <1>9, UnivKeeps

LEMMA FillUniversalKeeps ==
  ASSUME StrategyInv, NEW r \in Requests, NEW i, FillUniversal(r, i)
  PROVE  StrategyInv'
<1> DEFINE p == frame[r].univ[i]
           n == p.id
<1>1. /\ InUniversals(r) /\ i \in DOMAIN frame[r].univ /\ p.pc = "fill"
      /\ call' = call /\ UNCHANGED <<strategy, invest, hash, hashList, pushed, shared>>
      /\ Shape /\ SetUniv(r, i, "filled", n)
      /\ universal' = IF p.setting = None THEN universal
                      ELSE [universal EXCEPT ![n].setting = p.setting]
  BY DEF FillUniversal, Univ, StrategyInv
<1>2. Called(r) /\ call'[r] = call[r]
  BY <1>1, SameCalled
<1>3. /\ p.ticker \in Tickers /\ p.setting \in Settings \union {None}
      /\ n \in DOMAIN universal \ {1} /\ n # 0 /\ n \in Nat
      /\ universal[n].code = call[r].on /\ universal[n].ticker = p.ticker
      /\ universal[n].setting \in {None, p.setting}
  BY <1>1, UnivKnown
<1>4. universal \in Seq(Listed) /\ universal[n] \in Listed
  BY <1>3 DEF StrategyInv, StrategyTables
<1>5. PICK x \in Listed : x = universal[n]
  BY <1>4
<1> DEFINE y == [x EXCEPT !.setting = p.setting]
<1>6. y \in Listed /\ y.code = x.code /\ y.ticker = x.ticker /\ y.setting = p.setting
  BY <1>3 DEF Listed
<1>7. /\ universal' \in Seq(Listed) /\ DOMAIN universal' = DOMAIN universal
      /\ universal'[n].code = x.code /\ universal'[n].ticker = x.ticker
      /\ universal'[n].setting = p.setting
      /\ \A u \in DOMAIN universal \ {n} : universal'[u] = universal[u]
  <2>1. CASE p.setting = None
    <3>1. universal' = universal
      BY <1>1, <2>1
    <3> QED
      BY <1>3, <1>4, <1>5, <2>1, <3>1
  <2>2. CASE p.setting # None
    <3>1. universal' = [universal EXCEPT ![n] = y]
      BY <1>1, <1>5, <2>2, Zenon
    <3> HIDE DEF y
    <3>2. /\ universal' \in Seq(Listed) /\ DOMAIN universal' = DOMAIN universal
          /\ universal'[n] = y
          /\ \A u \in DOMAIN universal \ {n} : universal'[u] = universal[u]
      BY <1>3, <1>4, <1>6, <3>1
    <3> QED
      BY <1>6, <3>2
  <2> QED
    BY <2>1, <2>2
<1> HIDE DEF p, n
<1>8. Codes' = Codes
  BY <1>1 DEF Codes
<1>9. \A u \in DOMAIN universal :
        /\ universal'[u].code = universal[u].code
        /\ universal'[u].ticker = universal[u].ticker
        /\ u # n => universal'[u].setting = universal[u].setting
  BY <1>5, <1>7
<1>10. StrategyTables'
  <2>1. \A u \in DOMAIN universal' : universal'[u].code \in Codes
    BY <1>7, <1>9 DEF StrategyInv, StrategyTables
  <2>2. universal'[1] = universal[1] /\ 1 \in DOMAIN universal'
    BY <1>3, <1>7 DEF StrategyInv, StrategyTables
  <2> QED
    BY <1>1, <1>7, <1>8, <2>1, <2>2 DEF StrategyInv, StrategyTables
<1>11. /\ frame[r].univ[i].pc = "fill" /\ n = frame[r].univ[i].id
       /\ n \in DOMAIN universal' \ {1} /\ universal'[n].code = call[r].on
       /\ universal'[n].ticker = frame[r].univ[i].ticker
       /\ universal'[n].setting = frame[r].univ[i].setting
  BY <1>1, <1>3, <1>5, <1>7 DEF n, p
<1>12. /\ InUniversals(r) /\ i \in DOMAIN frame[r].univ
       /\ SetUniv(r, i, "filled", n) /\ n # 0 /\ n \in Nat
       /\ UNCHANGED <<strategy, invest, hash, hashList, pushed>>
       /\ DOMAIN universal' = DOMAIN universal
       /\ frame[r].univ[i].pc # "filled"
  BY <1>1, <1>3, <1>7, <1>11
<1>13. \A u \in DOMAIN universal :
         /\ universal'[u].code = universal[u].code
         /\ universal'[u].ticker = universal[u].ticker
         /\ u # n \/ n = 0 => universal'[u].setting = universal[u].setting
  BY <1>9, <1>12
<1> QED
  BY <1>2, <1>10, <1>11, <1>12, <1>13, UnivKeeps

LEMMA AddAnswersKeeps ==
  ASSUME StrategyInv, NEW r \in Requests, AddAnswers(r)
  PROVE  StrategyInv'
<1>1. /\ call[r].route = "add" /\ call[r].status = Open /\ frame[r].pc = "universals"
      /\ AllFilled(r) /\ AnswerOk(r) /\ Go(r, "done") /\ UNCHANGED strategyVars
      /\ Shape
  BY DEF AddAnswers, At, StrategyInv
<1>2. Called(r)
  BY <1>1, OkCalled
<1>3. /\ UnivOK(r) /\ call[r].on \in Codes /\ frame[r] \in AddFrames
      /\ \A i \in DOMAIN frame[r].univ : frame[r].univ[i].setting \in Settings
      /\ Univs(r) = frame[r].univ
  BY <1>1, AddingOne
<1>4. Framed(r) /\ frame'[r] = [frame[r] EXCEPT !.pc = "done"]
  BY <1>1, GoesTo
<1>5. /\ frame'[r] \in AddFrames /\ frame'[r].pc = "done"
      /\ frame'[r].univ = frame[r].univ
  <2>1. PICK f \in AddFrames : f = frame[r]
    BY <1>3
  <2>2. PICK g : g = [f EXCEPT !.pc = "done"]
    OBVIOUS
  <2>3. g \in AddFrames /\ g.pc = "done" /\ g.univ = f.univ
    BY <2>2, AddFrameGoes
  <2>4. frame'[r] = g
    BY <1>4, <2>1, <2>2, Zenon
  <2> QED
    BY <2>1, <2>3, <2>4, Zenon
<1>6. /\ call'[r].route = "add" /\ call'[r].on = call[r].on
      /\ Codes' = Codes /\ universal' = universal
  BY <1>1, <1>2 DEF Called, strategyVars, Codes
<1>7. Univs(r)' = Univs(r)
  BY <1>3, <1>5, <1>6 DEF Univs, Adding
<1>8. AllFilled(r)'
  BY <1>1, <1>5 DEF AllFilled, Univ
<1>9. AddOK(r)'
  BY <1>3, <1>5, <1>6, <1>8 DEF AddOK
<1>10. UnivOK(r)'
  BY <1>3, <1>6, <1>7 DEF UnivOK
<1>11. RequestOK(r)'
  BY <1>6, <1>9, <1>10 DEF RequestOK, NumberOK, CreateOK, ForkOK, Making
<1> QED
  BY <1>1, <1>2, <1>4, <1>7, <1>11, RestKeeps DEF Open, SameIds

-----------------------------------------------------------------------------
(* forkStrategy                                                              *)

LEMMA ForkGoes ==
  ASSUME Shape, NEW r \in Requests, frame[r] \in ForkFrames,
         NEW pc \in {"source", "row", "info", "universals", "done", "failed"},
         Go(r, pc)
  PROVE  /\ Framed(r) /\ frame'[r] \in ForkFrames /\ frame'[r].pc = pc
         /\ frame'[r].univ = frame[r].univ /\ frame'[r].tags = frame[r].tags
         /\ frame'[r].paired = frame[r].paired /\ frame'[r].info = frame[r].info
         /\ frame'[r].maker = frame[r].maker
<1>1. Framed(r) /\ frame'[r] = [frame[r] EXCEPT !.pc = pc]
  BY GoesTo
<1>2. PICK f \in ForkFrames : f = frame[r]
  OBVIOUS
<1>3. PICK g : g = [f EXCEPT !.pc = pc]
  OBVIOUS
<1>4. /\ g \in ForkFrames /\ g.pc = pc
      /\ g.univ = f.univ /\ g.tags = f.tags /\ g.paired = f.paired
      /\ g.info = f.info /\ g.maker = f.maker
  BY <1>3 DEF ForkFrames
<1>5. frame'[r] = g
  BY <1>1, <1>2, <1>3, Zenon
<1> QED
  BY <1>1, <1>2, <1>4, <1>5, Zenon

(* What is left to show of a fork that keeps its tickers.                    *)
LEMMA ForkRequest ==
  ASSUME StrategyInv, NEW r \in Requests, call[r].route = "fork",
         frame[r].pc # "none", call'[r].route = "fork",
         frame'[r].pc # "none", frame'[r].univ = frame[r].univ,
         universal' = universal,
         call'[r].on = call[r].on \/ \A i \in DOMAIN frame[r].univ : frame[r].univ[i].id = 0,
         NumberOK(r)', ForkOK(r)'
  PROVE  RequestOK(r)' /\ SameIds(r) /\ Univs(r)' = Univs(r)
<1>1. Univs(r)' = frame[r].univ /\ Univs(r) = frame[r].univ /\ UnivOK(r)
  BY Forking DEF Univs, Adding
<1>2. UnivOK(r)'
  BY <1>1 DEF UnivOK
<1> QED
  BY <1>1, <1>2 DEF RequestOK, CreateOK, AddOK, SameIds

LEMMA ListingsAreParts ==
  ASSUME StrategyInv, NEW c, NEW o \in Listings(c)
  PROVE  LET ps == [i \in DOMAIN o |-> UniversalPart(universal[o[i]].ticker,
                                                     universal[o[i]].setting)] IN
         /\ ps \in Seq(UnivParts)
         /\ \A i \in DOMAIN ps : ps[i].id = 0 /\ ps[i].pc = "mine"
<1>1. universal \in Seq(Listed)
  BY DEF StrategyInv, StrategyTables
<1>2. UniversalsOf(c) \subseteq 1 .. Len(universal) /\ Len(universal) \in Nat
  BY <1>1 DEF UniversalsOf
<1>3. IsFiniteSet(UniversalsOf(c))
  <2>1. IsFiniteSet(1 .. Len(universal))
    BY <1>2, FS_Interval
  <2> QED
    BY <1>2, <2>1, FS_Subset
<1>4. PICK n \in Nat : n = Cardinality(UniversalsOf(c))
  BY <1>3, FS_CardinalityType
<1>5. o \in [1 .. n -> UniversalsOf(c)]
  BY <1>4 DEF Listings
<1>6. \A i \in 1 .. n : UniversalPart(universal[o[i]].ticker,
                                      universal[o[i]].setting) \in UnivParts
  <2> TAKE i \in 1 .. n
  <2>1. o[i] \in DOMAIN universal
    BY <1>5 DEF UniversalsOf
  <2>2. universal[o[i]] \in Listed
    BY <1>1, <2>1
  <2> QED
    BY <2>2 DEF UniversalPart, UnivParts, Listed
<1> DEFINE ps == [i \in DOMAIN o |-> UniversalPart(universal[o[i]].ticker,
                                                   universal[o[i]].setting)]
<1>7. ps \in [1 .. n -> UnivParts]
  BY <1>5, <1>6
<1>8. \A i \in DOMAIN ps : ps[i].id = 0 /\ ps[i].pc = "mine"
  BY DEF UniversalPart
<1> HIDE DEF ps
<1>9. ps \in Seq(UnivParts)
  BY <1>7
<1> QED
  BY <1>8, <1>9 DEF ps

LEMMA ForkReadsKeeps ==
  ASSUME StrategyInv, NEW r \in Requests, ForkReads(r)
  PROVE  StrategyInv'
<1>1. /\ call[r].route = "fork" /\ call[r].status = Open /\ frame[r].pc = "source"
      /\ UNCHANGED strategyVars /\ Shape
  BY DEF ForkReads, At, StrategyInv
<1>2. /\ NumberOK(r) /\ call[r].user \in Emails /\ frame[r] \in ForkFrames
      /\ frame[r].paired = {}
      /\ \A i \in DOMAIN frame[r].univ : frame[r].univ[i].id = 0
      /\ Univs(r) = frame[r].univ
  BY <1>1, Forking
<1>3. call[r].on = 0
  BY <1>1, <1>2 DEF NumberOK, Making
<1> DEFINE c == frame[r].source
<1>4. CASE c \notin Codes \/ ~strategy[c].live
  <2>1. Throw(r, "EntityNotFoundError") /\ Leave(r)
    BY <1>4 DEF ForkReads
  <2>2. Called(r) /\ call'[r].status \notin {"ok", Open, "unused"}
    BY <1>1, <2>1, ThrowCalled
  <2>3. Framed(r) /\ frame'[r] = NoFrame
    <3>1. frame' = [frame EXCEPT ![r] = NoFrame]
      BY <2>1 DEF Leave
    <3> QED
      BY <1>1, <3>1, FrameSet, Zenon
  <2>4. call'[r].route = "fork" /\ call'[r].on = 0 /\ Refused(r)'
    BY <1>1, <1>3, <2>2, <2>3 DEF Called, Refused
  <2>5. Univs(r)' = << >>
    BY <2>3 DEF Univs, NoFrame
  <2>6. RequestOK(r)' /\ SameIds(r)
    BY <1>2, <2>2, <2>3, <2>4, <2>5
    DEF RequestOK, NumberOK, CreateOK, UnivOK, AddOK, ForkOK, SameIds, NoFrame
  <2> QED
    BY <1>1, <2>2, <2>3, <2>6, RestKeeps DEF Open
<1>5. CASE c \in Codes /\ strategy[c].live
  <2>1. /\ call' = call
        /\ \E o \in Listings(c) :
             frame' = [frame EXCEPT ![r] =
               [@ EXCEPT !.pc = "row", !.tags = TagsOf(c),
                         !.info = c \in invest, !.maker = strategy[c].maker,
                         !.univ = [i \in DOMAIN o |->
                           UniversalPart(universal[o[i]].ticker,
                                         universal[o[i]].setting)]]]
    BY <1>5, Zenon DEF ForkReads
  <2>2. PICK o \in Listings(c) :
          frame' = [frame EXCEPT ![r] =
               [frame[r] EXCEPT !.pc = "row", !.tags = TagsOf(c),
                         !.info = c \in invest, !.maker = strategy[c].maker,
                         !.univ = [i \in DOMAIN o |->
                           UniversalPart(universal[o[i]].ticker,
                                         universal[o[i]].setting)]]]
    BY <2>1, Zenon
  <2> DEFINE ps == [i \in DOMAIN o |-> UniversalPart(universal[o[i]].ticker,
                                                     universal[o[i]].setting)]
             known == c \in invest
             g == [frame[r] EXCEPT !.pc = "row", !.tags = TagsOf(c), !.info = known,
                                   !.maker = strategy[c].maker, !.univ = ps]
  <2>3. /\ ps \in Seq(UnivParts)
        /\ \A i \in DOMAIN ps : ps[i].id = 0 /\ ps[i].pc = "mine"
    BY ListingsAreParts
  <2>4. Framed(r) /\ frame'[r] = g
    <3>1. frame' = [frame EXCEPT ![r] = g]
      BY <2>2, Zenon
    <3> QED
      BY <1>1, <3>1, FrameSet, Zenon
  <2>5. strategy[c].maker \in Emails
    <3>1. strategy \in Seq(Rows) /\ c \in DOMAIN strategy
      BY <1>5 DEF StrategyInv, StrategyTables, Codes
    <3>2. strategy[c] \in Rows
      BY <3>1
    <3> QED
      BY <3>2 DEF Rows
  <2>6. TagsOf(c) \subseteq DOMAIN hash /\ TagsOf(c) \subseteq Nat
    BY Numbers DEF TagsOf
  <2>7. known \in BOOLEAN
    OBVIOUS
  <2>8. /\ g \in ForkFrames /\ g.pc = "row" /\ g.tags = TagsOf(c)
        /\ g.maker = strategy[c].maker /\ g.univ = ps /\ g.paired = frame[r].paired
    <3>1. PICK f \in ForkFrames : f = frame[r]
      BY <1>2
    <3>2. PICK tags : tags = TagsOf(c)
      OBVIOUS
    <3>3. PICK maker : maker = strategy[c].maker
      OBVIOUS
    <3>4. PICK kn \in BOOLEAN : kn = known
      BY <2>7
    <3>5. PICK qs : qs = ps
      OBVIOUS
    <3> HIDE DEF ps, known
    <3>6. g = [f EXCEPT !.pc = "row", !.tags = tags, !.info = kn,
                        !.maker = maker, !.univ = qs]
      BY <3>1, <3>2, <3>3, <3>4, <3>5, Zenon
    <3> HIDE DEF g
    <3>7. /\ tags \in SUBSET Nat /\ qs \in Seq(UnivParts)
          /\ maker \in Emails \union {None}
      BY <2>3, <2>5, <2>6, <3>2, <3>3, <3>5
    <3>8. /\ g \in ForkFrames /\ g.pc = "row" /\ g.tags = tags
          /\ g.maker = maker /\ g.univ = qs /\ g.paired = f.paired
      BY <3>6, <3>7 DEF ForkFrames
    <3> QED
      BY <3>1, <3>2, <3>3, <3>5, <3>8
  <2> HIDE DEF g, ps, known
  <2>9. Called(r) /\ call'[r] = call[r]
    BY <1>1, <2>1, SameCalled
  <2>10. hash' = hash /\ Codes' = Codes
    BY <1>1 DEF strategyVars, Codes
  <2>11. NumberOK(r)'
    BY <1>1, <1>3, <2>4, <2>8, <2>9 DEF NumberOK, Open
  <2>12. ForkOK(r)'
    BY <1>1, <1>2, <1>3, <2>3, <2>4, <2>5, <2>6, <2>8, <2>9, <2>10 DEF ForkOK
  <2>13. Univs(r)' = ps
    BY <1>1, <2>4, <2>8, <2>9 DEF Univs, Adding
  <2>14. UnivOK(r)' /\ SameIds(r)
    BY <1>2, <2>3, <2>13 DEF UnivOK, SameIds
  <2>15. RequestOK(r)'
    BY <1>1, <2>9, <2>11, <2>12, <2>14 DEF RequestOK, CreateOK, AddOK
  <2> QED
    BY <1>1, <2>4, <2>9, <2>14, <2>15, RestKeeps DEF Open
<1> QED
  BY <1>4, <1>5

LEMMA ForkRowKeeps ==
  ASSUME StrategyInv, NEW r \in Requests, ForkRow(r)
  PROVE  StrategyInv'
<1>1. /\ call[r].route = "fork" /\ call[r].status = Open /\ frame[r].pc = "row"
      /\ Shape
  BY DEF ForkRow, At, StrategyInv
<1>2. /\ NumberOK(r) /\ call[r].user \in Emails /\ frame[r] \in ForkFrames
      /\ frame[r].paired = {} /\ frame[r].tags \subseteq DOMAIN hash
      /\ frame[r].maker \in Emails
      /\ \A i \in DOMAIN frame[r].univ : frame[r].univ[i].id = 0
      /\ Univs(r) = frame[r].univ
  BY <1>1, Forking
<1> DEFINE row == [maker |-> frame[r].maker, operator |-> call[r].user,
                   open |-> FALSE, live |-> TRUE]
           n   == Len(strategy) + 1
<1>3. /\ strategy' = Append(strategy, row) /\ call' = [call EXCEPT ![r].on = n]
      /\ Go(r, "info")
      /\ UNCHANGED <<invest, universal, hash, hashList, pushed, shared>>
  BY DEF ForkRow
<1>4. row \in Rows /\ row.maker = frame[r].maker
  BY <1>2 DEF Rows
<1>5. /\ call'[r].route = "fork" /\ call'[r].on = n
      /\ call'[r].user = call[r].user /\ call'[r].status = Open
      /\ Shaped /\ \A q \in Requests \ {r} : call'[q] = call[q]
  BY <1>1, <1>3, OnSet
<1>6. /\ Framed(r) /\ frame'[r] \in ForkFrames /\ frame'[r].pc = "info"
      /\ frame'[r].univ = frame[r].univ /\ frame'[r].tags = frame[r].tags
      /\ frame'[r].paired = frame[r].paired /\ frame'[r].maker = frame[r].maker
  BY <1>1, <1>2, <1>3, ForkGoes
<1> HIDE DEF row
<1>7. /\ Codes' = Codes \union {n} /\ n \notin Codes \union {0, 1}
      /\ strategy'[n] = row
  BY <1>3, <1>4, RowMade
<1> HIDE DEF n
<1>8. NumberOK(r)'
  BY <1>5, <1>6, <1>7 DEF NumberOK, Open
<1>9. \A h \in DOMAIN hash' : <<h, call'[r].on>> \notin hashList'
  BY <1>3, <1>5, <1>7, Numbers
<1>10. ForkOK(r)'
  BY <1>2, <1>3, <1>4, <1>5, <1>6, <1>7, <1>9 DEF ForkOK
<1>11. RequestOK(r)' /\ Univs(r)' = Univs(r)
  BY <1>1, <1>2, <1>3, <1>5, <1>6, <1>8, <1>10, ForkRequest
<1>12. call[r].on = 0 /\ call[r].route \in Making /\ call[r].status # "ok"
  BY <1>1, <1>2 DEF NumberOK, Making, Open
<1>13. OthersStay(r)
  BY <1>5, <1>6 DEF OthersStay
<1> QED
  BY <1>1, <1>2, <1>3, <1>4, <1>5, <1>11, <1>12, <1>13, MakeKeeps DEF n

LEMMA ForkInfoKeeps ==
  ASSUME StrategyInv, NEW r \in Requests, ForkInfo(r)
  PROVE  StrategyInv'
<1>1. /\ call[r].route = "fork" /\ call[r].status = Open /\ frame[r].pc = "info"
      /\ UNCHANGED <<strategy, universal, hash, hashList, pushed, shared>> /\ Shape
  BY DEF ForkInfo, At, StrategyInv
<1>2. /\ NumberOK(r) /\ call[r].user \in Emails /\ frame[r] \in ForkFrames
      /\ frame[r].paired = {} /\ frame[r].tags \subseteq DOMAIN hash
      /\ \A i \in DOMAIN frame[r].univ : frame[r].univ[i].id = 0
      /\ call[r].on # 0 =>
           /\ strategy[call[r].on].maker = frame[r].maker
           /\ \A h \in DOMAIN hash :
                <<h, call[r].on>> \in hashList <=> h \in frame[r].paired
  BY <1>1, Forking
<1>3. PICK pc \in {"universals", "failed"} :
        /\ Go(r, pc)
        /\ \/ /\ pc = "universals" /\ call' = call
              /\ invest' = invest \union {call[r].on}
           \/ pc = "failed" /\ Throw(r, "TypeError") /\ invest' = invest
  BY DEF ForkInfo
<1>4. Called(r) /\ (call'[r] = call[r] \/ call'[r].status # "ok")
  BY <1>1, <1>3, SameCalled, ThrowCalled
<1>5. /\ Framed(r) /\ frame'[r] \in ForkFrames /\ frame'[r].pc = pc
      /\ frame'[r].univ = frame[r].univ /\ frame'[r].tags = frame[r].tags
      /\ frame'[r].paired = frame[r].paired /\ frame'[r].maker = frame[r].maker
  BY <1>1, <1>2, <1>3, ForkGoes
<1>6. Codes' = Codes
  BY <1>1 DEF Codes
<1>7. call[r].on \in Codes \ {1} /\ call[r].on # 0 /\ call[r].status # "ok"
  BY <1>1, <1>2 DEF NumberOK, Making, Open
<1>8. StrategyTables' /\ TablesGrow(r)
  BY <1>1, <1>3, <1>6, <1>7 DEF StrategyInv, StrategyTables, TablesGrow
<1>9. /\ call'[r].route = "fork" /\ call'[r].on = call[r].on
      /\ call'[r].user = call[r].user /\ call'[r].status # "ok"
  BY <1>1, <1>4, <1>7 DEF Called
<1>10. NumberOK(r)'
  BY <1>3, <1>5, <1>6, <1>7, <1>9 DEF NumberOK
<1>11. ForkOK(r)'
  BY <1>1, <1>2, <1>5, <1>9 DEF ForkOK
<1>12. RequestOK(r)' /\ SameIds(r)
  BY <1>1, <1>5, <1>9, <1>10, <1>11, ForkRequest
<1> QED
  BY <1>1, <1>4, <1>5, <1>6, <1>7, <1>8, <1>12, StepKeeps

LEMMA ForkTagKeeps ==
  ASSUME StrategyInv, NEW r \in Requests, NEW h \in frame[r].tags, ForkTag(r, h)
  PROVE  StrategyInv'
<1>1. /\ call[r].route = "fork" /\ frame[r].pc = "universals" /\ call' = call
      /\ hashList' = hashList \union {<<h, call[r].on>>}
      /\ UNCHANGED <<strategy, invest, universal, hash, pushed, shared>> /\ Shape
  BY DEF ForkTag, StrategyInv
<1>2. /\ NumberOK(r) /\ call[r].user \in Emails /\ frame[r] \in ForkFrames
      /\ frame[r].paired \subseteq frame[r].tags /\ frame[r].tags \subseteq DOMAIN hash
      /\ call[r].on # 0 =>
           /\ strategy[call[r].on].maker = frame[r].maker
           /\ \A g \in DOMAIN hash :
                <<g, call[r].on>> \in hashList <=> g \in frame[r].paired
  BY <1>1, Forking
<1>3. Called(r) /\ call'[r] = call[r]
  BY <1>1, SameCalled
<1>4. /\ call[r].on \in Codes \ {1} /\ call[r].on # 0 /\ call[r].status # "ok"
  BY <1>1, <1>2 DEF NumberOK, Making
<1>5. PICK f \in ForkFrames : f = frame[r]
  BY <1>2
<1> DEFINE g == [f EXCEPT !.paired = f.paired \union {h}]
<1>6. frame' = [frame EXCEPT ![r] = g]
  BY <1>5, Zenon DEF ForkTag
<1>7. Framed(r) /\ frame'[r] = g
  BY <1>1, <1>6, FrameSet, Zenon
<1>8. h \in Nat /\ h \in DOMAIN hash
  BY <1>2, Numbers
<1>9. /\ g \in ForkFrames /\ g.pc = f.pc /\ g.univ = f.univ /\ g.tags = f.tags
      /\ g.paired = f.paired \union {h} /\ g.maker = f.maker
  BY <1>8 DEF ForkFrames
<1> HIDE DEF g
<1>10. Codes' = Codes
  BY <1>1 DEF Codes
<1>11. StrategyTables' /\ TablesGrow(r)
  <2>1. <<h, call[r].on>> \in (DOMAIN hash) \X Codes
    BY <1>4, <1>8
  <2>2. StrategyTables'
    BY <1>1, <1>10, <2>1 DEF StrategyInv, StrategyTables
  <2>3. \A p \in hashList' \ hashList : p[2] = call[r].on
    BY <1>1
  <2>4. TablesGrow(r)
    BY <1>1, <1>4, <1>10, <2>3 DEF TablesGrow, Making
  <2> QED
    BY <2>2, <2>4
<1>12. NumberOK(r)'
  BY <1>1, <1>2, <1>3, <1>5, <1>7, <1>9, <1>10 DEF NumberOK
<1>13. \A x \in DOMAIN hash :
         <<x, call[r].on>> \in hashList' <=> x \in f.paired \union {h}
  BY <1>1, <1>2, <1>4, <1>5
<1>14. ForkOK(r)'
  BY <1>1, <1>2, <1>3, <1>4, <1>5, <1>7, <1>9, <1>13 DEF ForkOK
<1>15. RequestOK(r)' /\ SameIds(r)
  BY <1>1, <1>3, <1>5, <1>7, <1>9, <1>12, <1>14, ForkRequest
<1> QED
  BY <1>1, <1>3, <1>4, <1>7, <1>10, <1>11, <1>15, StepKeeps

LEMMA ForkTagRaisesKeeps ==
  ASSUME StrategyInv, NEW r \in Requests, NEW h, ForkTagRaises(r, h)
  PROVE  StrategyInv'
<1>1. /\ call[r].route = "fork" /\ call[r].status = Open /\ frame[r].pc = "universals"
      /\ Throw(r, "QueryFailedError") /\ h \notin frame[r].paired
      /\ UNCHANGED strategyVars /\ Shape
  BY DEF ForkTagRaises, At, StrategyInv
<1>2. /\ NumberOK(r) /\ call[r].user \in Emails /\ frame[r] \in ForkFrames
      /\ frame[r].paired \subseteq frame[r].tags /\ frame[r].tags \subseteq DOMAIN hash
      /\ call[r].on # 0 =>
           /\ strategy[call[r].on].maker = frame[r].maker
           /\ \A g \in DOMAIN hash :
                <<g, call[r].on>> \in hashList <=> g \in frame[r].paired
  BY <1>1, Forking
<1>3. Called(r) /\ call'[r].status \notin {"ok", Open, "unused"}
  BY <1>1, ThrowCalled
<1>4. PICK f \in ForkFrames : f = frame[r]
  BY <1>2
<1> DEFINE g == [f EXCEPT !.tags = f.tags \ {h}]
<1>5. frame' = [frame EXCEPT ![r] = g]
  BY <1>4, Zenon DEF ForkTagRaises
<1>6. Framed(r) /\ frame'[r] = g
  BY <1>1, <1>5, FrameSet, Zenon
<1>7. /\ g \in ForkFrames /\ g.pc = f.pc /\ g.univ = f.univ /\ g.tags = f.tags \ {h}
      /\ g.paired = f.paired /\ g.maker = f.maker
  BY DEF ForkFrames
<1> HIDE DEF g
<1>8. /\ Codes' = Codes /\ strategy' = strategy /\ universal' = universal
      /\ hash' = hash /\ hashList' = hashList /\ invest' = invest
  BY <1>1 DEF strategyVars, Codes
<1>9. /\ call'[r].route = "fork" /\ call'[r].on = call[r].on
      /\ call'[r].user = call[r].user /\ call'[r].status # "ok"
  BY <1>1, <1>3 DEF Called
<1>10. NumberOK(r)'
  BY <1>1, <1>2, <1>4, <1>6, <1>7, <1>8, <1>9 DEF NumberOK
<1>11. ForkOK(r)'
  BY <1>1, <1>2, <1>4, <1>6, <1>7, <1>8, <1>9 DEF ForkOK
<1>12. RequestOK(r)' /\ SameIds(r)
  BY <1>1, <1>4, <1>6, <1>7, <1>8, <1>9, <1>10, <1>11, ForkRequest
<1> QED
  BY <1>1, <1>3, <1>6, <1>12, RestKeeps DEF Open

LEMMA ForkAnswersKeeps ==
  ASSUME StrategyInv, NEW r \in Requests, ForkAnswers(r)
  PROVE  StrategyInv'
<1>1. /\ call[r].route = "fork" /\ call[r].status = Open /\ frame[r].pc = "universals"
      /\ AllFilled(r) /\ frame[r].tags = frame[r].paired /\ Go(r, "done")
      /\ UNCHANGED <<strategy, invest, universal, hash, hashList, shared>> /\ Shape
  BY DEF ForkAnswers, At, StrategyInv
<1>2. \/ AnswerOk(r) /\ pushed' = pushed \union {call[r].on}
      \/ Throw(r, "EntityNotFoundError") /\ pushed' = pushed
  BY DEF ForkAnswers
<1>3. /\ Called(r)
      /\ \/ call'[r].status = "ok" /\ pushed' = pushed \union {call[r].on}
         \/ pushed' = pushed
  BY <1>1, <1>2, OkCalled, ThrowCalled
<1>4. /\ NumberOK(r) /\ call[r].user \in Emails /\ frame[r] \in ForkFrames
      /\ frame[r].paired \subseteq frame[r].tags /\ frame[r].tags \subseteq DOMAIN hash
      /\ call[r].on # 0 =>
           /\ strategy[call[r].on].maker = frame[r].maker
           /\ \A g \in DOMAIN hash :
                <<g, call[r].on>> \in hashList <=> g \in frame[r].paired
  BY <1>1, Forking
<1>5. /\ Framed(r) /\ frame'[r] \in ForkFrames /\ frame'[r].pc = "done"
      /\ frame'[r].univ = frame[r].univ /\ frame'[r].tags = frame[r].tags
      /\ frame'[r].paired = frame[r].paired /\ frame'[r].maker = frame[r].maker
  BY <1>1, <1>4, ForkGoes
<1>6. call[r].on \in Codes \ {1} /\ call[r].on # 0
  BY <1>1, <1>4 DEF NumberOK, Making
<1>7. /\ call'[r].route = "fork" /\ call'[r].on = call[r].on
      /\ call'[r].user = call[r].user /\ Codes' = Codes
  BY <1>1, <1>3 DEF Called, Codes
<1>8. NumberOK(r)'
  BY <1>1, <1>4, <1>5, <1>7 DEF NumberOK
<1>9. AllFilled(r)'
  BY <1>1, <1>5 DEF AllFilled, Univ
<1>10. ForkOK(r)'
  BY <1>1, <1>4, <1>5, <1>7, <1>9 DEF ForkOK
<1>11. RequestOK(r)' /\ SameIds(r) /\ Univs(r)' = Univs(r)
  BY <1>1, <1>5, <1>7, <1>8, <1>10, ForkRequest
<1>12. StrategyTables' /\ TablesGrow(r)
  BY <1>1, <1>3, <1>6, <1>7 DEF StrategyInv, StrategyTables, TablesGrow
<1>13. OthersStay(r)
  BY <1>3, <1>5 DEF Called, OthersStay
<1>14. NumbersKept(r)
  BY <1>1, <1>3, <1>7 DEF NumbersKept, Making, Open
<1>15. IdsKept(r)
  <2>1. \A i, j \in DOMAIN Univs(r) :
          Univs(r)[i].id # 0 /\ Univs(r)[i].id = Univs(r)[j].id => i = j
    BY DEF StrategyInv, IdsApart
  <2> QED
    BY <1>1, <1>11, <2>1 DEF IdsKept
<1> QED
  BY <1>11, <1>12, <1>13, <1>14, <1>15, AdvanceKeeps DEF Advances

-----------------------------------------------------------------------------
(* softDeleteMyStrategyById, and a call that raises                          *)

LEMMA DeleteFindKeeps ==
  ASSUME StrategyInv, NEW r \in Requests, DeleteFind(r)
  PROVE  StrategyInv'
<1>1. call[r].route = "delete" /\ UNCHANGED strategyVars /\ Shape
  BY DEF DeleteFind, At, StrategyInv
<1>2. \/ Go(r, "remove") /\ call' = call
      \/ Throw(r, "EntityNotFoundError") /\ Leave(r)
  BY DEF DeleteFind
<1>3. Called(r)
  BY <1>1, <1>2, SameCalled, ThrowCalled
<1>4. Framed(r)
  <2>1. CASE Leave(r)
    BY <1>1, <2>1, FrameSet DEF Leave
  <2> QED
    BY <1>1, <1>2, <2>1, GoesTo
<1> QED
  BY <1>1, <1>3, <1>4, ElsewhereKeeps DEF Elsewhere, Called, OthersStay

LEMMA RowSet ==
  ASSUME NEW s \in Seq(Rows), NEW c \in DOMAIN s, NEW y \in Rows, NEW t,
         t = [s EXCEPT ![c] = y]
  PROVE  /\ t \in Seq(Rows) /\ DOMAIN t = DOMAIN s /\ t[c] = y
         /\ \A d \in DOMAIN s \ {c} : t[d] = s[d]
OBVIOUS

LEMMA LiveCleared ==
  ASSUME StrategyInv, NEW c, strategy' = [strategy EXCEPT ![c].live = FALSE]
  PROVE  /\ strategy' \in Seq(Rows) /\ Codes' = Codes
         /\ \A d \in Codes : strategy'[d].maker = strategy[d].maker
<1>1. strategy \in Seq(Rows)
  BY DEF StrategyInv, StrategyTables
<1>2. CASE c \notin Codes
  <2>1. strategy' = strategy
    BY <1>1, <1>2 DEF Codes
  <2> QED
    BY <1>1, <2>1 DEF Codes
<1>3. CASE c \in Codes
  <2>1. PICK x \in Rows : x = strategy[c]
    BY <1>1, <1>3 DEF Codes
  <2> DEFINE y == [x EXCEPT !.live = FALSE]
  <2>2. y \in Rows /\ y.maker = x.maker
    BY DEF Rows
  <2>3. strategy' = [strategy EXCEPT ![c] = y]
    BY <2>1, Zenon
  <2> HIDE DEF y
  <2>4. /\ strategy' \in Seq(Rows) /\ DOMAIN strategy' = DOMAIN strategy
        /\ strategy'[c] = y /\ \A d \in DOMAIN strategy \ {c} : strategy'[d] = strategy[d]
    <3>1. strategy \in Seq(Rows) /\ c \in DOMAIN strategy /\ y \in Rows
      BY <1>1, <1>3, <2>2 DEF Codes
    <3>2. PICK t : t = strategy'
      OBVIOUS
    <3>3. t = [strategy EXCEPT ![c] = y]
      BY <2>3, <3>2, Zenon
    <3>4. /\ t \in Seq(Rows) /\ DOMAIN t = DOMAIN strategy /\ t[c] = y
          /\ \A d \in DOMAIN strategy \ {c} : t[d] = strategy[d]
      BY <3>1, <3>3, RowSet
    <3> QED
      BY <3>2, <3>4, Zenon
  <2> QED
    BY <2>1, <2>2, <2>4 DEF Codes
<1> QED
  BY <1>2, <1>3

LEMMA DeleteRowKeeps ==
  ASSUME StrategyInv, NEW r \in Requests, DeleteRow(r)
  PROVE  StrategyInv'
<1>1. /\ call[r].route = "delete" /\ AnswerOk(r) /\ Shape
      /\ strategy' = [strategy EXCEPT ![call[r].on].live = FALSE]
      /\ UNCHANGED <<invest, universal, hash, hashList, pushed, shared>>
  BY DEF DeleteRow, At, StrategyInv
<1>2. Called(r)
  BY <1>1, OkCalled
<1>3. Framed(r)
  <2>1. frame' = [frame EXCEPT ![r] = NoFrame]
    BY DEF DeleteRow, Leave
  <2> QED
    BY <1>1, <2>1, FrameSet
<1>4. /\ strategy' \in Seq(Rows) /\ Codes' = Codes
      /\ \A d \in Codes : strategy'[d].maker = strategy[d].maker
  BY <1>1, LiveCleared
<1>5. StrategyTables' /\ TablesGrow(r)
  BY <1>1, <1>4 DEF StrategyInv, StrategyTables, TablesGrow
<1> QED
  BY <1>1, <1>2, <1>3, <1>4, <1>5, ElsewhereGrows DEF Elsewhere, Called, OthersStay

LEMMA StrategyRaisesKeeps ==
  ASSUME StrategyInv, NEW r \in Requests, StrategyRaises(r)
  PROVE  StrategyInv'
<1>1. /\ call[r].route \in {"create", "fork", "delete"} /\ call[r].status = Open
      /\ frame[r].pc \in {"row", "info", "source", "find", "remove"}
      /\ Throw(r, "QueryFailedError") /\ Go(r, "failed") /\ UNCHANGED strategyVars
      /\ Shape
  BY DEF StrategyRaises, At, StrategyInv
<1>2. Called(r) /\ call'[r].status # "ok"
  BY <1>1, ThrowCalled
<1>3. Framed(r) /\ frame'[r] = [frame[r] EXCEPT !.pc = "failed"]
  BY <1>1, GoesTo
<1>4. /\ Codes' = Codes /\ strategy' = strategy /\ universal' = universal
      /\ hash' = hash /\ hashList' = hashList /\ invest' = invest
  BY <1>1 DEF strategyVars, Codes
<1>5. /\ call'[r].route = call[r].route /\ call'[r].on = call[r].on
      /\ call'[r].user = call[r].user
  BY <1>2 DEF Called
<1>6. CASE call[r].route = "delete"
  BY <1>1, <1>2, <1>3, <1>6, ElsewhereKeeps DEF Elsewhere, Called, OthersStay
<1>7. CASE call[r].route = "create"
  <2>1. /\ NumberOK(r) /\ call[r].user \in Emails /\ frame[r] \in CreateFrames
        /\ \A i \in DOMAIN frame[r].parts : TagOK(r, i)
        /\ \A h \in DOMAIN hash : <<h, call[r].on>> \in hashList =>
             \E i \in Part(r, "paired") : frame[r].parts[i].hash = h
    BY <1>1, <1>7, Creating
  <2>2. /\ frame'[r] \in CreateFrames /\ frame'[r].pc = "failed"
        /\ frame'[r].parts = frame[r].parts
    BY <1>1, <2>1, CreateGoes
  <2>3. NumberOK(r)'
    BY <1>2, <1>4, <1>5, <1>7, <2>1, <2>2 DEF NumberOK, Making
  <2>4. \A i \in DOMAIN frame'[r].parts : TagOK(r, i)'
    BY <1>4, <1>5, <2>1, <2>2 DEF TagOK
  <2>5. Part(r, "paired")' = Part(r, "paired")
    BY <2>2 DEF Part
  <2>6. CreateOK(r)'
    BY <1>4, <1>5, <2>1, <2>2, <2>4, <2>5 DEF CreateOK
  <2>7. RequestOK(r)' /\ SameIds(r)
    BY <1>5, <1>7, <2>3, <2>6, CreateRequest
  <2> QED
    BY <1>1, <1>2, <1>3, <2>7, RestKeeps DEF Open
<1>8. CASE call[r].route = "fork"
  <2>1. /\ NumberOK(r) /\ call[r].user \in Emails /\ frame[r] \in ForkFrames
        /\ frame[r].paired \subseteq frame[r].tags
        /\ frame[r].tags \subseteq DOMAIN hash
        /\ call[r].on # 0 =>
             /\ strategy[call[r].on].maker = frame[r].maker
             /\ \A g \in DOMAIN hash :
                  <<g, call[r].on>> \in hashList <=> g \in frame[r].paired
    BY <1>1, <1>8, Forking
  <2>2. /\ frame'[r] \in ForkFrames /\ frame'[r].pc = "failed"
        /\ frame'[r].univ = frame[r].univ /\ frame'[r].tags = frame[r].tags
        /\ frame'[r].paired = frame[r].paired /\ frame'[r].maker = frame[r].maker
    BY <1>1, <2>1, ForkGoes
  <2>3. NumberOK(r)'
    BY <1>2, <1>4, <1>5, <1>8, <2>1, <2>2 DEF NumberOK, Making
  <2>4. ForkOK(r)'
    BY <1>4, <1>5, <2>1, <2>2 DEF ForkOK
  <2>5. RequestOK(r)' /\ SameIds(r)
    BY <1>1, <1>4, <1>5, <1>8, <2>2, <2>3, <2>4, ForkRequest
  <2> QED
    BY <1>1, <1>2, <1>3, <2>5, RestKeeps DEF Open
<1> QED
  BY <1>1, <1>6, <1>7, <1>8

LEMMA DeleteKeeps ==
  ASSUME StrategyInv, NEW r \in Requests, NEW token, NEW c, Delete(r, token, c)
  PROVE  StrategyInv'
<1>1. Arrive(r, "delete", token, {"Any"}, c, [pc |-> "find"]) /\ UNCHANGED strategyVars
  BY DEF Delete
<1>2. OthersStay(r) /\ call'[r].route = "delete"
  BY <1>1, Arrives DEF OthersStay, StrategyInv
<1>3. call[r] = Unused
  BY <1>1 DEF Arrive
<1> QED
  BY <1>1, <1>2, <1>3, ElsewhereKeeps DEF Elsewhere

LEMMA StrategyKeeps ==
  ASSUME StrategyInv, NEW r \in Requests, StrategyStep(r)
  PROVE  StrategyInv'
<1>1. CASE \E t \in Emails \union {None} :
             \/ \E tags \in TagLists : Create(r, t, tags)
             \/ \E c \in Codes : Fork(r, t, c) \/ Delete(r, t, c)
             \/ \E c \in Codes, ticker \in Tickers, s \in Settings :
                  Add(r, t, c, ticker, s)
  BY <1>1, CreateKeeps, ForkKeeps, DeleteKeeps, AddKeeps
<1>2. CASE CreateRow(r) \/ CreateInfo(r) \/ CreateAnswers(r)
  BY <1>2, CreateRowKeeps, CreateInfoKeeps, CreateAnswersKeeps
<1>3. CASE ForkReads(r) \/ ForkRow(r) \/ ForkInfo(r) \/ ForkAnswers(r)
  BY <1>3, ForkReadsKeeps, ForkRowKeeps, ForkInfoKeeps, ForkAnswersKeeps
<1>4. CASE \/ DeleteFind(r) \/ DeleteRow(r)
           \/ AddAnswers(r) \/ StrategyRaises(r)
  BY <1>4, DeleteFindKeeps, DeleteRowKeeps, AddAnswersKeeps, StrategyRaisesKeeps
<1>5. CASE \E i \in DOMAIN frame[r].parts :
             \/ FindTag(r, i) \/ InsertTag(r, i)
             \/ PairSelect(r, i) \/ PairInsert(r, i)
             \/ TagPartRaises(r, i)
  BY <1>5, FindTagKeeps, InsertTagKeeps, PairSelectKeeps, PairInsertKeeps,
     TagPartRaisesKeeps
<1>6. CASE \E i \in DOMAIN frame[r].univ :
             \/ CheckMine(r, i) \/ InsertUniversal(r, i) \/ FillUniversal(r, i)
             \/ UniversalPartRaises(r, i)
  BY <1>6, CheckMineKeeps, InsertUniversalKeeps, FillUniversalKeeps,
     UniversalPartRaisesKeeps
<1>7. CASE \E h \in frame[r].tags : ForkTag(r, h) \/ ForkTagRaises(r, h)
  BY <1>7, ForkTagKeeps, ForkTagRaisesKeeps
<1> QED
  BY <1>1, <1>2, <1>3, <1>4, <1>5, <1>6, <1>7 DEF StrategyStep

-----------------------------------------------------------------------------
(* Every step keeps the invariant                                            *)

LEMMA StrategyStays ==
  ASSUME StrategyInv, call' = call, frame' = frame, UNCHANGED strategyVars
  PROVE  StrategyInv'
<1>1. /\ strategy' = strategy /\ invest' = invest /\ universal' = universal
      /\ hash' = hash /\ hashList' = hashList /\ pushed' = pushed
      /\ shared' = shared
  BY DEF strategyVars
<1>2. Codes' = Codes /\ \A r \in Requests : Univs(r)' = Univs(r)
  BY <1>1 DEF Codes, Univs
<1>3. Shape'
  BY DEF StrategyInv, Shape
<1>4. StrategyTables'
  BY <1>1, <1>2 DEF StrategyInv, StrategyTables
<1>5. ASSUME NEW r \in Requests
      PROVE  RequestOK(r)'
  <2>1. RequestOK(r)
    BY DEF StrategyInv
  <2>2. NumberOK(r)'
    BY <1>1, <1>2, <2>1 DEF RequestOK, NumberOK
  <2>3. CreateOK(r)'
    <3>1. \A i : TagOK(r, i)' = TagOK(r, i)
      BY <1>1 DEF TagOK
    <3>2. AllPaired(r)' = AllPaired(r) /\ Part(r, "paired")' = Part(r, "paired")
      BY DEF AllPaired, Part
    <3> QED
      BY <1>1, <2>1, <3>1, <3>2 DEF RequestOK, CreateOK, Refused
  <2>4. UnivOK(r)'
    BY <1>1, <1>2, <2>1 DEF RequestOK, UnivOK
  <2>5. AllFilled(r)' = AllFilled(r)
    BY DEF AllFilled, Univ
  <2>6. AddOK(r)'
    BY <1>2, <2>1, <2>5 DEF RequestOK, AddOK, Refused
  <2>7. ForkOK(r)'
    BY <1>1, <2>1, <2>5 DEF RequestOK, ForkOK, Refused
  <2> QED
    BY <2>2, <2>3, <2>4, <2>6, <2>7 DEF RequestOK
<1>6. CodesApart' /\ BareAreMade' /\ PushedAreForks'
  BY <1>1, <1>2 DEF StrategyInv, CodesApart, BareAreMade, PushedAreForks
<1>7. IdsApart' /\ RowsAdded'
  BY <1>1, <1>2 DEF StrategyInv, IdsApart, RowsAdded
<1> QED
  BY <1>3, <1>4, <1>5, <1>6, <1>7 DEF StrategyInv

LEMMA StrategyNext == StrategyInv /\ [Next]_vars => StrategyInv'
<1> SUFFICES ASSUME StrategyInv, [Next]_vars PROVE StrategyInv'
  OBVIOUS
<1> DEFINE W == {"create", "add", "fork"}
<1>0. Shape
  BY DEF StrategyInv
<1>1. ASSUME NEW r \in Requests, Outside(r, W), UNCHANGED strategyVars
      PROVE  StrategyInv'
  BY <1>1, ElsewhereKeeps DEF Outside, OthersStay, Elsewhere
<1>2. ASSUME NEW r \in Requests, Foreign(r, W), Framed(r), UNCHANGED strategyVars
      PROVE  StrategyInv'
  BY <1>1, <1>2 DEF Outside, Foreign
<1>3. ASSUME NEW r \in Requests, MemberStep(r), UNCHANGED strategyVars
      PROVE  StrategyInv'
  BY <1>0, <1>1, <1>3, MemberOutside
<1>4. ASSUME NEW r \in Requests, FeedStep(r)
      PROVE  StrategyInv'
  <2>1. UNCHANGED strategyVars
    BY <1>4 DEF FeedStep, Browse, ReadPage, Search, SearchCodes, SearchRows, SearchKept
  <2> QED
    BY <1>0, <1>2, <1>4, <2>1, FeedOutside
<1>5. ASSUME NEW r \in Requests, UploadStep(r), UNCHANGED strategyVars
      PROVE  StrategyInv'
  BY <1>0, <1>2, <1>5, UploadOutside
<1>6. CASE Tick /\ UNCHANGED strategyVars
  BY <1>6, StrategyStays DEF Tick, gatewayVars
<1>7. CASE UNCHANGED vars
  BY <1>7, StrategyStays DEF vars, gatewayVars
<1> QED
  BY <1>3, <1>4, <1>5, <1>6, <1>7, StrategyKeeps DEF Next, Step

LEMMA StrategiesAreKept == Spec => []StrategyInv
BY StrategyInvInit, StrategyNext, PTL DEF Spec

(* The row of a ticker that was added: who added it, and from what.          *)
LEMMA AddedBy ==
  ASSUME StrategyInv, NEW u \in DOMAIN universal \ {1}
  PROVE  \E r \in Requests : \E i \in DOMAIN frame[r].univ :
           /\ call[r].route \in Adding /\ frame[r].pc # "none"
           /\ universal[u].code = call[r].on
           /\ frame[r].univ[i].id = u
           /\ universal[u].ticker = frame[r].univ[i].ticker
           /\ universal[u].setting \in {None, frame[r].univ[i].setting}
           /\ frame[r].univ[i].pc = "filled" =>
                universal[u].setting = frame[r].univ[i].setting
<1>1. PICK r \in Requests : \E i \in DOMAIN Univs(r) : Univs(r)[i].id = u
  BY DEF StrategyInv, RowsAdded
<1>2. PICK i \in DOMAIN Univs(r) : Univs(r)[i].id = u
  BY <1>1
<1>3. /\ call[r].route \in Adding /\ frame[r].pc # "none"
      /\ Univs(r) = frame[r].univ
  BY <1>2 DEF Univs
<1>4. u # 0
  BY DEF StrategyInv, StrategyTables
<1>5. UnivOK(r)
  BY DEF StrategyInv, RequestOK
<1> QED
  BY <1>2, <1>3, <1>4, <1>5 DEF UnivOK

(* A fork copies its source (StrategyService.forkStrategy and the private    *)
(* methods it calls): the copy holds nothing but what was read of the        *)
(* source, and holds all of it once it is answered or to be backtested, what *)
(* ever other requests write to the same tables meanwhile.                   *)
THEOREM ForksCopyTheirSource == Spec => []ForkCopiesItsSource
<1>1. StrategyInv => ForkCopiesItsSource
  <2> SUFFICES ASSUME StrategyInv, NEW r \in Requests,
                      call[r].route = "fork", call[r].on # 0
               PROVE  LET c == call[r].on
                          added == {q \in Requests : call[q].route = "add" /\ call[q].on = c}
                          CopyOf(u, i) ==
                            /\ frame[r].univ[i].id = u
                            /\ universal[u].ticker = frame[r].univ[i].ticker
                            /\ universal[u].setting \in {None, frame[r].univ[i].setting}
                      IN /\ strategy[c].maker = frame[r].maker
                         /\ added = {} => \A u \in UniversalsOf(c) :
                                            \E i \in DOMAIN frame[r].univ : CopyOf(u, i)
                         /\ Answered(r, "fork") \/ c \in pushed =>
                              /\ c \in invest
                              /\ TagsOf(c) = frame[r].tags
                              /\ \A i \in DOMAIN frame[r].univ :
                                   \E u \in UniversalsOf(c) :
                                     /\ CopyOf(u, i)
                                     /\ universal[u].setting = frame[r].univ[i].setting
    BY DEF ForkCopiesItsSource
  <2> DEFINE c == call[r].on
             CopyOf(u, i) == /\ frame[r].univ[i].id = u
                             /\ universal[u].ticker = frame[r].univ[i].ticker
                             /\ universal[u].setting \in {None, frame[r].univ[i].setting}
  <2>1. NumberOK(r) /\ frame[r].pc # "none" /\ c \in Codes \ {1}
    BY DEF StrategyInv, RequestOK, NumberOK, Making
  <2>2. /\ UnivOK(r) /\ Univs(r) = frame[r].univ
        /\ strategy[c].maker = frame[r].maker
        /\ \A h \in DOMAIN hash : <<h, c>> \in hashList <=> h \in frame[r].paired
        /\ frame[r].paired \subseteq frame[r].tags
        /\ frame[r].tags \subseteq DOMAIN hash
        /\ frame[r].pc = "done" => AllFilled(r) /\ frame[r].tags = frame[r].paired
    BY <2>1, Forking
  <2>3. ASSUME \A q \in Requests : ~(call[q].route = "add" /\ call[q].on = c),
               NEW u \in UniversalsOf(c)
        PROVE  \E i \in DOMAIN frame[r].univ : CopyOf(u, i)
    <3>1. u \in DOMAIN universal \ {1} /\ universal[u].code = c
      BY <2>1, <2>3 DEF UniversalsOf, StrategyInv, StrategyTables
    <3>2. PICK q \in Requests : \E i \in DOMAIN frame[q].univ :
            /\ call[q].route \in Adding /\ frame[q].pc # "none"
            /\ universal[u].code = call[q].on
            /\ frame[q].univ[i].id = u
            /\ universal[u].ticker = frame[q].univ[i].ticker
            /\ universal[u].setting \in {None, frame[q].univ[i].setting}
      BY <3>1, AddedBy
    <3>3. call[q].route = "fork" /\ call[q].on = c
      BY <2>3, <3>1, <3>2 DEF Adding
    <3>4. q = r
      BY <3>3 DEF StrategyInv, CodesApart, Making
    <3> QED
      BY <3>2, <3>4
  <2>4. ASSUME Answered(r, "fork") \/ c \in pushed
        PROVE  frame[r].pc = "done" /\ c \in invest
    <3>1. call[r].status = "ok"
      <4>1. CASE c \in pushed
        <5>1. PICK q \in Requests : /\ call[q].route = "fork" /\ call[q].on = c
                                    /\ call[q].status = "ok"
          BY <4>1 DEF StrategyInv, PushedAreForks
        <5>2. q = r
          BY <5>1 DEF StrategyInv, CodesApart, Making
        <5> QED
          BY <5>1, <5>2
      <4> QED
        BY <2>4, <4>1 DEF Answered
    <3> QED
      BY <2>1, <3>1 DEF NumberOK, Making
  <2>5. ASSUME Answered(r, "fork") \/ c \in pushed
        PROVE  TagsOf(c) = frame[r].tags
    BY <2>2, <2>4, <2>5 DEF TagsOf
  <2>6. ASSUME Answered(r, "fork") \/ c \in pushed, NEW i \in DOMAIN frame[r].univ
        PROVE  \E u \in UniversalsOf(c) :
                 /\ CopyOf(u, i)
                 /\ universal[u].setting = frame[r].univ[i].setting
    <3>1. frame[r].univ[i].pc = "filled"
      BY <2>2, <2>4, <2>6 DEF AllFilled, Univ
    <3> DEFINE u == frame[r].univ[i].id
    <3>2. /\ u \in DOMAIN universal /\ universal[u].code = c
          /\ universal[u].ticker = frame[r].univ[i].ticker
          /\ universal[u].setting = frame[r].univ[i].setting
      BY <2>2, <3>1 DEF UnivOK
    <3>3. u \in UniversalsOf(c) /\ CopyOf(u, i)
      BY <3>2 DEF UniversalsOf
    <3> QED
      BY <3>2, <3>3
  <2>7. \A q \in Requests :
          {x \in Requests : call[x].route = "add" /\ call[x].on = c} = {} =>
            ~(call[q].route = "add" /\ call[q].on = c)
    OBVIOUS
  <2> HIDE DEF CopyOf, c
  <2>8. /\ {x \in Requests : call[x].route = "add" /\ call[x].on = c} = {} =>
             \A u \in UniversalsOf(c) : \E i \in DOMAIN frame[r].univ : CopyOf(u, i)
    BY <2>3, <2>7
  <2>9. Answered(r, "fork") \/ c \in pushed =>
          /\ c \in invest
          /\ TagsOf(c) = frame[r].tags
          /\ \A i \in DOMAIN frame[r].univ :
               \E u \in UniversalsOf(c) :
                 /\ CopyOf(u, i)
                 /\ universal[u].setting = frame[r].univ[i].setting
    BY <2>4, <2>5, <2>6
  <2> QED
    BY <2>2, <2>8, <2>9, Zenon DEF CopyOf, c
<1> QED
  BY <1>1, StrategiesAreKept, PTL

(* What was answered ok is whole (createMyStrategy, addUniversal and         *)
(* forkStrategy of StrategyService): a strategy has the tags it was asked to *)
(* have, one without a principal was not answered ok, and a ticker without   *)
(* settings was not answered ok or is copied from one that had none.         *)
THEOREM WhatIsAnsweredIsWhole == Spec => []AnsweredIsWhole
<1>1. StrategyInv => AnsweredIsWhole
  <2> SUFFICES ASSUME StrategyInv PROVE AnsweredIsWhole
    OBVIOUS
  <2>1. ASSUME NEW r \in Requests, Answered(r, "create")
        PROVE  {hash[h] : h \in TagsOf(call[r].on)} =
                 {frame[r].parts[i].tag : i \in DOMAIN frame[r].parts}
    <3>1. call[r].route = "create" /\ call[r].status = "ok"
      BY <2>1 DEF Answered
    <3>2. frame[r].pc = "done"
      BY <3>1 DEF StrategyInv, RequestOK, NumberOK, Making
    <3>3. /\ AllPaired(r) /\ \A i \in DOMAIN frame[r].parts : TagOK(r, i)
          /\ \A h \in DOMAIN hash : <<h, call[r].on>> \in hashList =>
               \E i \in Part(r, "paired") : frame[r].parts[i].hash = h
      BY <3>1, <3>2, Creating
    <3>4. \A i \in DOMAIN frame[r].parts :
            /\ frame[r].parts[i].hash \in TagsOf(call[r].on)
            /\ hash[frame[r].parts[i].hash] = frame[r].parts[i].tag
      BY <3>3 DEF TagOK, TagsOf, AllPaired, Part
    <3>5. \A h \in TagsOf(call[r].on) :
            \E i \in DOMAIN frame[r].parts : frame[r].parts[i].hash = h
      BY <3>3 DEF TagsOf, Part
    <3> QED
      BY <3>4, <3>5
  <2>2. ASSUME NEW c \in Codes \ invest
        PROVE  \E r \in Requests : /\ call[r].route \in {"create", "fork"}
                                  /\ call[r].on = c /\ call[r].status # "ok"
    <3>1. PICK r \in Requests : call[r].route \in Making /\ call[r].on = c
      BY DEF StrategyInv, BareAreMade
    <3>2. NumberOK(r)
      BY DEF StrategyInv, RequestOK
    <3> QED
      BY <3>1, <3>2 DEF NumberOK, Making
  <2>3. ASSUME NEW u \in DOMAIN universal, universal[u].setting = None
        PROVE  \E r \in Requests :
                 /\ call[r].route \in {"add", "fork"}
                 /\ call[r].on = universal[u].code
                 /\ \/ call[r].status # "ok"
                    \/ /\ call[r].route = "fork"
                       /\ \E i \in DOMAIN frame[r].univ : frame[r].univ[i].setting = None
    <3>1. u # 1
      BY <2>3 DEF StrategyInv, StrategyTables
    <3>2. PICK r \in Requests : \E i \in DOMAIN frame[r].univ :
            /\ call[r].route \in Adding /\ frame[r].pc # "none"
            /\ universal[u].code = call[r].on
            /\ frame[r].univ[i].pc = "filled" =>
                 universal[u].setting = frame[r].univ[i].setting
      BY <3>1, AddedBy
    <3>3. PICK i \in DOMAIN frame[r].univ :
            /\ call[r].route \in Adding /\ frame[r].pc # "none"
            /\ universal[u].code = call[r].on
            /\ frame[r].univ[i].pc = "filled" =>
                 universal[u].setting = frame[r].univ[i].setting
      BY <3>2
    <3>4. CASE call[r].status = "ok" /\ call[r].route = "add"
      <4>1. AllFilled(r) /\ frame[r].univ[i].setting \in Settings
        BY <3>3, <3>4, AddingOne
      <4>2. frame[r].univ[i].pc = "filled"
        BY <4>1 DEF AllFilled, Univ
      <4> QED
        BY <2>3, <3>3, <4>1, <4>2, StrategyAssumption
    <3>5. CASE call[r].status = "ok" /\ call[r].route = "fork"
      <4>1. frame[r].pc = "done"
        BY <3>5 DEF StrategyInv, RequestOK, NumberOK, Making
      <4>2. AllFilled(r)
        BY <3>5, <4>1, Forking
      <4>3. frame[r].univ[i].pc = "filled"
        BY <4>2 DEF AllFilled, Univ
      <4> QED
        BY <2>3, <3>3, <3>5, <4>3
    <3>6. CASE call[r].status # "ok"
      BY <3>3, <3>6 DEF Adding
    <3> QED
      BY <3>3, <3>4, <3>5, <3>6 DEF Adding
  <2> QED
    BY <2>1, <2>2, <2>3 DEF AnsweredIsWhole
<1> QED
  BY <1>1, StrategiesAreKept, PTL

-----------------------------------------------------------------------------
(* Tags.  Two parts that look a tag up, or are to insert it, are of a tag    *)
(* that is shared; and a part that is to insert a tag that is not shared     *)
(* knows that there is no row of it.                                         *)

Seeks(r, i) == InTags(r) /\ i \in Part(r, "find") \union Part(r, "insert")
Inserts(r, i) == InTags(r) /\ i \in Part(r, "insert")

SeekersApart ==
  \A r, q \in Requests : \A i, j :
    /\ Seeks(r, i) /\ Seeks(q, j)
    /\ frame[r].parts[i].tag = frame[q].parts[j].tag
    /\ frame[r].parts[i].tag \notin shared
    => r = q /\ i = j
InsertsAreNew ==
  \A r \in Requests : \A i :
    Inserts(r, i) /\ frame[r].parts[i].tag \notin shared =>
      \A h \in DOMAIN hash : hash[h] # frame[r].parts[i].tag

TagsInv == StrategyInv /\ SeekersApart /\ InsertsAreNew /\ TagsDoubleByOverlap

LEMMA TagsInvInit == Init => TagsInv
<1> SUFFICES ASSUME Init PROVE TagsInv
  OBVIOUS
<1>1. \A r \in Requests : call[r].route = None
  BY DEF Init, GatewayInit, Unused
<1>2. \A r \in Requests : ~InTags(r)
  BY <1>1, StrategyAssumption DEF InTags
<1>3. SeekersApart /\ InsertsAreNew
  BY <1>2 DEF SeekersApart, InsertsAreNew, Seeks, Inserts
<1>4. DOMAIN hash = {1}
  BY DEF Init, StrategyInit
<1>5. TagsDoubleByOverlap
  BY <1>4 DEF TagsDoubleByOverlap
<1> QED
  BY <1>3, <1>5, StrategyInvInit DEF TagsInv

(* A step that does not leave the request among the tags.                    *)
LEMMA NoTagKeeps ==
  ASSUME TagsInv, NEW r \in Requests, OthersStay(r), ~InTags(r)',
         hash' = hash, shared' = shared
  PROVE  SeekersApart' /\ InsertsAreNew' /\ TagsDoubleByOverlap'
<1>1. \A q \in Requests \ {r} : call'[q] = call[q] /\ frame'[q] = frame[q]
  BY DEF OthersStay, Framed
<1>2. \A q \in Requests : \A i :
        /\ Seeks(q, i)' => /\ Seeks(q, i)
                           /\ frame'[q].parts[i].tag = frame[q].parts[i].tag
        /\ Inserts(q, i)' => Inserts(q, i)
  BY <1>1 DEF Seeks, Inserts, InTags, Part
<1>3. SeekersApart'
  BY <1>2 DEF TagsInv, SeekersApart
<1>4. InsertsAreNew'
  <2> SUFFICES ASSUME NEW q \in Requests, NEW i, Inserts(q, i)',
                      frame'[q].parts[i].tag \notin shared'
               PROVE  \A h \in DOMAIN hash' : hash'[h] # frame'[q].parts[i].tag
    BY DEF InsertsAreNew
  <2>1. Inserts(q, i) /\ frame'[q].parts[i].tag = frame[q].parts[i].tag
    BY <1>2 DEF Seeks, Inserts
  <2> QED
    BY <2>1 DEF TagsInv, InsertsAreNew
<1>5. TagsDoubleByOverlap'
  BY DEF TagsInv, TagsDoubleByOverlap
<1> QED
  BY <1>3, <1>4, <1>5

(* A step of one part: what the other parts seek stays.                      *)
LEMMA PartSeeks ==
  ASSUME TagsInv, NEW r \in Requests, InTags(r), NEW i \in DOMAIN frame[r].parts,
         NEW pc \in {"insert", "tagged", "pair", "paired", "failed", "lost"},
         NEW h \in Nat, SetPart(r, i, pc, h), Called(r)
  PROVE  /\ \A q \in Requests : \A j : q # r \/ j # i =>
              /\ Seeks(q, j)' <=> Seeks(q, j)
              /\ Inserts(q, j)' <=> Inserts(q, j)
         /\ \A q \in Requests : \A j : Seeks(q, j) =>
              frame'[q].parts[j].tag = frame[q].parts[j].tag
         /\ Seeks(r, i)' => pc = "insert"
<1>1. call[r].route = "create" /\ frame[r].pc = "tags" /\ Shape
  BY DEF InTags, TagsInv, StrategyInv
<1>2. frame[r] \in CreateFrames
  BY <1>1, Creating DEF TagsInv
<1>3. /\ Framed(r) /\ frame'[r].pc = frame[r].pc
      /\ DOMAIN frame'[r].parts = DOMAIN frame[r].parts
      /\ \A j \in DOMAIN frame[r].parts \ {i} :
           frame'[r].parts[j] = frame[r].parts[j]
      /\ frame'[r].parts[i].pc = pc
      /\ frame'[r].parts[i].tag = frame[r].parts[i].tag
  BY <1>1, <1>2, PartMoved
<1>4. \A q \in Requests \ {r} : call'[q] = call[q] /\ frame'[q] = frame[q]
  BY <1>3 DEF Called, Framed
<1>5. ASSUME NEW q \in Requests \ {r}, NEW j
      PROVE  /\ Seeks(q, j)' <=> Seeks(q, j)
             /\ Inserts(q, j)' <=> Inserts(q, j)
             /\ frame'[q].parts[j].tag = frame[q].parts[j].tag
  BY <1>4 DEF Seeks, Inserts, InTags, Part
<1>6. InTags(r)'
  BY <1>1, <1>3 DEF InTags, Called
<1>7. ASSUME NEW j, j # i
      PROVE  /\ Seeks(r, j)' <=> Seeks(r, j)
             /\ Inserts(r, j)' <=> Inserts(r, j)
             /\ Seeks(r, j) => frame'[r].parts[j].tag = frame[r].parts[j].tag
  BY <1>3, <1>6, <1>7 DEF Seeks, Inserts, Part
<1>8. Seeks(r, i)' => pc = "insert"
  BY <1>3 DEF Seeks, Part
<1> QED
  BY <1>3, <1>5, <1>7, <1>8

(* A part that does not write the tag.                                       *)
LEMMA PartSeeksKeeps ==
  ASSUME TagsInv, NEW r \in Requests, InTags(r), NEW i \in DOMAIN frame[r].parts,
         NEW pc \in {"insert", "tagged", "pair", "paired", "failed", "lost"},
         NEW h \in Nat, SetPart(r, i, pc, h), Called(r),
         hash' = hash, shared' = shared,
         pc = "insert" =>
           /\ frame[r].parts[i].pc = "find"
           /\ \A g \in DOMAIN hash : hash[g] # frame[r].parts[i].tag
  PROVE  SeekersApart' /\ InsertsAreNew' /\ TagsDoubleByOverlap'
<1>1. /\ \A q \in Requests : \A j : q # r \/ j # i =>
           /\ Seeks(q, j)' <=> Seeks(q, j)
           /\ Inserts(q, j)' <=> Inserts(q, j)
      /\ \A q \in Requests : \A j : Seeks(q, j) =>
           frame'[q].parts[j].tag = frame[q].parts[j].tag
      /\ Seeks(r, i)' => pc = "insert"
  BY PartSeeks
<1>2. Seeks(r, i)' => Seeks(r, i)
  BY <1>1 DEF Seeks, Part
<1>3. \A q \in Requests : \A j : Seeks(q, j)' =>
        /\ Seeks(q, j)
        /\ frame'[q].parts[j].tag = frame[q].parts[j].tag
  BY <1>1, <1>2
<1>4. SeekersApart'
  BY <1>3 DEF TagsInv, SeekersApart
<1>5. InsertsAreNew'
  <2> SUFFICES ASSUME NEW q \in Requests, NEW j, Inserts(q, j)',
                      frame'[q].parts[j].tag \notin shared'
               PROVE  \A g \in DOMAIN hash : hash[g] # frame'[q].parts[j].tag
    BY DEF InsertsAreNew
  <2>1. Seeks(q, j)'
    BY DEF Seeks, Inserts
  <2>2. frame'[q].parts[j].tag = frame[q].parts[j].tag
    BY <1>3, <2>1
  <2>3. CASE q = r /\ j = i
    BY <1>1, <2>1, <2>2, <2>3
  <2>4. CASE q # r \/ j # i
    <3>1. Inserts(q, j)
      BY <1>1, <2>4
    <3> QED
      BY <2>2, <3>1 DEF TagsInv, InsertsAreNew
  <2> QED
    BY <2>3, <2>4
<1>6. TagsDoubleByOverlap'
  BY DEF TagsInv, TagsDoubleByOverlap
<1> QED
  BY <1>4, <1>5, <1>6

LEMMA FindTagSeeks ==
  ASSUME TagsInv, NEW r \in Requests, NEW i, FindTag(r, i)
  PROVE  SeekersApart' /\ InsertsAreNew' /\ TagsDoubleByOverlap'
<1>1. /\ InTags(r) /\ i \in DOMAIN frame[r].parts /\ frame[r].parts[i].pc = "find"
      /\ call' = call /\ hash' = hash /\ shared' = shared
  BY DEF FindTag, Part, strategyVars
<1>2. Called(r)
  BY <1>1, SameCalled DEF TagsInv, StrategyInv
<1> DEFINE found == {h \in DOMAIN hash : hash[h] = frame[r].parts[i].tag}
<1>3. \/ found = {} /\ SetPart(r, i, "insert", 0)
      \/ \E h \in found : SetPart(r, i, "tagged", h)
  BY Zenon DEF FindTag
<1>4. CASE found = {} /\ SetPart(r, i, "insert", 0)
  <2>1. \A g \in DOMAIN hash : hash[g] # frame[r].parts[i].tag
    BY <1>4
  <2> QED
    BY <1>1, <1>2, <1>4, <2>1, PartSeeksKeeps
<1>5. ASSUME NEW h \in found, SetPart(r, i, "tagged", h)
      PROVE  SeekersApart' /\ InsertsAreNew' /\ TagsDoubleByOverlap'
  <2>1. h \in Nat
    BY <1>5, Numbers DEF TagsInv
  <2> QED
    BY <1>1, <1>2, <1>5, <2>1, PartSeeksKeeps
<1> QED
  BY <1>3, <1>4, <1>5

LEMMA InsertTagSeeks ==
  ASSUME TagsInv, NEW r \in Requests, NEW i, InsertTag(r, i)
  PROVE  SeekersApart' /\ InsertsAreNew' /\ TagsDoubleByOverlap'
<1> DEFINE tag == frame[r].parts[i].tag
           n   == Len(hash) + 1
<1>1. /\ InTags(r) /\ i \in DOMAIN frame[r].parts /\ frame[r].parts[i].pc = "insert"
      /\ call' = call /\ hash' = Append(hash, tag) /\ SetPart(r, i, "tagged", n)
      /\ shared' = shared
  BY DEF InsertTag, Part
<1>2. Called(r)
  BY <1>1, SameCalled DEF TagsInv, StrategyInv
<1>3. hash \in Seq(Tags)
  BY DEF TagsInv, StrategyInv, StrategyTables
<1>4. n \in Nat
  BY <1>3
<1>5. /\ \A q \in Requests : \A j : q # r \/ j # i =>
           /\ Seeks(q, j)' <=> Seeks(q, j)
           /\ Inserts(q, j)' <=> Inserts(q, j)
      /\ \A q \in Requests : \A j : Seeks(q, j) =>
           frame'[q].parts[j].tag = frame[q].parts[j].tag
      /\ Seeks(r, i)' => "tagged" = "insert"
  BY <1>1, <1>2, <1>4, PartSeeks
<1>6. Inserts(r, i) /\ Seeks(r, i) /\ ~Seeks(r, i)'
  BY <1>1, <1>5 DEF Inserts, Seeks, Part
<1>7. \A q \in Requests : \A j : Seeks(q, j)' =>
        /\ Seeks(q, j) /\ (q # r \/ j # i)
        /\ frame'[q].parts[j].tag = frame[q].parts[j].tag
  BY <1>5, <1>6
<1>8. tag \notin shared => \A h \in DOMAIN hash : hash[h] # tag
  BY <1>6 DEF TagsInv, InsertsAreNew
<1> HIDE DEF tag
<1>9. /\ DOMAIN hash' = DOMAIN hash \union {n} /\ hash'[n] = tag
      /\ \A g \in DOMAIN hash : hash'[g] = hash[g]
  <2>1. tag \in Tags
    <3>1. frame[r] \in CreateFrames
      BY <1>1, Creating DEF InTags, TagsInv
    <3> QED
      BY <1>1, <3>1, PartTyped DEF tag
  <2> QED
    BY <1>1, <1>3, <2>1
<1> HIDE DEF n
<1>10. SeekersApart'
  BY <1>1, <1>7 DEF TagsInv, SeekersApart
<1>11. InsertsAreNew'
  <2> SUFFICES ASSUME NEW q \in Requests, NEW j, Inserts(q, j)',
                      frame'[q].parts[j].tag \notin shared'
               PROVE  \A g \in DOMAIN hash' : hash'[g] # frame'[q].parts[j].tag
    BY DEF InsertsAreNew
  <2>1. Seeks(q, j)'
    BY DEF Seeks, Inserts
  <2>2. /\ Seeks(q, j) /\ (q # r \/ j # i)
        /\ frame'[q].parts[j].tag = frame[q].parts[j].tag
    BY <1>7, <2>1
  <2>3. Inserts(q, j)
    BY <1>5, <2>2
  <2>4. \A g \in DOMAIN hash : hash[g] # frame[q].parts[j].tag
    BY <1>1, <2>2, <2>3 DEF TagsInv, InsertsAreNew
  <2>5. tag # frame[q].parts[j].tag
    BY <1>1, <1>6, <2>2 DEF TagsInv, SeekersApart, tag
  <2> QED
    BY <1>9, <2>2, <2>4, <2>5
<1>12. TagsDoubleByOverlap'
  BY <1>1, <1>8, <1>9 DEF TagsInv, TagsDoubleByOverlap
<1> QED
  BY <1>10, <1>11, <1>12

LEMMA CreateInfoSeeks ==
  ASSUME TagsInv, NEW r \in Requests, CreateInfo(r)
  PROVE  SeekersApart' /\ InsertsAreNew' /\ TagsDoubleByOverlap'
<1>1. /\ call[r].route = "create" /\ frame[r].pc = "info" /\ Shape
      /\ Go(r, "tags") /\ call' = call /\ hash' = hash
  BY DEF CreateInfo, At, TagsInv, StrategyInv
<1>2. shared' = shared \union Repeated(r)
                  \union (Sought(r) \intersect
                            UNION {Sought(q) : q \in {q \in Requests : InTags(q)}})
  BY Zenon DEF CreateInfo
<1>3. /\ frame[r] \in CreateFrames
      /\ \A i \in DOMAIN frame[r].parts : frame[r].parts[i].pc = "find"
  BY <1>1, Creating DEF TagsInv
<1>4. Framed(r) /\ frame'[r].parts = frame[r].parts
  BY <1>1, <1>3, CreateGoes
<1>5. \A q \in Requests \ {r} : call'[q] = call[q] /\ frame'[q] = frame[q]
  BY <1>1, <1>4 DEF Framed
<1>6. \A q \in Requests \ {r} : \A j :
        /\ Seeks(q, j)' => Seeks(q, j) /\ frame'[q].parts[j].tag = frame[q].parts[j].tag
        /\ Inserts(q, j)' => Inserts(q, j)
  BY <1>5 DEF Seeks, Inserts, InTags, Part
<1>7. \A j : ~Inserts(r, j)'
  BY <1>3, <1>4 DEF Inserts, Part
<1>8. \A j : Seeks(r, j)' => j \in DOMAIN frame[r].parts /\ j \in Part(r, "find")
  BY <1>3, <1>4 DEF Seeks, Part
<1>9. \A q \in Requests : \A j : Seeks(q, j) =>
        InTags(q) /\ frame[q].parts[j].tag \in Sought(q)
  BY DEF Seeks, Sought
<1>10. \A j : Seeks(r, j)' => frame[r].parts[j].tag \in Sought(r)
  BY <1>8 DEF Sought
<1>11. ASSUME NEW q \in Requests \ {r}, NEW i, NEW j, Seeks(r, i)', Seeks(q, j)',
              frame'[r].parts[i].tag = frame'[q].parts[j].tag
       PROVE  frame'[r].parts[i].tag \in shared'
  <2>1. InTags(q) /\ frame[q].parts[j].tag \in Sought(q)
    BY <1>6, <1>9, <1>11
  <2>2. frame[r].parts[i].tag \in Sought(r) /\ frame[q].parts[j].tag = frame[r].parts[i].tag
    BY <1>4, <1>6, <1>10, <1>11
  <2>3. frame[r].parts[i].tag \in UNION {Sought(x) : x \in {x \in Requests : InTags(x)}}
    BY <2>1, <2>2
  <2> QED
    BY <1>2, <1>4, <2>2, <2>3
<1>12. ASSUME NEW i, NEW j, Seeks(r, i)', Seeks(r, j)', i # j,
              frame'[r].parts[i].tag = frame'[r].parts[j].tag
       PROVE  frame'[r].parts[i].tag \in shared'
  <2>1. frame[r].parts[i].tag \in Repeated(r)
    BY <1>4, <1>8, <1>12 DEF Repeated
  <2> QED
    BY <1>2, <1>4, <2>1
<1>13. shared \subseteq shared'
  BY <1>2
<1>14. SeekersApart'
  <2> SUFFICES ASSUME NEW p \in Requests, NEW q \in Requests, NEW i, NEW j,
                      Seeks(p, i)', Seeks(q, j)',
                      frame'[p].parts[i].tag = frame'[q].parts[j].tag,
                      frame'[p].parts[i].tag \notin shared'
               PROVE  p = q /\ i = j
    BY DEF SeekersApart
  <2>1. CASE p # r /\ q # r
    BY <1>6, <1>13, <2>1 DEF TagsInv, SeekersApart
  <2>2. CASE p = r /\ q = r
    BY <1>12, <2>2
  <2>3. CASE p = r /\ q # r
    BY <1>11, <2>3
  <2>4. CASE p # r /\ q = r
    BY <1>11, <2>4
  <2> QED
    BY <2>1, <2>2, <2>3, <2>4
<1>15. InsertsAreNew'
  <2> SUFFICES ASSUME NEW q \in Requests, NEW j, Inserts(q, j)',
                      frame'[q].parts[j].tag \notin shared'
               PROVE  \A g \in DOMAIN hash' : hash'[g] # frame'[q].parts[j].tag
    BY DEF InsertsAreNew
  <2>1. q # r
    BY <1>7
  <2>2. Inserts(q, j) /\ frame'[q] = frame[q]
    BY <1>5, <1>6, <2>1
  <2> QED
    BY <1>1, <1>13, <2>2 DEF TagsInv, InsertsAreNew
<1>16. TagsDoubleByOverlap'
  BY <1>1, <1>13 DEF TagsInv, TagsDoubleByOverlap
<1> QED
  BY <1>14, <1>15, <1>16

(* What a step of a strategy's request does to its route.                    *)
LEMMA RouteStays ==
  ASSUME StrategyInv, NEW r \in Requests,
         \/ call' = call \/ AnswerOk(r)
         \/ \E error \in {"EntityNotFoundError", "QueryFailedError", "TypeError"} :
              Throw(r, error)
         \/ \E n : call' = [call EXCEPT ![r].on = n]
  PROVE  call'[r].route = call[r].route
<1>1. Shape
  BY DEF StrategyInv
<1> QED
  BY <1>1, SameCalled, OkCalled, ThrowCalled, OnSet DEF Called

LEMMA ArrivesOutOfTags ==
  ASSUME Shape, NEW r \in Requests, NEW route, NEW token, NEW roles, NEW on,
         NEW f, Arrive(r, route, token, roles, on, f), f.pc # "tags"
  PROVE  OthersStay(r) /\ ~InTags(r)'
<1>1. OthersStay(r) /\ (frame'[r] = f \/ frame'[r] = NoFrame)
  BY Arrives DEF OthersStay
<1> QED
  BY <1>1 DEF InTags, NoFrame

LEMMA OutOfTags ==
  ASSUME StrategyInv, NEW r \in Requests, StrategyStep(r), ~CreateInfo(r),
         ~ \E i \in DOMAIN frame[r].parts :
             \/ FindTag(r, i) \/ InsertTag(r, i)
             \/ PairSelect(r, i) \/ PairInsert(r, i) \/ TagPartRaises(r, i)
  PROVE  ~InTags(r)' /\ hash' = hash /\ shared' = shared
<1>0. Shape
  BY DEF StrategyInv
<1>1. CASE \E t \in Emails \union {None} :
             \/ \E tags \in TagLists : Create(r, t, tags)
             \/ \E c \in Codes : Fork(r, t, c) \/ Delete(r, t, c)
             \/ \E c \in Codes, ticker \in Tickers, s \in Settings :
                  Add(r, t, c, ticker, s)
  <2>1. hash' = hash /\ shared' = shared
    BY <1>1 DEF Create, Fork, Delete, Add, strategyVars
  <2>2. ASSUME NEW t, NEW tags, Create(r, t, tags)
        PROVE  ~InTags(r)'
    BY <1>0, <2>2, ArrivesOutOfTags DEF Create
  <2>3. ASSUME NEW t, NEW c, Fork(r, t, c)
        PROVE  ~InTags(r)'
    BY <1>0, <2>3, ArrivesOutOfTags DEF Fork
  <2>4. ASSUME NEW t, NEW c, Delete(r, t, c)
        PROVE  ~InTags(r)'
    BY <1>0, <2>4, ArrivesOutOfTags DEF Delete
  <2>5. ASSUME NEW t, NEW c, NEW ticker, NEW s, Add(r, t, c, ticker, s)
        PROVE  ~InTags(r)'
    BY <1>0, <2>5, ArrivesOutOfTags DEF Add
  <2> QED
    BY <1>1, <2>1, <2>2, <2>3, <2>4, <2>5
<1>3. CASE CreateRow(r) \/ CreateAnswers(r) \/ StrategyRaises(r)
  <2>1. PICK pc \in {"info", "done", "failed"} : Go(r, pc)
    BY <1>3 DEF CreateRow, CreateAnswers, StrategyRaises
  <2>2. hash' = hash /\ shared' = shared
    BY <1>3 DEF CreateRow, CreateAnswers, StrategyRaises, strategyVars
  <2>3. frame[r].pc # "none"
    BY <1>3 DEF CreateRow, CreateAnswers, StrategyRaises, At
  <2>4. CASE call[r].route = "create"
    <3>1. frame'[r].pc = pc
      BY <1>0, <2>1, <2>3, <2>4, Creating, CreateGoes
    <3> QED
      BY <2>1, <2>2, <3>1 DEF InTags
  <2>5. CASE call[r].route # "create"
    <3>1. StrategyRaises(r)
      BY <1>3, <2>5 DEF CreateRow, CreateAnswers, At
    <3>2. call'[r].route = call[r].route
      BY <3>1, RouteStays DEF StrategyRaises
    <3> QED
      BY <2>2, <2>5, <3>2 DEF InTags
  <2> QED
    BY <2>4, <2>5
<1>4. CASE \/ ForkReads(r) \/ ForkRow(r) \/ ForkInfo(r) \/ ForkAnswers(r)
           \/ DeleteFind(r) \/ DeleteRow(r) \/ AddAnswers(r)
  <2>1. call[r].route # "create"
    BY <1>4 DEF ForkReads, ForkRow, ForkInfo, ForkAnswers, DeleteFind, DeleteRow,
                AddAnswers, At
  <2>2. hash' = hash /\ shared' = shared
    BY <1>4 DEF ForkReads, ForkRow, ForkInfo, ForkAnswers, DeleteFind, DeleteRow,
                AddAnswers, strategyVars
  <2>3. \/ call' = call \/ AnswerOk(r)
        \/ \E error \in {"EntityNotFoundError", "QueryFailedError", "TypeError"} :
             Throw(r, error)
        \/ \E n : call' = [call EXCEPT ![r].on = n]
    BY <1>4 DEF ForkReads, ForkRow, ForkInfo, ForkAnswers, DeleteFind, DeleteRow,
                AddAnswers
  <2> QED
    BY <2>1, <2>2, <2>3, RouteStays DEF InTags
<1>5. CASE \/ \E i \in DOMAIN frame[r].univ :
                \/ CheckMine(r, i) \/ InsertUniversal(r, i) \/ FillUniversal(r, i)
                \/ UniversalPartRaises(r, i)
           \/ \E h \in frame[r].tags : ForkTag(r, h) \/ ForkTagRaises(r, h)
  <2>1. call[r].route # "create"
    BY <1>5 DEF CheckMine, InsertUniversal, FillUniversal, UniversalPartRaises,
                InUniversals, ForkTag, ForkTagRaises, At
  <2>2. hash' = hash /\ shared' = shared
    BY <1>5 DEF CheckMine, InsertUniversal, FillUniversal, UniversalPartRaises,
                ForkTag, ForkTagRaises, strategyVars
  <2>3. \/ call' = call \/ AnswerOk(r)
        \/ \E error \in {"EntityNotFoundError", "QueryFailedError", "TypeError"} :
             Throw(r, error)
        \/ \E n : call' = [call EXCEPT ![r].on = n]
    BY <1>5 DEF CheckMine, InsertUniversal, FillUniversal, UniversalPartRaises,
                Reject, ForkTag, ForkTagRaises
  <2> QED
    BY <2>1, <2>2, <2>3, RouteStays DEF InTags
<1> QED
  BY <1>1, <1>3, <1>4, <1>5, Zenon DEF StrategyStep

LEMMA OthersOfStep ==
  ASSUME Shape, NEW r \in Requests, StrategyStep(r)
  PROVE  OthersStay(r)
BY StrategyForeign DEF Foreign, OthersStay

LEMMA TagsOfStep ==
  ASSUME TagsInv, NEW r \in Requests, StrategyStep(r)
  PROVE  SeekersApart' /\ InsertsAreNew' /\ TagsDoubleByOverlap'
<1>0. Shape /\ OthersStay(r)
  BY OthersOfStep DEF TagsInv, StrategyInv
<1>1. CASE CreateInfo(r)
  BY <1>1, CreateInfoSeeks
<1>2. ASSUME NEW i \in DOMAIN frame[r].parts, FindTag(r, i) \/ InsertTag(r, i)
      PROVE  SeekersApart' /\ InsertsAreNew' /\ TagsDoubleByOverlap'
  BY <1>2, FindTagSeeks, InsertTagSeeks
<1>3. ASSUME NEW i \in DOMAIN frame[r].parts,
             PairSelect(r, i) \/ PairInsert(r, i) \/ TagPartRaises(r, i)
      PROVE  SeekersApart' /\ InsertsAreNew' /\ TagsDoubleByOverlap'
  <2>1. InTags(r) /\ hash' = hash /\ shared' = shared
    BY <1>3 DEF PairSelect, PairInsert, TagPartRaises, strategyVars
  <2>2. Called(r)
    <3>1. call' = call \/ Reject(r, "QueryFailedError")
      BY <1>3 DEF PairSelect, PairInsert, TagPartRaises
    <3> QED
      BY <1>0, <3>1, SameCalled, RejectCalled
  <2>3. frame[r].parts[i].hash \in Nat
    <3>1. frame[r] \in CreateFrames
      BY <2>1, Creating DEF InTags, TagsInv
    <3> QED
      BY <3>1, PartTyped
  <2>4. \/ \E pc \in {"pair", "paired", "failed"} :
             SetPart(r, i, pc, frame[r].parts[i].hash)
        \/ SetPart(r, i, "lost", 0)
    BY <1>3 DEF PairSelect, PairInsert, TagPartRaises
  <2> QED
    BY <2>1, <2>2, <2>3, <2>4, PartSeeksKeeps
<1>4. CASE /\ ~CreateInfo(r)
           /\ ~ \E i \in DOMAIN frame[r].parts :
                  \/ FindTag(r, i) \/ InsertTag(r, i)
                  \/ PairSelect(r, i) \/ PairInsert(r, i) \/ TagPartRaises(r, i)
  <2>1. ~InTags(r)' /\ hash' = hash /\ shared' = shared
    BY <1>4, OutOfTags DEF TagsInv
  <2> QED
    BY <1>0, <2>1, NoTagKeeps
<1> QED
  BY <1>1, <1>2, <1>3, <1>4

LEMMA TagsNext == TagsInv /\ [Next]_vars => TagsInv'
<1> SUFFICES ASSUME TagsInv, [Next]_vars
             PROVE  SeekersApart' /\ InsertsAreNew' /\ TagsDoubleByOverlap'
  BY StrategyNext DEF TagsInv
<1>0. Shape
  BY DEF TagsInv, StrategyInv
<1>1. ASSUME NEW r \in Requests, OthersStay(r), call'[r].route # "create",
             UNCHANGED strategyVars
      PROVE  SeekersApart' /\ InsertsAreNew' /\ TagsDoubleByOverlap'
  BY <1>1, NoTagKeeps DEF InTags, strategyVars
<1>2. ASSUME NEW r \in Requests, Foreign(r, {"create"}), Framed(r),
             UNCHANGED strategyVars
      PROVE  SeekersApart' /\ InsertsAreNew' /\ TagsDoubleByOverlap'
  BY <1>1, <1>2 DEF OthersStay, Foreign
<1>3. ASSUME NEW r \in Requests, MemberStep(r), UNCHANGED strategyVars
      PROVE  SeekersApart' /\ InsertsAreNew' /\ TagsDoubleByOverlap'
  <2>1. Outside(r, {"create"})
    BY <1>0, <1>3, MemberOutside
  <2> QED
    BY <1>1, <1>3, <2>1 DEF Outside, OthersStay
<1>4. ASSUME NEW r \in Requests, FeedStep(r)
      PROVE  SeekersApart' /\ InsertsAreNew' /\ TagsDoubleByOverlap'
  <2>1. UNCHANGED strategyVars
    BY <1>4 DEF FeedStep, Browse, ReadPage, Search, SearchCodes, SearchRows, SearchKept
  <2> QED
    BY <1>0, <1>2, <1>4, <2>1, FeedOutside
<1>5. ASSUME NEW r \in Requests, UploadStep(r), UNCHANGED strategyVars
      PROVE  SeekersApart' /\ InsertsAreNew' /\ TagsDoubleByOverlap'
  BY <1>0, <1>2, <1>5, UploadOutside
<1>6. ASSUME call' = call, frame' = frame, UNCHANGED strategyVars
      PROVE  SeekersApart' /\ InsertsAreNew' /\ TagsDoubleByOverlap'
  <2>1. hash' = hash /\ shared' = shared
    BY <1>6 DEF strategyVars
  <2>2. \A r, i : (Seeks(r, i)' <=> Seeks(r, i)) /\ (Inserts(r, i)' <=> Inserts(r, i))
    BY <1>6 DEF Seeks, Inserts, InTags, Part
  <2> QED
    BY <1>6, <2>1, <2>2 DEF TagsInv, SeekersApart, InsertsAreNew, TagsDoubleByOverlap
<1>7. CASE Tick /\ UNCHANGED strategyVars
  BY <1>6, <1>7 DEF Tick, gatewayVars
<1>8. CASE UNCHANGED vars
  BY <1>6, <1>8 DEF vars, gatewayVars
<1> QED
  BY <1>3, <1>4, <1>5, <1>7, <1>8, TagsOfStep DEF Next, Step

(* A tag has a second row only when two look-ups of it overlapped            *)
(* (StrategyService.__upsertHashTags, whose table has no key to refuse it).  *)
THEOREM TagsDoubleOnlyByOverlap == Spec => []TagsDoubleByOverlap
<1>1. TagsInv => TagsDoubleByOverlap
  BY DEF TagsInv
<1> QED
  BY <1>1, TagsInvInit, TagsNext, PTL DEF Spec

-----------------------------------------------------------------------------
(* Types.  What a step may do to its request's entry, and to the faults.     *)
CallStep(r) ==
  \/ call' = call \/ AnswerOk(r)
  \/ \E error \in DOMAIN StatusOf : Throw(r, error)
  \/ call[r].route # "login" /\ \E n : call' = [call EXCEPT ![r].on = n]
  \/ \E route, token, roles, on, f :
       (route = "login" => on \in Emails) /\ Arrive(r, route, token, roles, on, f)

Faulty == faults' = faults \/ Fault

Callers == \A r \in Requests : /\ call[r].status \in Statuses
                               /\ call[r].user \in Emails \union {None}
                               /\ call[r].route = "login" => call[r].on \in Emails

LEMMA ErrorNames ==
  {"EntityNotFoundError", "PasswordWrongError", "AlreadyExistError",
   "QueryFailedError", "TypeError"} = DOMAIN StatusOf
BY DEF StatusOf

LEMMA CallStepTyped ==
  ASSUME Shape, Callers, tokens \subseteq Emails, NEW r \in Requests, CallStep(r)
  PROVE  Callers'
<1>1. SUFFICES /\ \A q \in Requests \ {r} : call'[q] = call[q]
               /\ call'[r].status \in Statuses
               /\ call'[r].user \in Emails \union {None}
               /\ call'[r].route = "login" => call'[r].on \in Emails
  BY DEF Callers
<1>2. /\ call[r].status \in Statuses /\ call[r].user \in Emails \union {None}
      /\ call[r].route = "login" => call[r].on \in Emails
  BY DEF Callers
<1>3. CASE call' = call
  BY <1>2, <1>3
<1>4. CASE AnswerOk(r)
  <2>1. Called(r) /\ call'[r].status = "ok"
    BY <1>4, OkCalled
  <2> QED
    BY <1>2, <2>1 DEF Called, Statuses
<1>5. ASSUME NEW error \in DOMAIN StatusOf, Throw(r, error)
      PROVE  /\ \A q \in Requests \ {r} : call'[q] = call[q]
             /\ call'[r].status \in Statuses
             /\ call'[r].user \in Emails \union {None}
             /\ call'[r].route = "login" => call'[r].on \in Emails
  <2>1. Called(r) /\ call'[r].status = StatusOf[error]
    BY <1>5, StatusCalled DEF Throw
  <2>2. StatusOf[error] \in Statuses
    BY DEF Statuses
  <2> QED
    BY <1>2, <2>1, <2>2 DEF Called
<1>6. ASSUME NEW n, call[r].route # "login", call' = [call EXCEPT ![r].on = n]
      PROVE  /\ \A q \in Requests \ {r} : call'[q] = call[q]
             /\ call'[r].status \in Statuses
             /\ call'[r].user \in Emails \union {None}
             /\ call'[r].route = "login" => call'[r].on \in Emails
  BY <1>2, <1>6, OnSet
<1>7. ASSUME NEW route, NEW token, NEW roles, NEW on, NEW f,
             route = "login" => on \in Emails, Arrive(r, route, token, roles, on, f)
      PROVE  /\ \A q \in Requests \ {r} : call'[q] = call[q]
             /\ call'[r].status \in Statuses
             /\ call'[r].user \in Emails \union {None}
             /\ call'[r].route = "login" => call'[r].on \in Emails
  <2>1. /\ \A q \in Requests \ {r} : call'[q] = call[q]
        /\ call'[r].status \in {Open, "forbidden"}
        /\ call'[r].user = MemberOf(token)
        /\ call'[r].route = route /\ call'[r].on = on
    BY <1>7, Arrives
  <2>2. token \in tokens \union {None}
    BY <1>7 DEF Arrive
  <2>3. MemberOf(token) \in Emails \union {None}
    BY <2>2 DEF MemberOf
  <2> QED
    BY <1>7, <2>1, <2>3 DEF Statuses
<1> QED
  BY <1>3, <1>4, <1>5, <1>6, <1>7 DEF CallStep

LEMMA StrategyCalls ==
  ASSUME NEW r \in Requests, StrategyStep(r)
  PROVE  CallStep(r) /\ Faulty /\ role' = role /\ tokens' = tokens
<1>1. CASE \E t \in Emails \union {None} :
             \/ \E tags \in TagLists : Create(r, t, tags)
             \/ \E c \in Codes : Fork(r, t, c) \/ Delete(r, t, c)
             \/ \E c \in Codes, ticker \in Tickers, s \in Settings :
                  Add(r, t, c, ticker, s)
  <2>1. \E route, token, roles, on, f :
          route # "login" /\ Arrive(r, route, token, roles, on, f)
    BY <1>1 DEF Create, Fork, Delete, Add
  <2> QED
    BY <2>1, Zenon DEF CallStep, Arrive, Faulty
<1>2. CASE CreateRow(r) \/ CreateInfo(r) \/ CreateAnswers(r)
  <2>1. call[r].route # "login"
    BY <1>2 DEF CreateRow, CreateInfo, CreateAnswers, At, InTags
  <2>2. CASE CreateRow(r)
    BY <2>1, <2>2, Zenon DEF CreateRow, CallStep, Faulty
  <2> QED
    BY <1>2, <2>2, ErrorNames
    DEF CreateInfo, CreateAnswers, CallStep, Faulty
<1>3. CASE ForkReads(r) \/ ForkRow(r) \/ ForkInfo(r) \/ ForkAnswers(r)
  <2>1. CASE ForkRow(r)
    <3>1. call[r].route # "login"
      BY <2>1 DEF ForkRow, At
    <3> QED
      BY <2>1, <3>1, Zenon DEF ForkRow, CallStep, Faulty
  <2> QED
    BY <1>3, <2>1, ErrorNames
    DEF ForkReads, ForkInfo, ForkAnswers, CallStep, Faulty
<1>4. CASE \/ DeleteFind(r) \/ DeleteRow(r)
           \/ AddAnswers(r) \/ StrategyRaises(r)
  BY <1>4, ErrorNames
  DEF DeleteFind, DeleteRow, AddAnswers, StrategyRaises, CallStep, Faulty
<1>5. CASE \E i \in DOMAIN frame[r].parts :
             \/ FindTag(r, i) \/ InsertTag(r, i)
             \/ PairSelect(r, i) \/ PairInsert(r, i)
             \/ TagPartRaises(r, i)
  BY <1>5, ErrorNames
  DEF FindTag, InsertTag, PairSelect, PairInsert, TagPartRaises, Reject,
      CallStep, Faulty
<1>6. CASE \E i \in DOMAIN frame[r].univ :
             \/ CheckMine(r, i) \/ InsertUniversal(r, i) \/ FillUniversal(r, i)
             \/ UniversalPartRaises(r, i)
  BY <1>6, ErrorNames
  DEF CheckMine, InsertUniversal, FillUniversal, UniversalPartRaises, Reject,
      CallStep, Faulty
<1>7. CASE \E h \in frame[r].tags : ForkTag(r, h) \/ ForkTagRaises(r, h)
  BY <1>7, ErrorNames DEF ForkTag, ForkTagRaises, CallStep, Faulty
<1> QED
  BY <1>1, <1>2, <1>3, <1>4, <1>5, <1>6, <1>7 DEF StrategyStep

LEMMA FeedCalls ==
  ASSUME NEW r \in Requests, FeedStep(r)
  PROVE  CallStep(r) /\ Faulty /\ role' = role /\ tokens' = tokens
<1>1. CASE \/ \E f \in Feeds : Browse(r, f)
           \/ \E t \in Tickers \union {ByProfit} : Search(r, t)
  <2>1. \E route, token, roles, on, f :
          route # "login" /\ Arrive(r, route, token, roles, on, f)
    BY <1>1 DEF Browse, Search
  <2> QED
    BY <2>1, Zenon DEF CallStep, Arrive, Faulty
<1>2. CASE ReadPage(r) \/ SearchCodes(r) \/ SearchRows(r) \/ SearchKept(r)
  BY <1>2 DEF ReadPage, SearchCodes, SearchRows, SearchKept, CallStep, Faulty
<1> QED
  BY <1>1, <1>2 DEF FeedStep

LEMMA UploadCalls ==
  ASSUME NEW r \in Requests, UploadStep(r)
  PROVE  CallStep(r) /\ Faulty /\ role' = role /\ tokens' = tokens
<1>1. ASSUME NEW t, NEW folder, NEW file, Upload(r, t, folder, file)
      PROVE  CallStep(r) /\ Faulty /\ role' = role /\ tokens' = tokens
  <2>1. \E route, token, roles, on, f :
          route # "login" /\ Arrive(r, route, token, roles, on, f)
    BY <1>1 DEF Upload
  <2> QED
    BY <2>1, Zenon DEF CallStep, Arrive, Faulty
<1>2. CASE PutObject(r) \/ SaveUpload(r) \/ UploadRaises(r)
  BY <1>2, ErrorNames DEF PutObject, SaveUpload, UploadRaises, CallStep, Faulty
<1> QED
  BY <1>1, <1>2 DEF UploadStep

(* A member's role is given once; a token is signed for a member.            *)
LEMMA MemberCalls ==
  ASSUME MemberInv, tokens \subseteq {e \in Emails : role[e] # None},
         Callers, NEW r \in Requests, MemberStep(r)
  PROVE  CallStep(r) /\ Faulty /\ tokens' \subseteq {e \in Emails : role'[e] # None}
<1>0. Shape /\ role \in [Emails -> Roles \union {None}]
  BY DEF MemberInv, TablesOK
<1>1. ASSUME NEW route, NEW token, NEW roles, NEW on, NEW f,
             route = "login" => on \in Emails, Arrive(r, route, token, roles, on, f)
      PROVE  CallStep(r) /\ Faulty /\ role' = role /\ tokens' = tokens
  <2>1. \E a, t, w, n, g : (a = "login" => n \in Emails) /\ Arrive(r, a, t, w, n, g)
    BY <1>1, Zenon
  <2> QED
    BY <1>1, <2>1, Zenon DEF CallStep, Arrive, Faulty
<1>2. ASSUME NEW e, NEW a, Register(r, e, a) \/ Change(r, e, a)
      PROVE  CallStep(r) /\ Faulty /\ role' = role /\ tokens' = tokens
  BY <1>1, <1>2 DEF Register, Change, Begin
<1>3. ASSUME NEW e \in Emails, NEW p, Login(r, e, p)
      PROVE  CallStep(r) /\ Faulty /\ role' = role /\ tokens' = tokens
  BY <1>1, <1>3 DEF Login
<1>4. ASSUME NEW t, Me(r, t)
      PROVE  CallStep(r) /\ Faulty /\ role' = role /\ tokens' = tokens
  BY <1>1, <1>4 DEF Me
<1>5. CASE \/ RegisterFind(r) \/ ChangeFind(r) \/ SaveSelects(r)
           \/ MemberRaises(r) \/ MeReturns(r)
  <2>1. CallStep(r) /\ Faulty /\ role' = role /\ tokens' = tokens
    BY <1>5, ErrorNames
    DEF RegisterFind, ChangeFind, SaveSelects, MemberRaises, MeReturns, CallStep,
        Faulty
  <2> QED
    BY <2>1
<1>6. CASE SaveWrites(r)
  <2>1. CallStep(r) /\ Faulty /\ tokens' = tokens
    BY <1>6, ErrorNames DEF SaveWrites, CallStep, Faulty
  <2>2. PICK e : \/ role' = role
                 \/ role' = [role EXCEPT ![e] = IF role[e] = None THEN "Normal"
                                                                  ELSE role[e]]
    BY <1>6 DEF SaveWrites
  <2>3. \A x \in Emails : role[x] # None => role'[x] # None
    BY <1>0, <2>2
  <2> QED
    BY <2>1, <2>3
<1>7. CASE LoginFind(r)
  <2>1. /\ Faulty /\ role' = role
        /\ \/ AnswerOk(r) /\ role[call[r].on] # None
                /\ call[r].route = "login"
                /\ tokens' = tokens \union {call[r].on}
           \/ /\ tokens' = tokens
              /\ \E error \in DOMAIN StatusOf : Throw(r, error)
    BY <1>7, ErrorNames DEF LoginFind, At, Faulty
  <2>2. CallStep(r)
    BY <2>1 DEF CallStep
  <2>3. call[r].route = "login" => call[r].on \in Emails
    BY DEF Callers
  <2> QED
    BY <2>1, <2>2, <2>3
<1> QED
  BY <1>2, <1>3, <1>4, <1>5, <1>6, <1>7 DEF MemberStep

LEMMA CallersInit == Init => Callers
<1> SUFFICES ASSUME Init PROVE Callers
  OBVIOUS
<1>1. \A r \in Requests : call[r] = Unused
  BY DEF Init, GatewayInit
<1>2. /\ Unused.status \in Statuses /\ Unused.user = None
      /\ Unused.route # "login"
  BY MemberAssumption DEF Unused, Statuses
<1> QED
  BY <1>1, <1>2 DEF Callers

LEMMA GatewayInitTyped == Init => GatewayTypeOK
<1> SUFFICES ASSUME Init PROVE GatewayTypeOK
  OBVIOUS
<1>1. \A r \in Requests : /\ call[r].status \in Statuses
                          /\ call[r].user \in Emails \union {None}
  BY CallersInit DEF Callers
<1>2. role = Seeded /\ tokens = SignedIn /\ faults = 0
  BY DEF Init, GatewayInit
<1> QED
  BY <1>1, <1>2, GatewayAssumption DEF GatewayTypeOK

(* Every step takes at most one fault, and changes the entry of one request. *)
LEMMA GatewayTyped ==
  MemberInv /\ GatewayTypeOK /\ Callers /\ [Next]_vars
    => (GatewayTypeOK /\ Callers)'
<1> SUFFICES ASSUME MemberInv, GatewayTypeOK, Callers, [Next]_vars
             PROVE  GatewayTypeOK' /\ Callers'
  OBVIOUS
<1>1. MemberInv'
  BY NextKeeps
<1>2. Shape /\ role' \in [Emails -> Roles \union {None}]
  BY <1>1 DEF MemberInv, TablesOK
<1>3. /\ tokens \subseteq {e \in Emails : role[e] # None}
      /\ faults \in 0 .. MaxFaults
  BY DEF GatewayTypeOK
<1>4. CASE \E r \in Requests : \/ MemberStep(r) \/ StrategyStep(r)
                               \/ FeedStep(r) \/ UploadStep(r)
  <2>1. PICK r \in Requests : \/ MemberStep(r) \/ StrategyStep(r)
                              \/ FeedStep(r) \/ UploadStep(r)
    BY <1>4
  <2>2. /\ CallStep(r) /\ Faulty
        /\ tokens' \subseteq {e \in Emails : role'[e] # None}
    <3>1. CASE MemberStep(r)
      BY <1>3, <3>1, MemberCalls
    <3>2. CASE StrategyStep(r)
      BY <1>3, <3>2, StrategyCalls
    <3>3. CASE FeedStep(r)
      BY <1>3, <3>3, FeedCalls
    <3>4. CASE UploadStep(r)
      BY <1>3, <3>4, UploadCalls
    <3> QED
      BY <2>1, <3>1, <3>2, <3>3, <3>4
  <2>3. Callers'
    BY <1>2, <1>3, <2>2, CallStepTyped
  <2>4. faults' \in 0 .. MaxFaults
    BY <1>3, <2>2, GatewayAssumption DEF Faulty, Fault
  <2> QED
    BY <1>2, <2>2, <2>3, <2>4 DEF GatewayTypeOK, Callers
<1>5. CASE Tick \/ UNCHANGED vars
  <2>1. UNCHANGED gatewayVars
    BY <1>5 DEF Tick, vars
  <2>2. role' = role /\ tokens' = tokens /\ call' = call /\ faults' = faults
    BY <2>1 DEF gatewayVars
  <2>3. Callers'
    BY <2>2 DEF Callers
  <2> QED
    BY <1>2, <1>3, <2>2, <2>3 DEF GatewayTypeOK, Callers
<1> QED
  BY <1>4, <1>5 DEF Next, Step

-----------------------------------------------------------------------------
(* Lists: the newest first, and a page of them.                              *)

Above(S, c) == {d \in S : d > c}

(* Fewer are above what is higher.                                           *)
LEMMA AboveCounts ==
  ASSUME NEW S, S \subseteq Nat, IsFiniteSet(S), NEW c \in S
  PROVE  /\ IsFiniteSet(Above(S, c))
         /\ Cardinality(Above(S, c)) \in 0 .. Cardinality(S) - 1
         /\ \A d \in S : c < d => Cardinality(Above(S, d)) < Cardinality(Above(S, c))
<1>1. IsFiniteSet(Above(S, c))
  BY FS_Subset DEF Above
<1>2. Cardinality(Above(S, c)) <= Cardinality(S)
  BY FS_Subset DEF Above
<1>3. Cardinality(Above(S, c)) # Cardinality(S)
  <2>1. c \notin Above(S, c) /\ Above(S, c) \subseteq S
    BY DEF Above
  <2> QED
    BY <2>1, FS_Subset
<1>4. Cardinality(Above(S, c)) \in Nat /\ Cardinality(S) \in Nat
  BY <1>1, FS_CardinalityType
<1>5. ASSUME NEW d \in S, c < d
      PROVE  Cardinality(Above(S, d)) < Cardinality(Above(S, c))
  <2>1. Above(S, d) \subseteq Above(S, c)
    <3> SUFFICES ASSUME NEW x \in S, x > d PROVE x > c
      BY DEF Above
    <3>1. x \in Nat /\ d \in Nat /\ c \in Nat
      OBVIOUS
    <3> QED
      BY <1>5, <3>1
  <2>2. d \in Above(S, c) /\ d \notin Above(S, d)
    BY <1>5 DEF Above
  <2>3. IsFiniteSet(Above(S, d))
    BY <1>1, <2>1, FS_Subset
  <2>4. /\ Cardinality(Above(S, d)) <= Cardinality(Above(S, c))
        /\ Cardinality(Above(S, d)) # Cardinality(Above(S, c))
    BY <1>1, <2>1, <2>2, FS_Subset
  <2>5. Cardinality(Above(S, d)) \in Nat
    BY <2>3, FS_CardinalityType
  <2> QED
    BY <1>4, <2>4, <2>5
<1> QED
  BY <1>1, <1>2, <1>3, <1>4, <1>5

(* The order exists: the place of a member is the number of those above it.  *)
LEMMA NewestFirstIs ==
  ASSUME NEW S, S \subseteq Nat, IsFiniteSet(S)
  PROVE  /\ Cardinality(S) \in Nat
         /\ NewestFirst(S) \in [1 .. Cardinality(S) -> S]
         /\ \A i, j \in 1 .. Cardinality(S) :
              i < j => NewestFirst(S)[i] > NewestFirst(S)[j]
<1> DEFINE n == Cardinality(S)
           rank == [c \in S |-> Cardinality(Above(S, c)) + 1]
<1>1. n \in Nat
  BY FS_CardinalityType
<1>2. rank \in [S -> 1 .. n]
  <2> SUFFICES ASSUME NEW c \in S PROVE Cardinality(Above(S, c)) + 1 \in 1 .. n
    OBVIOUS
  <2>1. Cardinality(Above(S, c)) \in 0 .. n - 1
    BY AboveCounts
  <2> QED
    BY <1>1, <2>1
<1>3. \A c, d \in S : c < d => rank[d] < rank[c]
  <2> SUFFICES ASSUME NEW c \in S, NEW d \in S, c < d
               PROVE  Cardinality(Above(S, d)) + 1 < Cardinality(Above(S, c)) + 1
    OBVIOUS
  <2>1. /\ Cardinality(Above(S, c)) \in 0 .. n - 1
        /\ Cardinality(Above(S, d)) \in 0 .. n - 1
        /\ Cardinality(Above(S, d)) < Cardinality(Above(S, c))
    BY AboveCounts
  <2> QED
    BY <1>1, <2>1
<1> HIDE DEF rank
<1>4. rank \in Surjection(S, 1 .. n)
  <2>1. \A c, d \in S : rank[c] = rank[d] => c = d
    <3> SUFFICES ASSUME NEW c \in S, NEW d \in S, rank[c] = rank[d] PROVE c = d
      OBVIOUS
    <3>1. rank[c] \in 1 .. n /\ rank[d] \in 1 .. n /\ c \in Nat /\ d \in Nat
      BY <1>2
    <3>2. (c < d => rank[d] < rank[c]) /\ (d < c => rank[c] < rank[d])
      BY <1>3
    <3> QED
      BY <1>1, <3>1, <3>2
  <2>2. rank \in Injection(S, 1 .. n)
    BY <1>2, <2>1 DEF Injection, IsInjective
  <2>3. IsFiniteSet(1 .. n) /\ Cardinality(1 .. n) = n
    BY <1>1, FS_Interval
  <2> QED
    BY <2>2, <2>3, FS_Injection
<1> DEFINE q == [i \in 1 .. n |-> CHOOSE c \in S : rank[c] = i]
<1>5. \A i \in 1 .. n : q[i] \in S /\ rank[q[i]] = i
  BY <1>4 DEF Surjection
<1>6. q \in [1 .. n -> S]
  BY <1>5
<1> HIDE DEF q
<1>7. \A i, j \in 1 .. n : i < j => q[i] > q[j]
  <2> SUFFICES ASSUME NEW i \in 1 .. n, NEW j \in 1 .. n, i < j PROVE q[i] > q[j]
    OBVIOUS
  <2>1. q[i] \in Nat /\ q[j] \in Nat /\ q[i] # q[j] /\ ~(q[i] < q[j])
    <3>1. q[i] \in S /\ q[j] \in S /\ rank[q[i]] = i /\ rank[q[j]] = j
      BY <1>5
    <3>2. q[i] < q[j] => j < i
      BY <1>3, <3>1
    <3>3. i \in Nat /\ j \in Nat
      BY <1>1
    <3>4. q[i] \in Nat /\ q[j] \in Nat
      BY <3>1
    <3>5. q[i] # q[j]
      BY <3>1, <3>3
    <3> QED
      BY <3>2, <3>3, <3>4, <3>5
  <2> QED
    BY <2>1
<1>8. \E p \in [1 .. n -> S] : \A i, j \in DOMAIN p : i < j => p[i] > p[j]
  BY <1>6, <1>7
<1>9. /\ NewestFirst(S) \in [1 .. n -> S]
      /\ \A i, j \in DOMAIN NewestFirst(S) :
           i < j => NewestFirst(S)[i] > NewestFirst(S)[j]
  BY <1>8 DEF NewestFirst
<1> QED
  BY <1>1, <1>9

LEMMA PlaceInList ==
  ASSUME NEW S, S \subseteq Nat, IsFiniteSet(S), NEW c \in S
  PROVE  \E i \in 1 .. Cardinality(S) :
           /\ NewestFirst(S)[i] = c
           /\ Cardinality(Above(S, c)) = i - 1
<1> DEFINE n == Cardinality(S)
<1>1. PICK q : q = NewestFirst(S)
  OBVIOUS
<1>2. /\ n \in Nat /\ q \in [1 .. n -> S]
      /\ \A i, j \in 1 .. n : i < j => q[i] > q[j]
  BY <1>1, NewestFirstIs
<1>3. q \in Surjection(1 .. n, S)
  <2>1. \A i, j \in 1 .. n : q[i] = q[j] => i = j
    <3> SUFFICES ASSUME NEW i \in 1 .. n, NEW j \in 1 .. n, q[i] = q[j] PROVE i = j
      OBVIOUS
    <3>1. q[i] \in Nat /\ q[j] \in Nat
      BY <1>2
    <3>2. (i < j => q[i] > q[j]) /\ (j < i => q[j] > q[i])
      BY <1>2
    <3> QED
      BY <1>2, <3>1, <3>2
  <2>2. q \in Injection(1 .. n, S)
    BY <1>2, <2>1 DEF Injection, IsInjective
  <2>3. IsFiniteSet(1 .. n) /\ Cardinality(1 .. n) = n
    BY <1>2, FS_Interval
  <2> QED
    BY <2>2, <2>3, FS_Injection
<1>4. PICK i \in 1 .. n : q[i] = c
  BY <1>3 DEF Surjection
<1> DEFINE g == [k \in 1 .. i - 1 |-> q[k]]
<1>5. /\ i - 1 \in Nat /\ IsFiniteSet(1 .. i - 1)
      /\ Cardinality(1 .. i - 1) = i - 1
  <2>1. i - 1 \in Nat
    BY <1>2
  <2> QED
    BY <2>1, FS_Interval
<1>6. g \in [1 .. i - 1 -> Above(S, c)]
  <2> SUFFICES ASSUME NEW k \in 1 .. i - 1 PROVE q[k] \in Above(S, c)
    OBVIOUS
  <2>1. k \in 1 .. n /\ k < i
    BY <1>2
  <2> QED
    BY <1>2, <1>4, <2>1 DEF Above
<1>7. \A d \in Above(S, c) : \E k \in 1 .. i - 1 : g[k] = d
  <2> SUFFICES ASSUME NEW d \in S, d > c PROVE \E k \in 1 .. i - 1 : q[k] = d
    BY DEF Above
  <2>1. PICK k \in 1 .. n : q[k] = d
    BY <1>3 DEF Surjection
  <2>2. k < i
    <3>1. k = i => d = c
      BY <1>4, <2>1
    <3>2. k > i => c > d
      BY <1>2, <1>4, <2>1
    <3> QED
      BY <1>2, <3>1, <3>2
  <2> QED
    BY <1>2, <2>1, <2>2
<1>8. \A k, m \in 1 .. i - 1 : g[k] = g[m] => k = m
  <2> SUFFICES ASSUME NEW k \in 1 .. i - 1, NEW m \in 1 .. i - 1, q[k] = q[m]
               PROVE  k = m
    OBVIOUS
  <2>0. k \in 1 .. n /\ m \in 1 .. n
    BY <1>2
  <2>1. k \in 1 .. n /\ m \in 1 .. n /\ q[k] \in Nat /\ q[m] \in Nat
    BY <1>2, <2>0
  <2>2. (k < m => q[k] > q[m]) /\ (m < k => q[m] > q[k])
    BY <1>2, <2>1
  <2> QED
    BY <1>2, <2>1, <2>2
<1> HIDE DEF g
<1>9. g \in Bijection(1 .. i - 1, Above(S, c))
  BY <1>6, <1>7, <1>8 DEF Bijection, Injection, IsInjective, Surjection
<1>10. Cardinality(Above(S, c)) = i - 1
  BY <1>5, <1>9, FS_Bijection DEF ExistsBijection
<1> QED
  BY <1>1, <1>4, <1>10

(* A page holds the places from its first to the next page's.                *)
LEMMA CutHolds ==
  ASSUME NEW S, NEW q \in Seq(S), NEW skip \in Nat
  PROVE  /\ \A i \in DOMAIN q : skip < i /\ i <= skip + Take => q[i] \in Members(Cut(q, skip))
         /\ Cut(q, skip) = << >> => Len(q) <= skip
<1> DEFINE top == IF skip + Take < Len(q) THEN skip + Take ELSE Len(q)
           p == SubSeq(q, skip + 1, top)
<1>0. Take \in Nat \ {0} /\ Len(q) \in Nat /\ DOMAIN q = 1 .. Len(q) /\ top \in Nat
  BY FeedAssumption
<1>1. \A i \in skip + 1 .. top : q[i] \in S
  BY <1>0
<1>2. Cut(q, skip) = p
  BY DEF Cut
<1> HIDE DEF top
<1>3. /\ p \in Seq(S)
      /\ Len(p) = IF skip + 1 <= top THEN top - (skip + 1) + 1 ELSE 0
      /\ \A i \in 1 .. top - (skip + 1) + 1 : p[i] = q[skip + 1 + i - 1]
  BY <1>0, <1>1, SubSeqProperties
<1> HIDE DEF p
<1>4. ASSUME NEW i \in DOMAIN q, skip < i, i <= skip + Take
      PROVE  q[i] \in Members(p)
  <2>1. i <= top /\ skip + 1 <= top
    BY <1>0, <1>4 DEF top
  <2>2. i - skip \in 1 .. top - (skip + 1) + 1 /\ Len(p) = top - skip
    BY <1>0, <1>3, <1>4, <2>1
  <2>3. p[i - skip] = q[skip + 1 + (i - skip) - 1]
    BY <1>3, <2>2
  <2>4. skip + 1 + (i - skip) - 1 = i /\ i - skip \in 1 .. Len(p)
    BY <1>0, <2>2
  <2>5. i - skip \in DOMAIN p
    BY <1>3, <2>4
  <2> QED
    BY <2>3, <2>4, <2>5 DEF Members
<1>5. p = << >> => Len(q) <= skip
  <2> SUFFICES ASSUME p = << >> PROVE Len(q) <= skip
    OBVIOUS
  <2>1. Len(p) = 0
    OBVIOUS
  <2>2. ~(skip + 1 <= top)
    BY <1>0, <1>3, <2>1
  <2>3. top = IF skip + Take < Len(q) THEN skip + Take ELSE Len(q)
    BY DEF top
  <2>4. Take \in Nat \ {0} /\ Len(q) \in Nat /\ top \in Nat
    BY <1>0
  <2>5. CASE skip + Take < Len(q)
    BY <2>2, <2>3, <2>4, <2>5
  <2>6. CASE ~(skip + Take < Len(q))
    BY <2>2, <2>3, <2>4, <2>6
  <2> QED
    BY <2>5, <2>6
<1> QED
  BY <1>2, <1>4, <1>5

LEMMA RowsAreFinite ==
  ASSUME NEW s \in Seq(Rows), NEW S, S \subseteq DOMAIN s
  PROVE  S \subseteq Nat /\ IsFiniteSet(S)
<1>1. DOMAIN s = 1 .. Len(s) /\ Len(s) \in Nat
  OBVIOUS
<1>2. IsFiniteSet(DOMAIN s)
  BY <1>1, FS_Interval
<1> QED
  BY <1>1, <1>2, FS_Subset

LEMMA AboveIsCounted ==
  ASSUME NEW S, IsFiniteSet(S), NEW c
  PROVE  Cardinality(Above(S, c)) \in Nat
<1>1. IsFiniteSet(Above(S, c))
  BY FS_Subset DEF Above
<1> QED
  BY <1>1, FS_CardinalityType

(* A list that only grows leaves no fewer above a member of it.              *)
LEMMA AboveGrows ==
  ASSUME NEW S, NEW T, S \subseteq T, IsFiniteSet(T), NEW c
  PROVE  Cardinality(Above(S, c)) <= Cardinality(Above(T, c))
<1>1. Above(S, c) \subseteq Above(T, c) /\ Above(T, c) \subseteq T
  BY DEF Above
<1>2. IsFiniteSet(Above(T, c))
  BY <1>1, FS_Subset
<1> QED
  BY <1>1, <1>2, FS_Subset

LEMMA PageHolds ==
  ASSUME NEW S, S \subseteq Nat, IsFiniteSet(S), NEW n \in Nat, NEW c \in S,
         n * Take <= Cardinality(Above(S, c))
  PROVE  /\ NewPage(S, n) # << >>
         /\ \/ c \in Members(NewPage(S, n))
            \/ (n + 1) * Take <= Cardinality(Above(S, c))
<1>2. PICK i \in 1 .. Cardinality(S) :
        NewestFirst(S)[i] = c /\ Cardinality(Above(S, c)) = i - 1
  BY PlaceInList
<1>3. PICK q : q = NewestFirst(S)
  OBVIOUS
<1>4. /\ Cardinality(S) \in Nat
      /\ q \in [1 .. Cardinality(S) -> S]
  BY <1>3, NewestFirstIs
<1>5. q \in Seq(S) /\ Len(q) = Cardinality(S) /\ i \in DOMAIN q
  BY <1>4
<1>6. Take \in Nat
  BY FeedAssumption
<1>7. n * Take \in Nat /\ (n + 1) * Take = n * Take + Take
  BY <1>6
<1>8. PICK skip \in Nat : skip = n * Take
  BY <1>7
<1>9. NewPage(S, n) = Cut(q, skip)
  BY <1>3, <1>8 DEF NewPage
<1>10. skip < i /\ (i <= skip + Take \/ (n + 1) * Take <= Cardinality(Above(S, c)))
  BY <1>2, <1>4, <1>6, <1>7, <1>8
<1>11. Cut(q, skip) # << >>
  BY <1>4, <1>5, <1>10, CutHolds
<1>12. i <= skip + Take => q[i] \in Members(Cut(q, skip))
  BY <1>5, <1>10, CutHolds
<1> QED
  BY <1>2, <1>3, <1>9, <1>10, <1>11, <1>12

-----------------------------------------------------------------------------
(* What requests change of what readers see                                  *)

LEMMA RowDeleted ==
  ASSUME NEW v \in Seq(Rows), NEW c, NEW w, w = [v EXCEPT ![c].live = FALSE]
  PROVE  /\ DOMAIN w = DOMAIN v
         /\ \A d \in DOMAIN v : w[d].open = v[d].open /\ (w[d].live => v[d].live)
<1>1. CASE c \notin DOMAIN v
  <2>1. w = v
    BY <1>1
  <2> QED
    BY <2>1
<1>2. CASE c \in DOMAIN v
  <2>1. PICK x \in Rows : x = v[c]
    BY <1>2
  <2> DEFINE y == [x EXCEPT !.live = FALSE]
  <2>2. y \in Rows /\ y.open = x.open /\ y.live = FALSE
    BY DEF Rows
  <2>3. w = [v EXCEPT ![c] = y]
    BY <2>1, Zenon
  <2> HIDE DEF y
  <2>4. /\ w \in Seq(Rows) /\ DOMAIN w = DOMAIN v /\ w[c] = y
        /\ \A d \in DOMAIN v \ {c} : w[d] = v[d]
    <3>1. y \in Rows
      BY <2>2, Zenon
    <3>2. v \in Seq(Rows) /\ c \in DOMAIN v
      BY <1>2
    <3>3. PICK t : t = w
      OBVIOUS
    <3>4. t = [v EXCEPT ![c] = y]
      BY <2>3, <3>3, Zenon
    <3>5. /\ t \in Seq(Rows) /\ DOMAIN t = DOMAIN v /\ t[c] = y
          /\ \A d \in DOMAIN v \ {c} : t[d] = v[d]
      BY <3>1, <3>2, <3>4, RowSet
    <3> QED
      BY <3>3, <3>5, Zenon
  <2>5. ASSUME NEW d \in DOMAIN v
        PROVE  w[d].open = v[d].open /\ (w[d].live => v[d].live)
    <3>1. CASE d = c
      <4>1. w[d] = y /\ v[d] = x
        BY <2>1, <2>4, <3>1
      <4> QED
        BY <2>2, <4>1, Zenon
    <3>2. CASE d # c
      <4>1. w[d] = v[d]
        BY <2>4, <3>2
      <4> QED
        BY <4>1, Zenon
    <3> QED
      BY <3>1, <3>2
  <2> QED
    BY <2>4, <2>5
<1> QED
  BY <1>1, <1>2

(* Rows come, and go by a mark that stays.                                   *)
Lists ==
  \A c \in Codes : /\ c \in Codes' /\ strategy'[c].open = strategy[c].open
                   /\ strategy'[c].live => strategy[c].live

LEMMA SameLists ==
  ASSUME strategy' = strategy
  PROVE  Lists
<1>1. Codes' = Codes
  BY DEF Codes
<1> QED
  BY <1>1, Zenon DEF Lists

LEMMA StrategyLists ==
  ASSUME StrategyInv, NEW r \in Requests, StrategyStep(r)
  PROVE  Lists
<1>0. strategy \in Seq(Rows) /\ Codes = DOMAIN strategy
  BY DEF StrategyInv, StrategyTables, Codes
<1>1. ASSUME NEW row, strategy' = Append(strategy, row)
      PROVE  Lists
  <2>1. \A c \in Codes : c \in Codes' /\ strategy'[c] = strategy[c]
    BY <1>0, <1>1 DEF Codes
  <2> QED
    BY <2>1, Zenon DEF Lists
<1>2. ASSUME NEW c, strategy' = [strategy EXCEPT ![c].live = FALSE]
      PROVE  Lists
  <2>1. PICK w : w = strategy'
    OBVIOUS
  <2>2. w = [strategy EXCEPT ![c].live = FALSE]
    BY <1>2, <2>1, Zenon
  <2>3. /\ DOMAIN w = DOMAIN strategy
        /\ \A d \in DOMAIN strategy : /\ w[d].open = strategy[d].open
                                      /\ w[d].live => strategy[d].live
    BY <1>0, <2>2, RowDeleted
  <2>4. Codes' = Codes
    BY <2>1, <2>3 DEF Codes
  <2> QED
    BY <1>0, <2>1, <2>3, <2>4, Zenon DEF Lists
<1>6. CASE \E t \in Emails \union {None} :
             \/ \E tags \in TagLists : Create(r, t, tags)
             \/ \E c \in Codes : Fork(r, t, c) \/ Delete(r, t, c)
             \/ \E c \in Codes, ticker \in Tickers, s \in Settings :
                  Add(r, t, c, ticker, s)
  BY <1>6, SameLists DEF Create, Fork, Delete, Add, strategyVars
<1>7. CASE CreateRow(r)
  BY <1>1, <1>7, Zenon DEF CreateRow
<1>8. CASE ForkRow(r)
  BY <1>1, <1>8, Zenon DEF ForkRow
<1>9. CASE DeleteRow(r)
  BY <1>2, <1>9, Zenon DEF DeleteRow
<1>10. CASE CreateInfo(r) \/ ForkInfo(r)
  BY <1>10, SameLists DEF CreateInfo, ForkInfo
<1>11. CASE \E i \in DOMAIN frame[r].univ : InsertUniversal(r, i) \/ FillUniversal(r, i)
  BY <1>11, SameLists DEF InsertUniversal, FillUniversal
<1>12. CASE \/ CreateAnswers(r) \/ ForkReads(r) \/ ForkAnswers(r) \/ DeleteFind(r)
            \/ AddAnswers(r) \/ StrategyRaises(r)
  <2>1. strategy' = strategy
    BY <1>12, ZenonT(60) DEF CreateAnswers, ForkReads, ForkAnswers, DeleteFind,
       AddAnswers, StrategyRaises, strategyVars
  <2> QED
    BY <2>1, SameLists
<1>13. CASE \/ \E i \in DOMAIN frame[r].parts :
                 \/ FindTag(r, i) \/ InsertTag(r, i)
                 \/ PairSelect(r, i) \/ PairInsert(r, i)
                 \/ TagPartRaises(r, i)
            \/ \E i \in DOMAIN frame[r].univ :
                 CheckMine(r, i) \/ UniversalPartRaises(r, i)
            \/ \E h \in frame[r].tags : ForkTag(r, h) \/ ForkTagRaises(r, h)
  BY <1>13, SameLists DEF FindTag, InsertTag, PairSelect, PairInsert, TagPartRaises,
     CheckMine, UniversalPartRaises, ForkTag, ForkTagRaises, strategyVars
<1> QED
  BY <1>6, <1>7, <1>8, <1>9, <1>10, <1>11, <1>12, <1>13 DEF StrategyStep

-----------------------------------------------------------------------------
(* What the lists were computed from: nothing that is listed now was not     *)
(* listed in between, and while nothing is deleted a list only grows.        *)

LEMMA Extended ==
  ASSUME NEW S, NEW p \in Seq(S), p # << >>, NEW x \in S,
         NEW q, q = IF x = p[Len(p)] THEN p ELSE Append(p, x)
  PROVE  /\ q \in Seq(S) /\ q # << >> /\ q[Len(q)] = x
         /\ \A i \in 1 .. Len(p) : i \in 1 .. Len(q) /\ q[i] = p[i]
         /\ \A i \in 1 .. Len(q) : i \in 1 .. Len(p) \/ (i = Len(q) /\ q[i] = x)
<1>1. CASE x = p[Len(p)]
  BY <1>1
<1>2. CASE x # p[Len(p)]
  <2>1. q = Append(p, x)
    BY <1>2
  <2>2. /\ q \in Seq(S) /\ Len(q) = Len(p) + 1 /\ q[Len(q)] = x
        /\ Len(p) \in Nat
        /\ \A i \in 1 .. Len(p) : q[i] = p[i]
    BY <2>1
  <2>3. q # << >>
    BY <2>2
  <2> QED
    BY <2>2, <2>3
<1> QED
  BY <1>1, <1>2

Views == [shown : SUBSET Nat, live : SUBSET Nat, codes : [Tickers -> SUBSET Nat]]

Deleted == \E c \in Codes : ~strategy[c].live

PastInv ==
  /\ past \in Seq(Views) /\ past # << >> /\ past[Len(past)] = View
  /\ \A v \in 1 .. Len(past) : /\ past[v].shown \subseteq past[v].live
                               /\ past[v].live \subseteq Codes
  /\ \A u, v \in 1 .. Len(past) :
       u <= v => past[u].live \intersect Live \subseteq past[v].live
  /\ Deleted \/ \A u, v \in 1 .. Len(past) :
                  u <= v => past[u].shown \subseteq past[v].shown

(* What is past stays.                                                       *)
Kept == \A v \in 1 .. Len(past) : v \in 1 .. Len(past') /\ past'[v] = past[v]

LEMMA ViewTyped ==
  ASSUME StrategyInv
  PROVE  /\ View \in Views
         /\ View.shown = Shown /\ View.live = Live
         /\ Shown \subseteq Live /\ Live \subseteq Codes
<1>1. /\ strategy \in Seq(Rows) /\ universal \in Seq(Listed) /\ invest \subseteq Codes
      /\ Codes = DOMAIN strategy
  BY DEF StrategyInv, StrategyTables, Codes
<1>2. Codes \subseteq Nat
  BY <1>1, RowsAreFinite
<1>3. ASSUME NEW t \in Tickers
      PROVE  CodesOf(t) \subseteq Nat
  <2>1. \A u \in DOMAIN universal : universal[u].code \in Nat
    <3> SUFFICES ASSUME NEW u \in DOMAIN universal PROVE universal[u].code \in Nat
      OBVIOUS
    <3>1. universal[u] \in Listed
      BY <1>1
    <3> QED
      BY <3>1 DEF Listed
  <2> QED
    BY <1>1, <1>2, <2>1 DEF CodesOf
<1>4. Shown \subseteq Live /\ Live \subseteq Codes
  BY DEF Shown, Live
<1> QED
  BY <1>2, <1>3, <1>4 DEF View, Views

LEMMA PastInit1 ==
  ASSUME StrategyInv, PastInit
  PROVE  PastInv
<1>1. PICK x : x = View
  OBVIOUS
<1>2. past = <<x>>
  BY <1>1 DEF PastInit
<1>3. x \in Views /\ x.shown \subseteq x.live /\ x.live \subseteq Codes
  BY <1>1, ViewTyped
<1>4. /\ past \in Seq(Views) /\ past # << >> /\ Len(past) = 1 /\ past[1] = x
  BY <1>2, <1>3
<1>5. \A v \in 1 .. Len(past) : v = 1
  BY <1>4
<1> QED
  BY <1>1, <1>3, <1>4, <1>5 DEF PastInv

LEMMA Marks ==
  ASSUME StrategyInv, Lists
  PROVE  /\ Codes \subseteq Codes' /\ Codes \intersect Live' \subseteq Live
         /\ Deleted => Deleted'
         /\ ~Deleted' => Shown \subseteq Shown'
<1>1. \A c \in Codes : /\ c \in Codes' /\ strategy'[c].open = strategy[c].open
                       /\ strategy'[c].live => strategy[c].live
  BY Zenon DEF Lists
<1>2. Codes \intersect Live' \subseteq Live
  BY <1>1 DEF Live
<1>3. Deleted => Deleted'
  BY <1>1, Zenon DEF Deleted
<1>4. ~Deleted' => Shown \subseteq Shown'
  BY <1>1, Zenon DEF Deleted, Shown
<1> QED
  BY <1>1, <1>2, <1>3, <1>4

(* A list is listed, or listed anew.                                         *)
LEMMA PastKeeps ==
  ASSUME StrategyInv, StrategyInv', Lists, PastInv, Remembers
  PROVE  PastInv' /\ Kept
<1>1. PICK x : x = View'
  OBVIOUS
<1>2. PICK p : p = past
  OBVIOUS
<1>3. PICK q : q = past'
  OBVIOUS
<1>4. /\ x \in Views /\ x.shown = Shown' /\ x.live = Live'
      /\ Shown' \subseteq Live' /\ Live' \subseteq Codes'
  <2>1. /\ View' \in Views /\ View'.shown = Shown' /\ View'.live = Live'
        /\ Shown' \subseteq Live' /\ Live' \subseteq Codes'
    <3>1. /\ strategy' \in Seq(Rows) /\ universal' \in Seq(Listed)
          /\ Codes' = DOMAIN strategy'
      BY DEF StrategyInv, StrategyTables, Codes
    <3>2. Codes' \subseteq Nat
      BY <3>1, RowsAreFinite
    <3>3. ASSUME NEW t \in Tickers
          PROVE  CodesOf(t)' \subseteq Nat
      <4>1. \A u \in DOMAIN universal' : universal'[u].code \in Nat
        <5> SUFFICES ASSUME NEW u \in DOMAIN universal' PROVE universal'[u].code \in Nat
          OBVIOUS
        <5>1. universal'[u] \in Listed
          BY <3>1
        <5> QED
          BY <5>1 DEF Listed
      <4>2. invest' \subseteq Codes'
        BY DEF StrategyInv, StrategyTables
      <4> QED
        BY <3>2, <4>1, <4>2 DEF CodesOf
    <3>4. Shown' \subseteq Live' /\ Live' \subseteq Codes'
      BY DEF Shown, Live
    <3> QED
      BY <3>2, <3>3, <3>4 DEF View, Views
  <2> QED
    BY <1>1, <2>1
<1>5. /\ p \in Seq(Views) /\ p # << >> /\ p[Len(p)] = View
      /\ \A v \in 1 .. Len(p) : /\ p[v].shown \subseteq p[v].live
                                /\ p[v].live \subseteq Codes
      /\ \A u, v \in 1 .. Len(p) :
           u <= v => p[u].live \intersect Live \subseteq p[v].live
      /\ Deleted \/ \A u, v \in 1 .. Len(p) :
                      u <= v => p[u].shown \subseteq p[v].shown
  BY <1>2 DEF PastInv
<1>6. q = IF x = p[Len(p)] THEN p ELSE Append(p, x)
  BY <1>1, <1>2, <1>3, <1>5, Zenon DEF Remembers
<1>7. /\ q \in Seq(Views) /\ q # << >> /\ q[Len(q)] = x
      /\ \A i \in 1 .. Len(p) : i \in 1 .. Len(q) /\ q[i] = p[i]
      /\ \A i \in 1 .. Len(q) : i \in 1 .. Len(p) \/ (i = Len(q) /\ q[i] = x)
  BY <1>4, <1>5, <1>6, Extended
<1>8. Len(p) \in 1 .. Len(p) /\ Len(p) \in Nat /\ Len(q) \in Nat
  BY <1>5, <1>7
<1>9. /\ Codes \subseteq Codes' /\ Codes \intersect Live' \subseteq Live
      /\ Deleted => Deleted'
      /\ ~Deleted' => Shown \subseteq Shown'
  BY Marks
<1>10. \A v \in 1 .. Len(q) : /\ q[v].shown \subseteq q[v].live
                              /\ q[v].live \subseteq Codes'
  BY <1>4, <1>5, <1>7, <1>9
<1>11. ASSUME NEW u \in 1 .. Len(q), NEW v \in 1 .. Len(q), u <= v
       PROVE  q[u].live \intersect Live' \subseteq q[v].live
  <2>1. CASE v \in 1 .. Len(p)
    <3>1. u \in 1 .. Len(p)
      BY <1>11, <1>8, <2>1
    <3>2. /\ q[u] = p[u] /\ q[v] = p[v] /\ p[u].live \subseteq Codes
          /\ p[u].live \intersect Live \subseteq p[v].live
      BY <1>5, <1>7, <1>11, <2>1, <3>1
    <3> QED
      BY <1>9, <3>2
  <2>2. CASE q[v] = x
    BY <1>4, <2>2
  <2> QED
    BY <1>7, <2>1, <2>2
<1>12. ASSUME ~Deleted', NEW u \in 1 .. Len(q), NEW v \in 1 .. Len(q), u <= v
       PROVE  q[u].shown \subseteq q[v].shown
  <2>1. \A i, j \in 1 .. Len(p) : i <= j => p[i].shown \subseteq p[j].shown
    BY <1>5, <1>9, <1>12
  <2>2. CASE v \in 1 .. Len(p)
    <3>1. u \in 1 .. Len(p)
      BY <1>12, <1>8, <2>2
    <3> QED
      BY <1>7, <1>12, <2>1, <2>2, <3>1
  <2>3. CASE q[v] = x /\ u \in 1 .. Len(p)
    <3>1. u <= Len(p)
      BY <1>8, <2>3
    <3>2. p[u].shown \subseteq p[Len(p)].shown
      BY <1>8, <2>1, <2>3, <3>1
    <3>3. p[Len(p)].shown = Shown
      BY <1>5, ViewTyped
    <3> QED
      BY <1>4, <1>7, <1>9, <1>12, <2>3, <3>2, <3>3
  <2>4. CASE q[v] = x /\ q[u] = x
    BY <2>4
  <2>5. u \in 1 .. Len(p) \/ q[u] = x
    BY <1>7
  <2>6. v \in 1 .. Len(p) \/ q[v] = x
    BY <1>7
  <2> QED
    BY <2>2, <2>3, <2>4, <2>5, <2>6
<1>13. PastInv'
  <2>1. /\ past' \in Seq(Views) /\ past' # << >> /\ past'[Len(past')] = View'
    BY <1>1, <1>3, <1>7
  <2>2. \A v \in 1 .. Len(past') : /\ past'[v].shown \subseteq past'[v].live
                                   /\ past'[v].live \subseteq Codes'
    BY <1>3, <1>10
  <2>3. \A u, v \in 1 .. Len(past') :
          u <= v => past'[u].live \intersect Live' \subseteq past'[v].live
    BY <1>3, <1>11
  <2>4. Deleted' \/ \A u, v \in 1 .. Len(past') :
                      u <= v => past'[u].shown \subseteq past'[v].shown
    BY <1>3, <1>12
  <2> QED
    BY <2>1, <2>2, <2>3, <2>4 DEF PastInv
<1>14. Kept
  BY <1>2, <1>3, <1>7 DEF Kept
<1> QED
  BY <1>13, <1>14

-----------------------------------------------------------------------------
(* Readers: what was there as of the first answer and is not gone is seen or *)
(* ahead.                                                                    *)

Newer(v, c) == Cardinality(Above(past[v].shown, c))

Browsing(r, pc, page, seen, due, from, ordered) ==
  /\ pc \in {"page", "done"} /\ page \in Nat /\ from \in 1 .. Len(past)
  /\ ordered \in BOOLEAN
  /\ frame[r] = [pc |-> pc, page |-> page, seen |-> seen, due |-> due,
                 from |-> from, ordered |-> ordered]
  /\ call[r].status = "ok" => pc = "done"
  /\ call[r].on = "new" =>
       \/ Deleted \/ ordered = FALSE
       \/ /\ due \subseteq past[from].shown
          /\ \A c \in due : c \in seen \/ (pc = "page" /\ page * Take <= Newer(from, c))
BrowseOK(r) ==
  call[r].route = "browse" =>
    \E pc, page, seen, due, from, ordered :
      Browsing(r, pc, page, seen, due, from, ordered)

Searching(r, pc, codes, seen, due) ==
  /\ pc \in {"codes", "rows", "done"}
  /\ frame[r] = [pc |-> pc, codes |-> codes, seen |-> seen, due |-> due]
  /\ call[r].status = "ok" => pc = "done"
  /\ due \subseteq Codes
  /\ pc = "rows" => due \subseteq codes
  /\ pc = "done" =>
       \/ due \intersect Live \subseteq seen
       \/ call[r].on # ByProfit /\ Cardinality(seen) = SearchTake
SearchOK(r) ==
  call[r].route = "search" =>
    \E pc, codes, seen, due : Searching(r, pc, codes, seen, due)

FeedInv == StrategyInv /\ PastInv /\ \A r \in Requests : BrowseOK(r) /\ SearchOK(r)

(* What every step does to what the lists are computed from.                 *)
Onward == StrategyInv' /\ PastInv' /\ Lists /\ Kept

LEMMA PastIsListed ==
  ASSUME FeedInv, NEW v \in 1 .. Len(past)
  PROVE  past[v].shown \subseteq Nat /\ IsFiniteSet(past[v].shown)
<1>1. strategy \in Seq(Rows)
  BY DEF FeedInv, StrategyInv, StrategyTables
<1>2. past[v].shown \subseteq DOMAIN strategy
  BY DEF FeedInv, PastInv, Codes
<1> QED
  BY <1>1, <1>2, RowsAreFinite

(* A reader another request's step does not touch.                           *)
LEMMA ReaderKeeps ==
  ASSUME FeedInv, Onward, NEW q \in Requests,
         call'[q] = call[q], frame'[q] = frame[q]
  PROVE  BrowseOK(q)' /\ SearchOK(q)'
<1>0. /\ StrategyInv /\ BrowseOK(q) /\ SearchOK(q) /\ Lists /\ Kept
  BY DEF FeedInv, Onward
<1>1. BrowseOK(q)'
  <2> SUFFICES ASSUME call[q].route = "browse" PROVE BrowseOK(q)'
    BY DEF BrowseOK
  <2>1. PICK pc, page, seen, due, from, ordered :
          Browsing(q, pc, page, seen, due, from, ordered)
    BY <1>0, Zenon DEF BrowseOK
  <2>2. from \in 1 .. Len(past') /\ past'[from] = past[from]
    BY <1>0, <2>1 DEF Browsing, Kept
  <2>3. Deleted => Deleted'
    BY <1>0, Marks
  <2>4. \A c : Newer(from, c)' = Newer(from, c)
    BY <2>2 DEF Newer, Above
  <2>5. Browsing(q, pc, page, seen, due, from, ordered)'
    BY <2>1, <2>2, <2>3, <2>4 DEF Browsing
  <2> QED
    BY <2>5, Zenon DEF BrowseOK
<1>2. SearchOK(q)'
  <2> SUFFICES ASSUME call[q].route = "search" PROVE SearchOK(q)'
    BY DEF SearchOK
  <2>1. PICK pc, codes, seen, due : Searching(q, pc, codes, seen, due)
    BY <1>0, Zenon DEF SearchOK
  <2>2. Codes \subseteq Codes' /\ Codes \intersect Live' \subseteq Live
    BY <1>0, Marks
  <2>3. due \subseteq Codes' /\ due \intersect Live' \subseteq due \intersect Live
    BY <2>1, <2>2 DEF Searching
  <2>4. Searching(q, pc, codes, seen, due)'
    BY <2>1, <2>3 DEF Searching
  <2> QED
    BY <2>4, Zenon DEF SearchOK
<1> QED
  BY <1>1, <1>2

(* A step of a request that is no reader and arrives at no list.             *)
LEMMA NoReaderKeeps ==
  ASSUME FeedInv, Onward, NEW r \in Requests, OthersStay(r),
         call'[r].route \notin {"browse", "search"}
  PROVE  FeedInv'
<1>1. ASSUME NEW q \in Requests
      PROVE  BrowseOK(q)' /\ SearchOK(q)'
  <2>1. CASE q = r
    BY <2>1 DEF BrowseOK, SearchOK
  <2>2. CASE q # r
    BY <2>2, ReaderKeeps DEF OthersStay, Framed
  <2> QED
    BY <2>1, <2>2
<1> QED
  BY <1>1 DEF FeedInv, Onward

(* The steps of readers, which write no table.                               *)
LEMMA OthersRead ==
  ASSUME FeedInv, Onward, NEW r \in Requests, OthersStay(r),
         BrowseOK(r)', SearchOK(r)'
  PROVE  FeedInv'
<1>1. ASSUME NEW q \in Requests \ {r}
      PROVE  BrowseOK(q)' /\ SearchOK(q)'
  BY <1>1, ReaderKeeps DEF OthersStay, Framed
<1> QED
  BY <1>1 DEF FeedInv, Onward

LEMMA Tables ==
  ASSUME UNCHANGED strategyVars
  PROVE  Codes' = Codes /\ Live' = Live /\ Deleted' = Deleted
<1>1. strategy' = strategy
  BY DEF strategyVars
<1>2. Codes' = Codes
  BY <1>1 DEF Codes
<1> QED
  BY <1>1, <1>2 DEF Live, Deleted

LEMMA BrowseKeeps ==
  ASSUME FeedInv, Onward, NEW r \in Requests, NEW feed, Browse(r, feed)
  PROVE  FeedInv'
<1> DEFINE f == [pc |-> "page", page |-> 0, seen |-> {}, due |-> {}, from |-> 1,
                 ordered |-> TRUE]
<1>1. Shape /\ Arrive(r, "browse", None, {}, feed, f)
  BY DEF FeedInv, StrategyInv, Browse
<1>2. CanActivate(MemberOf(None), {})
  BY DEF CanActivate
<1>3. /\ OthersStay(r) /\ call'[r].route = "browse" /\ call'[r].status = Open
      /\ frame'[r] = f
  BY <1>1, <1>2, Arrives DEF OthersStay
<1>4. 1 \in 1 .. Len(past')
  <2>1. past' \in Seq(Views) /\ past' # << >>
    BY DEF Onward, PastInv
  <2> QED
    BY <2>1
<1>5. Browsing(r, "page", 0, {}, {}, 1, TRUE)'
  BY <1>3, <1>4 DEF Browsing, Open
<1>6. BrowseOK(r)'
  BY <1>5, Zenon DEF BrowseOK
<1>7. SearchOK(r)'
  BY <1>3 DEF SearchOK
<1> QED
  BY <1>3, <1>6, <1>7, OthersRead

LEMMA SearchKeeps ==
  ASSUME FeedInv, Onward, NEW r \in Requests, NEW what, Search(r, what)
  PROVE  FeedInv'
<1> DEFINE f == [pc |-> "codes", codes |-> {}, seen |-> {}, due |-> {}]
<1>1. Shape /\ Arrive(r, "search", None, {}, what, f)
  BY DEF FeedInv, StrategyInv, Search
<1>2. CanActivate(MemberOf(None), {})
  BY DEF CanActivate
<1>3. /\ OthersStay(r) /\ call'[r].route = "search" /\ call'[r].status = Open
      /\ frame'[r] = f
  BY <1>1, <1>2, Arrives DEF OthersStay
<1>4. Searching(r, "codes", {}, {}, {})'
  BY <1>3 DEF Searching, Open
<1>5. SearchOK(r)'
  BY <1>4, Zenon DEF SearchOK
<1>6. BrowseOK(r)'
  BY <1>3 DEF BrowseOK
<1> QED
  BY <1>3, <1>5, <1>6, OthersRead

(* A page of a list that is no older than that of the page before: what is   *)
(* due was on it and has no fewer before it.                                 *)
LEMMA PageOfLater ==
  ASSUME FeedInv, NEW u \in 1 .. Len(past), NEW v \in 1 .. Len(past), u <= v,
         ~Deleted, NEW page \in Nat, NEW c \in past[u].shown,
         page * Take <= Newer(u, c)
  PROVE  c \in past[v].shown /\ page * Take <= Newer(v, c)
<1>1. past[u].shown \subseteq past[v].shown
  BY DEF FeedInv, PastInv
<1>2. IsFiniteSet(past[u].shown) /\ IsFiniteSet(past[v].shown)
  BY PastIsListed
<1>3. /\ Newer(u, c) \in Nat /\ Newer(v, c) \in Nat /\ Newer(u, c) <= Newer(v, c)
  BY <1>1, <1>2, AboveIsCounted, AboveGrows DEF Newer
<1>4. PICK k \in Nat : k = page * Take
  BY FeedAssumption
<1> QED
  BY <1>1, <1>3, <1>4

LEMMA ReadPageKeeps ==
  ASSUME FeedInv, Onward, NEW r \in Requests, ReadPage(r)
  PROVE  FeedInv'
<1>1. /\ Shape /\ UNCHANGED strategyVars /\ past \in Seq(Views)
      /\ call[r].route = "browse" /\ call[r].status = Open /\ frame[r].pc = "page"
  BY DEF FeedInv, StrategyInv, PastInv, ReadPage, At
<1>2. PICK pc, page, seen, due, from, ordered :
        Browsing(r, pc, page, seen, due, from, ordered)
  BY <1>1, Zenon DEF FeedInv, BrowseOK
<1>3. /\ pc = "page" /\ page \in Nat /\ from \in 1 .. Len(past)
      /\ frame[r] = [pc |-> pc, page |-> page, seen |-> seen, due |-> due,
                     from |-> from, ordered |-> ordered]
  BY <1>1, <1>2 DEF Browsing
<1>4. /\ frame[r].page = page /\ frame[r].seen = seen /\ frame[r].due = due
      /\ frame[r].from = from /\ frame[r].ordered = ordered
  BY <1>3
<1>5. PICK v \in DOMAIN past :
        LET S == past[v].shown
            q == Page(call[r].on, S, frame[r].page)
        IN /\ frame' = [frame EXCEPT ![r] =
                          [pc      |-> IF q = << >> THEN "done" ELSE "page",
                           page    |-> frame[r].page + 1,
                           seen    |-> frame[r].seen \union Members(q),
                           due     |-> IF frame[r].page = 0 THEN S ELSE frame[r].due,
                           from    |-> v,
                           ordered |-> frame[r].ordered /\ frame[r].from <= v]]
           /\ IF q = << >> THEN AnswerOk(r) ELSE UNCHANGED call
  BY ZenonT(60) DEF ReadPage
<1>6. PICK S : S = past[v].shown
  OBVIOUS
<1>7. PICK q : q = Page(call[r].on, S, page)
  OBVIOUS
<1>8. IF q = << >> THEN AnswerOk(r) ELSE UNCHANGED call
  BY <1>4, <1>5, <1>6, <1>7, Zenon
<1>9. PICK last : last = IF q = << >> THEN "done" ELSE "page"
  OBVIOUS
<1>10. PICK all : all = seen \union Members(q)
  OBVIOUS
<1>11. PICK base : base = IF page = 0 THEN S ELSE due
  OBVIOUS
<1>12. PICK inOrder : inOrder = (ordered /\ from <= v)
  OBVIOUS
<1>13. frame' = [frame EXCEPT ![r] = [pc |-> last, page |-> page + 1, seen |-> all,
                                      due |-> base, from |-> v, ordered |-> inOrder]]
  BY <1>4, <1>5, <1>6, <1>7, <1>9, <1>10, <1>11, <1>12, ZenonT(60)
<1>14. /\ Framed(r)
       /\ frame'[r] = [pc |-> last, page |-> page + 1, seen |-> all, due |-> base,
                       from |-> v, ordered |-> inOrder]
  BY <1>1, <1>13, FrameSet
<1>15. /\ OthersStay(r) /\ call'[r].route = "browse" /\ call'[r].on = call[r].on
       /\ q # << >> => call'[r].status = Open
  <2>1. Called(r) /\ (q # << >> => call'[r].status = Open)
    <3>1. CASE q = << >>
      <4>1. AnswerOk(r)
        BY <1>8, <3>1
      <4> QED
        BY <1>1, <3>1, <4>1, OkCalled
    <3>2. CASE q # << >>
      <4>1. call' = call
        BY <1>8, <3>2
      <4> QED
        BY <1>1, <4>1, SameCalled
    <3> QED
      BY <3>1, <3>2
  <2> QED
    BY <1>1, <1>14, <2>1 DEF OthersStay, Called
<1>16. v \in 1 .. Len(past) /\ v \in 1 .. Len(past') /\ past'[v].shown = S
  BY <1>1, <1>6 DEF Onward, Kept
<1>17. S \subseteq Nat /\ IsFiniteSet(S)
  BY <1>6, <1>16, PastIsListed
<1>18. ASSUME call[r].on = "new", ~Deleted, ordered = TRUE, from <= v
       PROVE  /\ base \subseteq S
              /\ \A c \in base : \/ c \in all
                                 \/ /\ last = "page"
                                    /\ (page + 1) * Take <= Cardinality(Above(S, c))
  <2>1. ASSUME NEW c \in base
        PROVE  /\ c \in S
               /\ c \in seen \/ page * Take <= Cardinality(Above(S, c))
    <3>1. CASE page = 0
      <4>1. 0 * Take = 0
        BY FeedAssumption
      <4>2. c \in S
        BY <1>11, <3>1
      <4>3. Cardinality(Above(S, c)) \in Nat
        BY <1>17, AboveIsCounted
      <4> QED
        BY <3>1, <4>1, <4>2, <4>3
    <3>2. CASE page # 0
      <4>1. /\ c \in due /\ due \subseteq past[from].shown
            /\ c \in seen \/ page * Take <= Newer(from, c)
        BY <1>2, <1>11, <1>18, <2>1, <3>2 DEF Browsing
      <4>2. past[from].shown \subseteq S
        BY <1>3, <1>6, <1>16, <1>18 DEF FeedInv, PastInv
      <4>3. page * Take <= Newer(from, c) => page * Take <= Newer(v, c)
        BY <1>3, <1>16, <1>18, <4>1, PageOfLater
      <4>4. Newer(v, c) = Cardinality(Above(S, c))
        BY <1>6 DEF Newer
      <4> QED
        BY <4>1, <4>2, <4>3, <4>4
    <3> QED
      BY <3>1, <3>2
  <2>2. q = NewPage(S, page)
    BY <1>7, <1>18 DEF Page
  <2>3. ASSUME NEW c \in base, c \notin seen
        PROVE  q # << >> /\ (c \in Members(q) \/ (page + 1) * Take <= Cardinality(Above(S, c)))
    BY <1>3, <1>17, <2>1, <2>2, <2>3, PageHolds
  <2> QED
    BY <1>9, <1>10, <2>1, <2>3
<1>19. Browsing(r, last, page + 1, all, base, v, inOrder)'
  <2>1. /\ last \in {"page", "done"} /\ page + 1 \in Nat
        /\ call'[r].status = "ok" => last = "done"
    BY <1>3, <1>9, <1>15 DEF Open
  <2>2. inOrder \in BOOLEAN /\ (inOrder # FALSE => ordered = TRUE /\ from <= v)
    <3>1. ordered \in BOOLEAN
      BY <1>2 DEF Browsing
    <3> QED
      BY <1>12, <3>1
  <2>3. \A c : Newer(v, c)' = Cardinality(Above(S, c))
    BY <1>16 DEF Newer, Above
  <2>4. call'[r].on = "new" =>
          \/ Deleted' \/ inOrder = FALSE
          \/ /\ base \subseteq past'[v].shown
             /\ \A c \in base :
                  c \in all \/ (last = "page" /\ (page + 1) * Take <= Newer(v, c)')
    BY <1>1, <1>15, <1>16, <1>18, <2>2, <2>3, Tables
  <2> QED
    BY <1>14, <1>16, <2>1, <2>2, <2>4 DEF Browsing
<1>20. BrowseOK(r)'
  BY <1>19, Zenon DEF BrowseOK
<1>21. SearchOK(r)'
  BY <1>15 DEF SearchOK
<1> QED
  BY <1>15, <1>20, <1>21, OthersRead

LEMMA SearchCodesKeeps ==
  ASSUME FeedInv, Onward, NEW r \in Requests, SearchCodes(r)
  PROVE  FeedInv'
<1>1. /\ Shape /\ UNCHANGED strategyVars /\ call' = call
      /\ call[r].route = "search" /\ call[r].status = Open
  BY DEF FeedInv, StrategyInv, SearchCodes, At
<1>2. PICK codes : codes = CodesOf(call[r].on)
  OBVIOUS
<1>3. PICK due : due = codes \intersect Live
  OBVIOUS
<1>4. frame' = [frame EXCEPT ![r] = [pc |-> "rows", codes |-> codes, seen |-> {},
                                     due |-> due]]
  BY <1>2, <1>3, Zenon DEF SearchCodes
<1>5. /\ Framed(r)
      /\ frame'[r] = [pc |-> "rows", codes |-> codes, seen |-> {}, due |-> due]
  BY <1>1, <1>4, FrameSet
<1>6. OthersStay(r) /\ call'[r] = call[r]
  BY <1>1, <1>5, SameCalled DEF OthersStay, Called
<1>7. due \subseteq Codes' /\ due \subseteq codes
  BY <1>1, <1>3, Tables DEF Live
<1>8. Searching(r, "rows", codes, {}, due)'
  BY <1>1, <1>5, <1>6, <1>7 DEF Searching, Open
<1>9. SearchOK(r)'
  BY <1>8, Zenon DEF SearchOK
<1>10. BrowseOK(r)'
  BY <1>1 DEF BrowseOK
<1> QED
  BY <1>6, <1>9, <1>10, OthersRead

(* A search that ends: with all that it found, or as many as it may.         *)
LEMMA SearchEnds ==
  ASSUME FeedInv, Onward, NEW r \in Requests, UNCHANGED strategyVars, AnswerOk(r),
         call[r].route = "search",
         NEW codes, NEW seen, NEW due, NEW found, due \subseteq Codes,
         seen \in TakenOf(call[r].on, found), due \intersect Live \subseteq found,
         frame' = [frame EXCEPT ![r] = [pc |-> "done", codes |-> codes,
                                        seen |-> seen, due |-> due]]
  PROVE  FeedInv'
<1>1. Shape
  BY DEF FeedInv, StrategyInv
<1>2. /\ Framed(r)
      /\ frame'[r] = [pc |-> "done", codes |-> codes, seen |-> seen, due |-> due]
  BY <1>1, FrameSet
<1>3. /\ OthersStay(r) /\ call'[r].route = "search" /\ call'[r].on = call[r].on
  BY <1>1, <1>2, OkCalled DEF OthersStay, Called
<1>4. seen = found \/ (call[r].on # ByProfit /\ Cardinality(seen) = SearchTake)
  BY DEF TakenOf
<1>5. \/ due \intersect Live' \subseteq seen
      \/ call'[r].on # ByProfit /\ Cardinality(seen) = SearchTake
  BY <1>3, <1>4, Tables
<1>6. due \subseteq Codes'
  BY Tables
<1>7. Searching(r, "done", codes, seen, due)'
  BY <1>2, <1>5, <1>6 DEF Searching
<1>8. SearchOK(r)'
  BY <1>7, Zenon DEF SearchOK
<1>9. BrowseOK(r)'
  BY <1>3 DEF BrowseOK
<1> QED
  BY <1>3, <1>8, <1>9, OthersRead

LEMMA SearchRowsKeeps ==
  ASSUME FeedInv, Onward, NEW r \in Requests, SearchRows(r)
  PROVE  FeedInv'
<1>1. /\ UNCHANGED strategyVars /\ AnswerOk(r)
      /\ call[r].route = "search" /\ call[r].status = Open /\ frame[r].pc = "rows"
  BY DEF SearchRows, At
<1>2. PICK pc, codes, old, due : Searching(r, pc, codes, old, due)
  BY <1>1, Zenon DEF FeedInv, SearchOK
<1>3. /\ pc = "rows" /\ due \subseteq codes /\ due \subseteq Codes
      /\ frame[r].codes = codes /\ frame[r].due = due
  BY <1>1, <1>2 DEF Searching
<1>4. PICK S \in TakenOf(call[r].on, codes \intersect Live) :
        frame' = [frame EXCEPT ![r] = [pc |-> "done", codes |-> codes, seen |-> S,
                                       due |-> due]]
  BY <1>3, ZenonT(60) DEF SearchRows
<1>5. due \intersect Live \subseteq codes \intersect Live
  BY <1>3
<1> QED
  BY <1>1, <1>3, <1>4, <1>5, SearchEnds

LEMMA SearchKeptKeeps ==
  ASSUME FeedInv, Onward, NEW r \in Requests, SearchKept(r)
  PROVE  FeedInv'
<1>1. /\ UNCHANGED strategyVars /\ AnswerOk(r) /\ call[r].route = "search"
      /\ past \in Seq(Views)
  BY DEF SearchKept, At, FeedInv, PastInv
<1>2. PICK v \in DOMAIN past : \E u \in 1 .. v :
        \E codes \in CodesAsOf(call[r].on, u) :
          \E S \in TakenOf(call[r].on, codes \intersect past[v].live) :
            frame' = [frame EXCEPT ![r] = [pc |-> "done", codes |-> codes, seen |-> S,
                                           due |-> codes \intersect past[u].live]]
  BY Zenon DEF SearchKept
<1>3. PICK u \in 1 .. v :
        \E codes \in CodesAsOf(call[r].on, u) :
          \E S \in TakenOf(call[r].on, codes \intersect past[v].live) :
            frame' = [frame EXCEPT ![r] = [pc |-> "done", codes |-> codes, seen |-> S,
                                           due |-> codes \intersect past[u].live]]
  BY <1>2, Zenon
<1>4. PICK codes \in CodesAsOf(call[r].on, u) :
        \E S \in TakenOf(call[r].on, codes \intersect past[v].live) :
          frame' = [frame EXCEPT ![r] = [pc |-> "done", codes |-> codes, seen |-> S,
                                         due |-> codes \intersect past[u].live]]
  BY <1>3, Zenon
<1>5. PICK due : due = codes \intersect past[u].live
  OBVIOUS
<1>6. PICK S \in TakenOf(call[r].on, codes \intersect past[v].live) :
        frame' = [frame EXCEPT ![r] = [pc |-> "done", codes |-> codes, seen |-> S,
                                       due |-> due]]
  BY <1>4, <1>5, Zenon
<1>7. u \in 1 .. Len(past) /\ v \in 1 .. Len(past) /\ u <= v
  BY <1>1
<1>8. /\ past[u].live \subseteq Codes
      /\ past[u].live \intersect Live \subseteq past[v].live
  BY <1>7 DEF FeedInv, PastInv
<1>9. due \subseteq Codes /\ due \intersect Live \subseteq codes \intersect past[v].live
  BY <1>5, <1>8
<1> QED
  BY <1>1, <1>6, <1>9, SearchEnds

LEMMA FeedInit == Init => FeedInv
<1> SUFFICES ASSUME Init PROVE FeedInv
  OBVIOUS
<1>1. \A r \in Requests : call[r] = Unused
  BY DEF Init, GatewayInit
<1>2. Unused.route \notin {"browse", "search"}
  BY FeedAssumption DEF Unused
<1>3. StrategyInv /\ PastInv
  BY StrategyInvInit, PastInit1 DEF Init
<1> QED
  BY <1>1, <1>2, <1>3 DEF FeedInv, BrowseOK, SearchOK

LEMMA FeedNext == FeedInv /\ [Next]_vars => FeedInv'
<1> SUFFICES ASSUME FeedInv, [Next]_vars PROVE FeedInv'
  OBVIOUS
<1> DEFINE W == {"browse", "search"}
<1>0. StrategyInv' /\ Shape /\ StrategyInv /\ PastInv
  BY StrategyNext DEF FeedInv, StrategyInv
<1>1. ASSUME Remembers, UNCHANGED strategyVars
      PROVE  Onward
  <2>1. Lists
    BY <1>1, SameLists DEF strategyVars
  <2> QED
    BY <1>0, <1>1, <2>1, PastKeeps DEF Onward
<1>2. ASSUME NEW r \in Requests, StrategyStep(r), Remembers
      PROVE  FeedInv'
  <2>1. Foreign(r, Away) /\ Framed(r)
    BY <1>0, <1>2, StrategyAway
  <2>2. OthersStay(r) /\ call'[r].route \notin {"browse", "search"}
    BY <2>1 DEF Foreign, Away, OthersStay
  <2>3. Onward
    BY <1>0, <1>2, StrategyLists, PastKeeps DEF Onward
  <2> QED
    BY <1>2, <2>2, <2>3, NoReaderKeeps
<1>3. ASSUME NEW r \in Requests, MemberStep(r), UNCHANGED strategyVars, Remembers
      PROVE  FeedInv'
  <2>1. Outside(r, W)
    BY <1>0, <1>3, MemberOutside
  <2> QED
    BY <1>1, <1>3, <2>1, NoReaderKeeps DEF Outside, OthersStay
<1>4. ASSUME NEW r \in Requests, UploadStep(r), UNCHANGED strategyVars, Remembers
      PROVE  FeedInv'
  <2>1. Foreign(r, W) /\ Framed(r)
    BY <1>0, <1>4, UploadOutside
  <2> QED
    BY <1>1, <1>4, <2>1, NoReaderKeeps DEF Foreign, OthersStay
<1>5. ASSUME NEW r \in Requests, FeedStep(r), Remembers
      PROVE  FeedInv'
  <2>1. UNCHANGED strategyVars
    BY <1>5 DEF FeedStep, Browse, ReadPage, Search, SearchCodes, SearchRows, SearchKept
  <2>2. Onward
    BY <1>1, <1>5, <2>1
  <2> QED
    BY <1>5, <2>2, BrowseKeeps, ReadPageKeeps, SearchKeeps, SearchCodesKeeps,
       SearchRowsKeeps, SearchKeptKeeps DEF FeedStep
<1>6. ASSUME call' = call, frame' = frame, Onward
      PROVE  FeedInv'
  <2>1. \A q \in Requests : BrowseOK(q)' /\ SearchOK(q)'
    BY <1>6, ReaderKeeps
  <2> QED
    BY <1>6, <2>1 DEF FeedInv, Onward
<1>7. CASE Tick /\ UNCHANGED strategyVars /\ Remembers
  BY <1>1, <1>6, <1>7 DEF Tick, gatewayVars
<1>8. CASE UNCHANGED vars
  <2>1. UNCHANGED strategyVars /\ past' = past
    BY <1>8 DEF vars
  <2>2. Lists /\ View' = View /\ Kept
    <3>1. Lists
      BY <2>1, SameLists DEF strategyVars
    <3>2. View' = View
      BY <2>1 DEF View, Shown, Live, CodesOf, Codes, strategyVars
    <3> QED
      BY <2>1, <3>1, <3>2 DEF Kept
  <2>3. Remembers
    BY <2>1, <2>2 DEF Remembers
  <2> QED
    BY <1>1, <1>6, <1>8, <2>1, <2>3 DEF vars, gatewayVars
<1> QED
  BY <1>2, <1>3, <1>4, <1>5, <1>7, <1>8 DEF Next, Step

LEMMA ListsAreRead == Spec => []FeedInv
  BY FeedInit, FeedNext, PTL DEF Spec

(* A list is read whole: page after page while strategies are made, every    *)
(* open strategy that was there as of the first page and is not gone is on   *)
(* one of them, unless a page was kept in Redis from before the one before   *)
(* it; and a search of two queries, or one kept, finds every holder that is  *)
(* not gone, or as many as it may answer with                                *)
(* (StrategyService.getStrategyListNew, searchStrategyByTickerName,          *)
(* getStrategyListHighProfit behind HttpCacheInterceptor).                   *)
THEOREM ReadersMissNothingHere == Spec => []ReadersMissNothing
<1>1. FeedInv => ReadersMissNothing
  <2> SUFFICES ASSUME FeedInv, NEW r \in Requests
               PROVE  /\ Answered(r, "browse") =>
                           \/ call[r].on = "new" => frame[r].due \subseteq frame[r].seen
                           \/ ~frame[r].ordered
                           \/ \E c \in Codes : ~strategy[c].live
                      /\ Answered(r, "search") =>
                           \/ frame[r].due \ Gone(frame[r].due) \subseteq frame[r].seen
                           \/ /\ call[r].on # ByProfit
                              /\ Cardinality(frame[r].seen) = SearchTake
    BY Zenon DEF ReadersMissNothing
  <2>1. ASSUME Answered(r, "browse"), call[r].on = "new", frame[r].ordered,
               ~Deleted
        PROVE  frame[r].due \subseteq frame[r].seen
    <3>1. PICK pc, page, seen, due, from, ordered :
            Browsing(r, pc, page, seen, due, from, ordered)
      BY <2>1, Zenon DEF FeedInv, BrowseOK, Answered
    <3>2. /\ frame[r].due = due /\ frame[r].seen = seen /\ pc = "done"
          /\ frame[r].ordered = ordered
      BY <2>1, <3>1 DEF Browsing, Answered
    <3> QED
      BY <2>1, <3>1, <3>2 DEF Browsing
  <2>2. ASSUME Answered(r, "search")
        PROVE  \/ frame[r].due \ Gone(frame[r].due) \subseteq frame[r].seen
               \/ call[r].on # ByProfit /\ Cardinality(frame[r].seen) = SearchTake
    <3>1. PICK pc, codes, seen, due : Searching(r, pc, codes, seen, due)
      BY <2>2, Zenon DEF FeedInv, SearchOK, Answered
    <3>2. /\ frame[r].due = due /\ frame[r].seen = seen /\ pc = "done"
          /\ due \subseteq Codes
      BY <2>2, <3>1 DEF Searching, Answered
    <3>3. due \ Gone(due) \subseteq due \intersect Live
      BY <3>2 DEF Gone, Live
    <3> QED
      BY <3>1, <3>2, <3>3 DEF Searching
  <2> QED
    BY <2>1, <2>2 DEF Deleted
<1> QED
  BY <1>1, ListsAreRead, PTL

-----------------------------------------------------------------------------
(* The server keeps its types: a token is of a member whose row is there,    *)
(* every answer has a status of the interceptor, a member's row is whole     *)
(* from its first insert, every code in the tables of the strategies is of a *)
(* strategy, a list shows only what is not deleted, and no picture is filed  *)
(* under a key that is not one.                                              *)
THEOREM TheServerIsTyped == Spec => []TypeOK
<1>1. MemberInv => MemberTypeOK
  BY DEF MemberInv, TablesOK, MemberTypeOK
<1>2. StrategyInv => StrategyTypeOK
  <2> SUFFICES ASSUME StrategyInv PROVE StrategyTypeOK
    OBVIOUS
  <2>1. \A c \in Codes : strategy[c].maker \in Emails /\ strategy[c].operator \in Emails
    <3> SUFFICES ASSUME NEW c \in Codes
                 PROVE  strategy[c].maker \in Emails /\ strategy[c].operator \in Emails
      OBVIOUS
    <3>1. strategy \in Seq(Rows)
      BY DEF StrategyInv, StrategyTables
    <3>2. strategy[c] \in Rows
      BY <3>1 DEF Codes
    <3> QED
      BY <3>2 DEF Rows
  <2> QED
    BY <2>1 DEF StrategyInv, StrategyTables, StrategyTypeOK
<1>3. UploadInv => UploadTypeOK
  BY DEF UploadInv
<1>4. Spec => []MemberInv
  BY MemberInit1, NextKeeps, PTL DEF Spec
<1>5. Spec => []UploadInv
  BY PictureInit, PictureKeeps, PTL DEF Spec
<1>6. Spec => [](GatewayTypeOK /\ Callers)
  BY <1>4, CallersInit, GatewayInitTyped, GatewayTyped, PTL DEF Spec
<1>7. FeedInv => FeedTypeOK
  <2>1. FeedInv => past \in Seq(Views)
    BY DEF FeedInv, PastInv
  <2> QED
    BY <2>1 DEF FeedInv, PastInv, FeedTypeOK
<1>8. GatewayTypeOK /\ MemberTypeOK /\ StrategyTypeOK /\ UploadTypeOK /\ FeedTypeOK
        => TypeOK
  BY DEF TypeOK
<1> QED
  BY <1>1, <1>2, <1>3, <1>4, <1>5, <1>6, <1>7, <1>8, StrategiesAreKept, ListsAreRead,
     PTL

================================================================================
