----------------------------- MODULE MemberService -----------------------------
(*****************************************************************************)
(* Members: registration, change of name and password, login.  Each is a     *)
(* read of table member_info and then a save, with nothing held between;     *)
(* TypeORM's save is itself a select of the row and the insert of a new      *)
(* one or the update of the columns that differ.                             *)
(*****************************************************************************)
EXTENDS Gateway

CONSTANTS
  Names, Passwords,    (* a stored password is the hash of one of them     *)
  StartName, StartPassword

ASSUME MemberAssumption ==
  /\ None \notin Names \union Passwords \union {"login"}
  /\ StartName \in Names /\ StartPassword \in Passwords

VARIABLES
  account,   (* account[e]: name and password of the row                   *)
  promised,  (* ghost: what the answers say the row is                     *)
  overlapped (* ghost: addresses two writing requests wrote at once        *)

memberVars == <<account, promised, overlapped>>

Account  == [name : Names, password : Passwords]
NoAccount == [name |-> None, password |-> None]
FirstAccount == [name |-> StartName, password |-> StartPassword]

MemberInit ==
  /\ account = [e \in Emails |-> IF Seeded[e] = None THEN NoAccount
                                                     ELSE FirstAccount]
  /\ promised   = account
  /\ overlapped = {}

(* The open requests that write the row of e.                                *)
Writers(e) == {r \in Requests : call[r].status = Open
                 /\ call[r].route \in {"register", "change"}
                 /\ call[r].on = e}

(* A slip: what the select does not fetch is not written.                    *)
ChangedFetched(entity, row) ==
  [name     |-> IF entity.name = row.name THEN None ELSE entity.name,
   password |-> None]

(* The columns a save writes: the entity's name if the fresh row's differs,  *)
(* and its password if it has one, since the select does not fetch that      *)
(* column to compare with.                                                   *)
Changed(entity, row) ==
  [name     |-> IF entity.name = row.name THEN None ELSE entity.name,
   password |-> entity.password]

Patched(row, patch) ==
  [name     |-> IF patch.name = None THEN row.name ELSE patch.name,
   password |-> IF patch.password = None THEN row.password
                                         ELSE patch.password]

Begin(r, route, e, a) ==
  /\ Arrive(r, route, None, {}, e,
            [pc |-> "find", asked |-> a, entity |-> a, patch |-> NoAccount,
             insert |-> FALSE])
  /\ overlapped' = IF Writers(e) = {} THEN overlapped ELSE overlapped \union {e}
  /\ UNCHANGED <<account, promised>>

Register(r, e, a) == Begin(r, "register", e, a)

(* A slip: the address is not looked up.                                     *)
RegisterUnasked(r) ==
  /\ At(r, "register", "find")
  /\ frame' = [frame EXCEPT ![r].pc = "select"]
  /\ UNCHANGED <<call, role, tokens, faults, memberVars>>

(* createMemberInfo: the address must be free.                               *)
RegisterFind(r) ==
  /\ At(r, "register", "find")
  /\ IF role[call[r].on] # None
       THEN Throw(r, "AlreadyExistError") /\ Leave(r)
       ELSE frame' = [frame EXCEPT ![r].pc = "select"] /\ UNCHANGED call
  /\ UNCHANGED <<role, tokens, faults, memberVars>>

(* updateMemberInfo: the row of the address in the body; what the body       *)
(* leaves out (None) stays.                                                  *)
Change(r, e, a) == Begin(r, "change", e, a)

ChangeFind(r) ==
  /\ At(r, "change", "find")
  /\ LET e == call[r].on IN
     IF role[e] = None
       THEN Throw(r, "EntityNotFoundError") /\ Leave(r)
       ELSE /\ frame' = [frame EXCEPT ![r].pc = "select",
                           ![r].entity.name = IF @ = None THEN account[e].name
                                                          ELSE @]
            /\ UNCHANGED call
  /\ UNCHANGED <<role, tokens, faults, memberVars>>

AtSave(r, pc) == \E route \in {"register", "change"} : At(r, route, pc)

(* save: the select.                                                         *)
SaveSelects(r) ==
  /\ AtSave(r, "select")
  /\ LET e == call[r].on IN
     frame' = [frame EXCEPT ![r].pc = "write",
                 ![r].insert = role[e] = None,
                 ![r].patch  = Changed(frame[r].entity, account[e])]
  /\ UNCHANGED <<call, role, tokens, faults, memberVars>>

(* A slip: an update writes the whole entity, the password that was not      *)
(* read with it.                                                             *)
SaveWritesAll(r) ==
  /\ AtSave(r, "write")
  /\ LET e == call[r].on IN
     /\ account'  = [account EXCEPT ![e] = frame[r].entity]
     /\ role'     = [role EXCEPT ![e] = IF @ = None THEN "Normal" ELSE @]
     /\ promised' = [promised EXCEPT ![e] = Patched(@, frame[r].asked)]
  /\ AnswerOk(r)
  /\ Leave(r)
  /\ UNCHANGED <<tokens, faults, overlapped>>

(* save: the insert, which the key refuses when the row is there by now, or  *)
(* the update.                                                               *)
SaveWrites(r) ==
  /\ AtSave(r, "write")
  /\ LET e   == call[r].on
         row == IF frame[r].insert THEN frame[r].entity
                                   ELSE Patched(account[e], frame[r].patch)
     IN IF frame[r].insert /\ role[e] # None
          THEN /\ Throw(r, "QueryFailedError")
               /\ UNCHANGED <<role, account, promised>>
          ELSE /\ account'  = [account EXCEPT ![e] = row]
               /\ role'     = [role EXCEPT ![e] = IF @ = None THEN "Normal"
                                                              ELSE @]
               /\ promised' = [promised EXCEPT ![e] =
                                 Patched(@, frame[r].asked)]
               /\ AnswerOk(r)
  /\ Leave(r)
  /\ UNCHANGED <<tokens, faults, overlapped>>

(* loginMemberInfo: the password is compared with the hash that was read.    *)
Login(r, e, p) ==
  /\ Arrive(r, "login", None, {}, e, [pc |-> "find", password |-> p])
  /\ UNCHANGED memberVars

LoginFind(r) ==
  /\ At(r, "login", "find")
  /\ LET e == call[r].on IN
     IF role[e] # None /\ account[e].password = frame[r].password
       THEN AnswerOk(r) /\ tokens' = tokens \union {e}
       ELSE /\ Throw(r, IF role[e] = None THEN "EntityNotFoundError"
                                          ELSE "PasswordWrongError")
            /\ UNCHANGED tokens
  /\ Leave(r)
  /\ UNCHANGED <<role, faults, memberVars>>

(* Any of the calls raises.                                                  *)
MemberRaises(r) ==
  /\ \E route \in {"register", "change", "login"} :
       \E pc \in {"find", "select", "write"} : At(r, route, pc)
  /\ Fault
  /\ Throw(r, "QueryFailedError")
  /\ Leave(r)
  /\ UNCHANGED <<role, tokens, memberVars>>

(* GET me: what the middleware found, if it found one.                       *)
Me(r, token) ==
  /\ Arrive(r, "me", token, {}, None, [pc |-> "return"])
  /\ UNCHANGED memberVars

MeReturns(r) ==
  /\ At(r, "me", "return")
  /\ AnswerOk(r)
  /\ Leave(r)
  /\ UNCHANGED <<role, tokens, faults, memberVars>>

Asked == [name : Names \union {None}, password : Passwords \union {None}]

MemberStep(r) ==
  \/ \E e \in Emails, a \in Account : Register(r, e, a)
  \/ RegisterFind(r)
  \/ \E e \in Emails, a \in Asked : Change(r, e, a)
  \/ ChangeFind(r)
  \/ SaveSelects(r)
  \/ SaveWrites(r)
  \/ \E e \in Emails, p \in Passwords : Login(r, e, p)
  \/ LoginFind(r)
  \/ MemberRaises(r)
  \/ \E t \in Emails \union {None} : Me(r, t)
  \/ MeReturns(r)

-----------------------------------------------------------------------------
(* Properties *)

MemberTypeOK ==
  /\ \A e \in Emails : account[e] \in
       IF role[e] = None THEN {NoAccount} ELSE Account
  /\ overlapped \subseteq Emails

(* A row is what the answered requests say.  Its password is so whatever     *)
(* overlaps, because no save writes a password it was not given; its name    *)
(* is so unless two requests wrote the row at once, when the one that did    *)
(* not touch the name may write the old one back.                            *)
RowIsAsAnswered ==
  \A e \in Emails :
    /\ account[e].password = promised[e].password
    /\ e \notin overlapped => account[e].name = promised[e].name

(* An address is registered once: of two registrations that were answered    *)
(* ok, the second overlapped a writer of the row (it looked the address up   *)
(* before the first one's insert, and its save found the row and took it     *)
(* over).                                                                    *)
RegisteredOnce ==
  \A e \in Emails \ overlapped :
    \A r, s \in Requests :
      /\ {call[r].route, call[s].route} = {"register"}
      /\ {call[r].on, call[s].on} = {e}
      /\ {call[r].status, call[s].status} = {"ok"}
      => r = s
=============================================================================
