-------------------------------- MODULE Gateway --------------------------------
(*****************************************************************************)
(* The way of an HTTP request into and out of the Nest server: JwtMiddleWare *)
(* finds the member of the token, AuthGuard compares the member's role with  *)
(* the route's, a controller calls a service, and ErrorHandlerInterceptor    *)
(* turns what the service throws into a status.  One process serves every    *)
(* request, and a request gives way to the others at each awaited call: a    *)
(* service is therefore one action per call.                                 *)
(*****************************************************************************)
EXTENDS Integers, Sequences, FiniteSets

CONSTANTS
  Requests,    (* bound: the requests that arrive, each is used once       *)
  Emails,      (* addresses, a member's key                                *)
  Seeded,      (* Seeded[e]: the role the address has at first, or None    *)
  SignedIn,    (* the addresses with a token to begin with                 *)
  None,
  MaxFaults    (* bound: database or storage calls that raise              *)

Roles == {"Normal", "Admin", "DAServer"}

ASSUME GatewayAssumption ==
  /\ None \notin Roles
  /\ None \notin Emails
  /\ Seeded \in [Emails -> Roles \union {None}]
  /\ SignedIn \subseteq {e \in Emails : Seeded[e] # None}
  /\ MaxFaults \in Nat

VARIABLES
  role,     (* role[e]: the member's role, None: no row in member_info     *)
  tokens,   (* the addresses a token was signed for; tokens do not expire  *)
  call,     (* call[r]: a request: its route, its member, what it is about *)
            (* and its status                                              *)
  frame,    (* frame[r]: the local state of the service that serves r      *)
  faults

gatewayVars == <<role, tokens, call, frame, faults>>

Open     == "open"
Unused   == [route |-> None, user |-> None, on |-> None, status |-> "unused"]
NoFrame  == [pc |-> "none"]

GatewayInit ==
  /\ role   = Seeded
  /\ tokens = SignedIn
  /\ call   = [r \in Requests |-> Unused]
  /\ frame  = [r \in Requests |-> NoFrame]
  /\ faults = 0

(* The member the middleware attaches: the token's, if its row is found;     *)
(* a token that is absent or fails to verify leaves the request anonymous,   *)
(* and so does a look-up that raises, which the middleware swallows: such a  *)
(* request is one that arrives with the token None.                          *)
MemberOf(token) == IF token \in tokens /\ role[token] # None THEN token
                                                             ELSE None

(* AuthGuard.canActivate.  roles = {}: the route has no Roles.               *)
CanActivate(member, roles) ==
  \/ roles = {}
  \/ member # None /\ ("Any" \in roles \/ role[member] \in roles)

(* A request reaches its handler, which begins in local state f.             *)
Arrive(r, route, token, roles, on, f) ==
  /\ call[r] = Unused
  /\ token \in tokens \union {None}
  /\ LET member == MemberOf(token) IN
     LET may == CanActivate(member, roles) IN
     /\ call'  = [call EXCEPT ![r] =
                    [route |-> route, user |-> member, on |-> on,
                     status |-> IF may THEN Open ELSE "forbidden"]]
     /\ frame' = [frame EXCEPT ![r] = IF may THEN f ELSE NoFrame]
  /\ UNCHANGED <<role, tokens, faults>>

(* The statuses of ErrorHandlerInterceptor.                                  *)
StatusOf == [EntityNotFoundError |-> "not found",
             PasswordWrongError  |-> "unauthorized",
             AlreadyExistError   |-> "bad request",
             QueryFailedError    |-> "server error",
             TypeError           |-> "server error"]
Statuses == {StatusOf[e] : e \in DOMAIN StatusOf}
              \union {"unused", Open, "ok", "forbidden"}

At(r, route, pc) == call[r].route = route /\ call[r].status = Open
                      /\ frame[r].pc = pc
AnswerOk(r)      == call' = [call EXCEPT ![r].status = "ok"]
Throw(r, error)  == call' = [call EXCEPT ![r].status = StatusOf[error]]
Go(r, pc)        == frame' = [frame EXCEPT ![r].pc = pc]
Leave(r)         == frame' = [frame EXCEPT ![r] = NoFrame]

(* A call to the database or to the object store raises.                     *)
Fault == faults < MaxFaults /\ faults' = faults + 1

GatewayTypeOK ==
  /\ role   \in [Emails -> Roles \union {None}]
  /\ tokens \subseteq {e \in Emails : role[e] # None}
  /\ \A r \in Requests : call[r].status \in Statuses
                           /\ call[r].user \in Emails \union {None}
  /\ faults \in 0 .. MaxFaults
===============================================================================
