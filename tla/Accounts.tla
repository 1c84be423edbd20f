------------------------------ MODULE Accounts -------------------------------
(***************************************************************************)
(* The accounts of the engine and the tokens it issues: the handlers of    *)
(* internal/api/v1/auth.go and users.go, run by concurrent clients behind  *)
(* the token check of internal/api/middleware/auth.go, over the users      *)
(* table as internal/repository/postgres_user.go uses it.                  *)
(*                                                                         *)
(* One statement on the table is one transaction; a handler that makes two *)
(* is two steps, and so is one that checks the token before its statement. *)
(* Deleting is soft: the row stays, hidden from queries and updates but not*)
(* from the unique index on the email.  The engine keeps no tokens: a      *)
(* client's is what the client holds, until it expires.                    *)
(***************************************************************************)
EXTENDS Integers

CONSTANTS
  Clients,         \* clients of the engine, one request at a time each
  IDs,             \* identities of accounts (UUIDs)
  Emails,          \* addresses the bindings accept
  BadRequest,      \* a body they refuse
  Passwords,       \* passwords they accept
  LongPasswords,   \* those of them that bcrypt refuses to hash
  Keys,            \* what bcrypt makes of passwords, the salt left out
  BcryptKey,       \* what it makes of each
  Roles,           \* admin, developer, viewer
  Developer,       \* the default role
  NoRole,          \* no role in the request
  NoUser,          \* no row
  NoToken,         \* no token, or an expired one
  DBMayFail        \* whether the database may fail

ASSUME ACAssumption ==
  /\ LongPasswords \subseteq Passwords
  /\ BcryptKey \in [Passwords -> Keys]
  /\ Developer \in Roles /\ NoRole \notin Roles
  /\ DBMayFail \in BOOLEAN

VARIABLES
  users,    \* the table, deleted rows included
  client,   \* each client: its place in a handler, and its last answer
  token,    \* the token each client holds
  held      \* history: the roles each account has had

acVars == <<users, client, token, held>>

-----------------------------------------------------------------------------
User == [Email : Emails, PasswordHash : Keys, Role : Roles,
         FcmToken : BOOLEAN, Deleted : BOOLEAN]

Claims == [UserID : IDs, Email : Emails, Role : Roles]

RegisterRequest ==
  [Email : Emails, Password : Passwords, Role : Roles \cup {NoRole}]
LoginRequest == [Email : Emails, Password : Passwords]

(* What a request keeps of its email and password.                         *)
Credentials == [Email : Emails, Key : Keys]

Codes == {0, 200, 201, 400, 401, 409, 500}

ClientState ==
  [pc : {"idle", "create", "token", "update"},
   op : {"none", "register", "login", "role", "delete", "fcm", "update"},
   req : Credentials \cup {BadRequest},
   id : IDs \cup {NoUser}, role : Roles \cup {NoRole},
   code : Codes,
   missed : BOOLEAN]      \* history: the table refused or matched nothing

ASSUME ACDistinct ==
  /\ NoUser \notin User /\ NoUser \notin IDs /\ NoToken \notin Claims
  /\ BadRequest \notin Credentials

ACTypeOK ==
  /\ users \in [IDs -> User \cup {NoUser}]
  /\ client \in [Clients -> ClientState]
  /\ token \in [Clients -> Claims \cup {NoToken}]
  /\ held \in [IDs -> SUBSET Roles]

Idle == [pc |-> "idle", op |-> "none", req |-> BadRequest, id |-> NoUser,
         role |-> NoRole, code |-> 0, missed |-> FALSE]

ACInit ==
  /\ users = [id \in IDs |-> NoUser]
  /\ client = [c \in Clients |-> Idle]
  /\ token = [c \in Clients |-> NoToken]
  /\ held = [id \in IDs |-> {}]

-----------------------------------------------------------------------------
(* The table. *)

Live(id) == users[id] # NoUser /\ ~users[id].Deleted

FindByEmail(email) == {id \in IDs : Live(id) /\ users[id].Email = email}

\* Variant: an index over email and deleted_at, which is null in every live
\* row and so never equal.
LiveEmailTaken(email) == FALSE
EmailTaken(email) == \E id \in IDs : users[id] # NoUser /\ users[id].Email = email

(* A request that goes on, with what it keeps for its next step: the email *)
(* and what bcrypt looks at of the password - of a long one only the first *)
(* 72 bytes -, the account and its role.                                   *)
GoOn(c, op, req, pc, id, role) ==
  client' = [client EXCEPT ![c] =
    [Idle EXCEPT !.op = op, !.pc = pc, !.id = id, !.role = role,
       !.req = [Email |-> req.Email, Key |-> BcryptKey[req.Password]]]]

(* The answer that ends a request.  It is kept, under the operation's      *)
(* name, where anything is claimed of it; of the others, under "none",     *)
(* only that the request has ended.                                        *)
Answer(c, op, code) ==
  client' = [client EXCEPT ![c] =
    [Idle EXCEPT !.op = op, !.code = IF op = "none" THEN 0 ELSE code]]
AnswerMissed(c, op, code) ==
  client' = [client EXCEPT ![c] =
    [Idle EXCEPT !.op = op, !.code = code, !.missed = TRUE]]

-----------------------------------------------------------------------------
(* Register: the look-up, the insert, the token. *)

RefuseBody(c) ==
  /\ client[c].pc = "idle"
  /\ Answer(c, "none", 400)
  /\ UNCHANGED <<users, token>>

(* Nothing is looked up and nothing is sent.                               *)
ForgotPassword(c) ==
  /\ client[c].pc = "idle"
  /\ Answer(c, "none", 200)
  /\ UNCHANGED <<users, token>>

RoleOrDefault(role) == IF role = NoRole THEN Developer ELSE role

Register(c, req) ==
  LET new == FindByEmail(req.Email) = {}
  IN /\ client[c].pc = "idle"
     /\ \/ ~new /\ Answer(c, "none", 409)
        \/ DBMayFail /\ Answer(c, "none", 500)
        \/ new /\ req.Password \in LongPasswords /\ Answer(c, "none", 500)
        \/ new /\ req.Password \notin LongPasswords
           /\ GoOn(c, "register", req, "create", NoUser, RoleOrDefault(req.Role))
     /\ UNCHANGED <<users, token>>

\* Variant: the row gets the default role, the token the request's.
CreateUserRaw(c, id) ==
  /\ client[c].pc = "create"
  /\ users[id] = NoUser /\ ~EmailTaken(client[c].req.Email)
  /\ users' = [users EXCEPT ![id] =
       [Email |-> client[c].req.Email, PasswordHash |-> client[c].req.Key,
        Role |-> Developer, FcmToken |-> FALSE, Deleted |-> FALSE]]
  /\ client' = [client EXCEPT ![c].pc = "token", ![c].id = id]
  /\ UNCHANGED token

CreateUser(c, id) ==
  LET req == client[c].req
      Insert == users' = [users EXCEPT ![id] =
        [Email |-> req.Email, PasswordHash |-> req.Key, Role |-> client[c].role,
         FcmToken |-> FALSE, Deleted |-> FALSE]]
      Free == users[id] = NoUser /\ ~EmailTaken(req.Email)
  IN /\ client[c].pc = "create"
     /\ \/ Free /\ Insert /\ client' = [client EXCEPT ![c].pc = "token", ![c].id = id]
        \/ EmailTaken(req.Email) /\ UNCHANGED users /\ AnswerMissed(c, "register", 500)
        \/ DBMayFail /\ UNCHANGED users /\ Answer(c, "none", 500)
        \/ DBMayFail /\ Free /\ Insert /\ Answer(c, "none", 500)
     /\ UNCHANGED token

-----------------------------------------------------------------------------
(* Login: the look-up with the password check, the token. *)

\* Variant: only the email decides.
CheckPasswordNever(id, password) == TRUE
CheckPassword(id, password) == users[id].PasswordHash = BcryptKey[password]

Login(c, req) ==
  /\ client[c].pc = "idle"
  /\ \/ DBMayFail /\ Answer(c, "none", 500)
     \/ /\ \A id \in FindByEmail(req.Email) : ~CheckPassword(id, req.Password)
        /\ Answer(c, "none", 401)
     \/ \E id \in FindByEmail(req.Email) :
          /\ CheckPassword(id, req.Password)
          /\ GoOn(c, "login", req, "token", id, users[id].Role)
  /\ UNCHANGED <<users, token>>

\* Variant: the arguments of GenerateToken in another order.
GenerateTokenSwapped(id, email, role) == [UserID |-> email, Email |-> id, Role |-> role]
GenerateToken(id, email, role) == [UserID |-> id, Email |-> email, Role |-> role]

IssueToken(c) ==
  /\ client[c].pc = "token"
  /\ token' = [token EXCEPT ![c] =
       GenerateToken(client[c].id, client[c].req.Email, client[c].role)]
  /\ client' = [client EXCEPT ![c].pc = "idle", ![c].role = NoRole,
                              ![c].code = IF client[c].op = "register" THEN 201 ELSE 200]
  /\ UNCHANGED users

-----------------------------------------------------------------------------
(* Behind the token check. *)

Authenticated(c) == client[c].pc = "idle" /\ token[c] # NoToken

Unauthorized(c) ==
  /\ client[c].pc = "idle"
  /\ token[c] = NoToken
  /\ Answer(c, "none", 401)
  /\ UNCHANGED <<users, token>>

(* The engine does nothing; the client throws its token away.              *)
Logout(c) ==
  /\ Authenticated(c)
  /\ Answer(c, "none", 200)
  /\ token' = [token EXCEPT ![c] = NoToken]
  /\ UNCHANGED users

(* The claims are the old token's, and the table is not read.              *)
Refresh(c) ==
  /\ Authenticated(c)
  /\ token' = [token EXCEPT ![c] =
       GenerateToken(token[c].UserID, token[c].Email, token[c].Role)]
  /\ Answer(c, "none", 200)
  /\ UNCHANGED users

(* Updates: the token check, after which the token may expire, and one     *)
(* statement with a condition on the id.                                   *)

AdmitUpdate(c, op, id, role) ==
  /\ client' = [client EXCEPT ![c] =
       [Idle EXCEPT !.op = op, !.pc = "update", !.id = id, !.role = role]]
  /\ UNCHANGED <<users, token>>

\* Variant: the route is outside the authenticated group.
UpdateRolePublic(c, id, role) ==
  client[c].pc = "idle" /\ AdmitUpdate(c, "role", id, role)

UpdateRole(c, id, role) == Authenticated(c) /\ AdmitUpdate(c, "role", id, role)

DeleteUser(c, id) == Authenticated(c) /\ AdmitUpdate(c, "delete", id, NoRole)

(* For the account that the token names.                                   *)
RegisterFcmToken(c) ==
  Authenticated(c) /\ AdmitUpdate(c, "fcm", token[c].UserID, NoRole)

UpdatedRow(row, op, role) ==
  CASE op = "role"   -> [row EXCEPT !.Role = role]
    [] op = "delete" -> [row EXCEPT !.Deleted = TRUE]
    [] op = "fcm"    -> [row EXCEPT !.FcmToken = TRUE]

SetUser(c, id) ==
  users' = [users EXCEPT ![id] = UpdatedRow(users[id], client[c].op, client[c].role)]

\* Variant: the updates see deleted rows (Unscoped).
UpdateUnscoped(c) ==
  /\ client[c].pc = "update"
  /\ users[client[c].id] # NoUser
  /\ SetUser(c, client[c].id)
  /\ Answer(c, "update", 200)
  /\ UNCHANGED token

(* It is no error that the statement matches no row.                       *)
Update(c) ==
  LET id == client[c].id
  IN /\ client[c].pc = "update"
     /\ \/ Live(id) /\ SetUser(c, id) /\ Answer(c, "update", 200)
        \/ ~Live(id) /\ UNCHANGED users /\ AnswerMissed(c, "update", 200)
        \/ DBMayFail /\ UNCHANGED users /\ Answer(c, "none", 500)
        \/ DBMayFail /\ Live(id) /\ SetUser(c, id) /\ Answer(c, "none", 500)
     /\ UNCHANGED token

ListUsers == {id \in IDs : Live(id)}

-----------------------------------------------------------------------------
TokenExpires(c) ==
  /\ token[c] # NoToken
  /\ token' = [token EXCEPT ![c] = NoToken]
  /\ UNCHANGED <<users, client>>

(* The engine dies and is started again: the requests in it are lost.      *)
ACCrash ==
  /\ client' = [c \in Clients |-> IF client[c].pc = "idle" THEN client[c] ELSE Idle]
  /\ UNCHANGED <<users, token>>

ClientStep(c) ==
  \/ RefuseBody(c) \/ ForgotPassword(c) \/ Logout(c)
  \/ \E req \in RegisterRequest : Register(c, req)
  \/ \E id \in IDs : CreateUser(c, id)
  \/ \E req \in LoginRequest : Login(c, req)
  \/ IssueToken(c) \/ Unauthorized(c) \/ Refresh(c)
  \/ \E id \in IDs, role \in Roles : UpdateRole(c, id, role)
  \/ \E id \in IDs : DeleteUser(c, id)
  \/ RegisterFcmToken(c)
  \/ Update(c)
  \/ TokenExpires(c)

RecordRoles ==
  held' = [id \in IDs |->
    IF users'[id] = NoUser THEN held[id] ELSE held[id] \cup {users'[id].Role}]

ACNext == (ACCrash \/ \E c \in Clients : ClientStep(c)) /\ RecordRoles

ACSpec == ACInit /\ [][ACNext]_acVars

-----------------------------------------------------------------------------
Answered(c, op, code) ==
  client[c].pc = "idle" /\ client[c].op = op /\ client[c].code = code

(* A registration answered 201 and a login answered 200 name the account   *)
(* with the request's own email, and with a password that bcrypt does not  *)
(* tell from the request's - the same one, or one that goes on after the   *)
(* first 72 bytes, which login does not refuse -, and it is the only one   *)
(* that the email finds, for as long as it is listed (auth.go:47-198,      *)
(* user.go:50-64).                                                         *)
AnswersAreTrue ==
  \A c \in Clients :
    LET id == client[c].id  req == client[c].req IN
    Answered(c, "register", 201) \/ Answered(c, "login", 200) =>
      /\ users[id] # NoUser
      /\ users[id].Email = req.Email
      /\ users[id].PasswordHash = req.Key
      /\ id \in ListUsers => FindByEmail(req.Email) = {id}

(* The claims of every token, however often refreshed, are of an account   *)
(* that was registered, with its own email and a role that it has or had   *)
(* (auth.go:85, 173 and 216-220).                                          *)
TokensAreTrue ==
  \A c \in Clients : token[c] # NoToken =>
    /\ users[token[c].UserID] # NoUser
    /\ users[token[c].UserID].Email = token[c].Email
    /\ token[c].Role \in held[token[c].UserID]

(* An account keeps its identity, email and password, and a deleted one    *)
(* never changes and never comes back (postgres_user.go:42-69).            *)
AccountsArePermanent ==
  [][\A id \in IDs : users[id] # NoUser =>
       /\ users'[id] # NoUser
       /\ users'[id].Email = users[id].Email
       /\ users'[id].PasswordHash = users[id].PasswordHash
       /\ users[id].Deleted => users'[id] = users[id]]_acVars

-----------------------------------------------------------------------------
(* The accounts as their clients may think of them.                        *)
PresentedBy(c) ==
  IF Answered(c, "register", 201) \/ Answered(c, "login", 200)
  THEN [UserID |-> client[c].id, Email |-> client[c].req.Email,
        Key |-> client[c].req.Key]
  ELSE NoUser

Service == INSTANCE AccountService WITH
  accounts  <- users,
  roles     <- held,
  session   <- token,
  presented <- [c \in Clients |-> PresentedBy(c)],
  admitted  <- [c \in Clients |-> client[c].pc = "update"]

(* Signing up and signing in are as good as atomic: whatever others do     *)
(* between a handler's look-up, its insert and its token, and wherever the *)
(* engine dies, a client gets a token only in the step that answers its    *)
(* own address and a password that bcrypt takes for the account's, and an  *)
(* account changes only at the hands of someone who was admitted with a    *)
(* token, which may have expired since (auth.go:47-222, users.go:50-86,    *)
(* user.go:61-64, middleware/auth.go:12-58).                               *)
ImplementsAccountService == Service!ASSpec

-----------------------------------------------------------------------------
(* A registration that the table refuses because the email is taken is     *)
(* answered 409 (auth.go:124 and 134-137).                                 *)
TakenEmailIsConflict ==
  \A c \in Clients :
    (client[c].pc = "idle" /\ client[c].op = "register" /\ client[c].missed)
      => client[c].code = 409

(* An update that is reported as made was made (users.go:75,               *)
(* postgres_user.go:47).                                                   *)
ReportedUpdatesAreMade ==
  \A c \in Clients : Answered(c, "update", 200) => ~client[c].missed
=============================================================================
