--------------------------- MODULE AccountsProofs ----------------------------
(***************************************************************************)
(* The proofs about Accounts.  A step leaves the table alone, inserts one  *)
(* row under a fresh identity and a free email, or updates one live row in *)
(* place without touching its email or password (TableSteps); what the     *)
(* clients have been told about their accounts survives all three.         *)
(***************************************************************************)
EXTENDS Accounts, TLAPS

Inserted ==
  \E id \in IDs, row \in User :
    /\ users[id] = NoUser /\ ~EmailTaken(row.Email) /\ ~row.Deleted
    /\ users' = [users EXCEPT ![id] = row]

Updated ==
  \E id \in IDs, row \in User :
    /\ Live(id)
    /\ row.Email = users[id].Email /\ row.PasswordHash = users[id].PasswordHash
    /\ users' = [users EXCEPT ![id] = row]

(* Rows keep what makes them the account they are.                         *)
Permanent(id) ==
  users[id] # NoUser =>
    /\ users'[id] # NoUser
    /\ users'[id].Email = users[id].Email
    /\ users'[id].PasswordHash = users[id].PasswordHash
    /\ users[id].Deleted => users'[id] = users[id]

(* The client's place holds an account with the email and password of its  *)
(* request.                                                                *)
Told(c) ==
  \/ client[c].pc = "token"
  \/ Answered(c, "register", 201) \/ Answered(c, "login", 200)

NamesAccount(c) ==
  LET id == client[c].id  req == client[c].req IN
  /\ id \in IDs
  /\ users[id] # NoUser
  /\ users[id].Email = req.Email
  /\ users[id].PasswordHash = req.Key

EmailsAreUnique ==
  \A i, j \in IDs :
    (users[i] # NoUser /\ users[j] # NoUser /\ users[i].Email = users[j].Email)
      => i = j

RolesAreHeld == \A id \in IDs : users[id] # NoUser => users[id].Role \in held[id]

ClientInv(c) ==
  /\ Told(c) => NamesAccount(c)
  /\ client[c].pc = "create" => /\ client[c].op = "register"
                                /\ client[c].req \in Credentials
                                /\ client[c].role \in Roles
  /\ client[c].pc = "token" => /\ client[c].op \in {"register", "login"}
                               /\ client[c].role \in held[client[c].id]
  /\ client[c].pc = "update" => /\ client[c].op \in {"role", "delete", "fcm"}
                                /\ client[c].id \in IDs
                                /\ client[c].op = "role" => client[c].role \in Roles

TokenInv(c) ==
  token[c] # NoToken =>
    /\ users[token[c].UserID] # NoUser
    /\ users[token[c].UserID].Email = token[c].Email
    /\ token[c].Role \in held[token[c].UserID]

ACInv ==
  /\ ACTypeOK
  /\ EmailsAreUnique
  /\ RolesAreHeld
  /\ \A c \in Clients : ClientInv(c) /\ TokenInv(c)

-----------------------------------------------------------------------------
(* What a step does to the table. *)

(* One row is set: the rest of the table is as it was.                     *)
LEMMA SetRow ==
  ASSUME ACTypeOK, NEW id \in IDs, NEW row \in User,
         users' = [users EXCEPT ![id] = row]
  PROVE  /\ users' \in [IDs -> User \cup {NoUser}]
         /\ users'[id] = row
         /\ \A i \in IDs : i # id => users'[i] = users[i]
BY DEF ACTypeOK

(* What a statement makes of a row keeps its email and password.           *)
LEMMA RowUpdates ==
  ASSUME ACTypeOK, NEW id \in IDs, users[id] # NoUser,
         NEW op \in {"role", "delete", "fcm"}, NEW role, op = "role" => role \in Roles
  PROVE  /\ UpdatedRow(users[id], op, role) \in User
         /\ UpdatedRow(users[id], op, role).Email = users[id].Email
         /\ UpdatedRow(users[id], op, role).PasswordHash = users[id].PasswordHash
<1>1. users[id] \in User  BY DEF ACTypeOK
<1>2. CASE op = "role"  BY <1>1, <1>2 DEF User, UpdatedRow
<1>3. CASE op = "delete"  BY <1>1, <1>3 DEF User, UpdatedRow
<1>4. CASE op = "fcm"  BY <1>1, <1>4 DEF User, UpdatedRow
<1>5. QED  BY <1>2, <1>3, <1>4

LEMMA UpdateSteps ==
  ASSUME ACInv, NEW c \in Clients, Update(c)
  PROVE  UNCHANGED users \/ Updated
<1> DEFINE id == client[c].id
           row == UpdatedRow(users[id], client[c].op, client[c].role)
<1>1. /\ client[c].op \in {"role", "delete", "fcm"} /\ id \in IDs
      /\ client[c].op = "role" => client[c].role \in Roles
  BY DEF Update, ACInv, ClientInv
<1>2. (UNCHANGED users) \/ (Live(id) /\ users' = [users EXCEPT ![id] = row])
  BY DEF Update, SetUser
<1>3. Live(id) => /\ row \in User /\ row.Email = users[id].Email
                  /\ row.PasswordHash = users[id].PasswordHash
  BY <1>1, RowUpdates DEF ACInv, Live
<1> HIDE DEF id, row
<1>4. QED  BY <1>1, <1>2, <1>3 DEF Updated

LEMMA TableSteps ==
  ASSUME ACInv, NEW c \in Clients, ClientStep(c)
  PROVE  \/ UNCHANGED users
         \/ Inserted /\ client[c].pc = "create" /\ UNCHANGED token
         \/ Updated /\ Update(c)
<1>1. CASE \E id \in IDs : CreateUser(c, id)
  <2>1. PICK id \in IDs : CreateUser(c, id)  BY <1>1
  <2> DEFINE req == client[c].req
             row == [Email |-> req.Email, PasswordHash |-> req.Key,
                     Role |-> client[c].role, FcmToken |-> FALSE, Deleted |-> FALSE]
  <2>2. row \in User /\ row.Email = req.Email /\ ~row.Deleted
    BY <2>1 DEF ACInv, ClientInv, CreateUser, User, Credentials
  <2>3. \/ UNCHANGED users
        \/ users[id] = NoUser /\ ~EmailTaken(req.Email) /\ users' = [users EXCEPT ![id] = row]
    BY <2>1 DEF CreateUser
  <2> HIDE DEF row
  <2>4. UNCHANGED users \/ Inserted  BY <2>2, <2>3 DEF Inserted
  <2>5. QED  BY <2>1, <2>4 DEF CreateUser
<1>2. CASE Update(c)  BY <1>2, UpdateSteps
<1>3. QED
  BY <1>1, <1>2 DEF ClientStep, RefuseBody, ForgotPassword, Logout, Register, Login, IssueToken,
     Unauthorized, Refresh, UpdateRole, DeleteUser, RegisterFcmToken, AdmitUpdate, TokenExpires

(* Each of the three keeps every account what it is, and emails unique.    *)
LEMMA TablePermanent ==
  ASSUME ACInv, UNCHANGED users \/ Inserted \/ Updated
  PROVE  /\ users' \in [IDs -> User \cup {NoUser}]
         /\ \A id \in IDs : Permanent(id)
         /\ EmailsAreUnique'
<1> USE DEF ACInv
<1>1. CASE UNCHANGED users
  BY <1>1 DEF ACTypeOK, Permanent, EmailsAreUnique
<1>2. CASE Inserted
  <2>1. PICK id \in IDs, row \in User :
          /\ users[id] = NoUser /\ ~EmailTaken(row.Email)
          /\ users' = [users EXCEPT ![id] = row]
    BY <1>2 DEF Inserted
  <2>2. /\ users' \in [IDs -> User \cup {NoUser}]
        /\ users'[id] = row
        /\ \A i \in IDs : i # id => users'[i] = users[i]
    BY <2>1, SetRow
  <2>3. \A i \in IDs : Permanent(i)  BY <2>1, <2>2 DEF Permanent
  <2>4. EmailsAreUnique'  BY <2>1, <2>2 DEF EmailsAreUnique, EmailTaken
  <2>5. QED  BY <2>2, <2>3, <2>4
<1>3. CASE Updated
  <2>1. PICK id \in IDs, row \in User :
          /\ Live(id)
          /\ row.Email = users[id].Email /\ row.PasswordHash = users[id].PasswordHash
          /\ users' = [users EXCEPT ![id] = row]
    BY <1>3 DEF Updated
  <2>2. /\ users' \in [IDs -> User \cup {NoUser}]
        /\ users'[id] = row
        /\ \A i \in IDs : i # id => users'[i] = users[i]
    BY <2>1, SetRow
  <2>3. row # NoUser  BY ACDistinct
  <2>4. \A i \in IDs : Permanent(i)  BY <2>1, <2>2, <2>3 DEF Permanent, Live
  <2>5. EmailsAreUnique'  BY <2>1, <2>2 DEF EmailsAreUnique, Live
  <2>6. QED  BY <2>2, <2>4, <2>5
<1>4. QED  BY <1>1, <1>2, <1>3

-----------------------------------------------------------------------------
(* What a step does to the clients. *)

Ops == {"none", "register", "login", "role", "delete", "fcm", "update"}

LEMMA SetClient ==
  ASSUME ACTypeOK, NEW c \in Clients, NEW state \in ClientState,
         client' = [client EXCEPT ![c] = state]
  PROVE  /\ client' \in [Clients -> ClientState]
         /\ client'[c] = state
         /\ \A d \in Clients : d # c => client'[d] = client[d]
BY DEF ACTypeOK

(* An answer ends the request, and names no account unless it is 200 or 201*)
LEMMA AnswerEnds ==
  ASSUME ACTypeOK, NEW c \in Clients, NEW op \in Ops, NEW code \in Codes,
         Answer(c, op, code) \/ AnswerMissed(c, op, code),
         op = "register" => code # 201, op = "login" => code # 200
  PROVE  /\ client' \in [Clients -> ClientState]
         /\ client'[c].pc = "idle" /\ ~Told(c)'
         /\ \A d \in Clients : d # c => client'[d] = client[d]
<1> DEFINE said == IF op = "none" THEN 0 ELSE code
           a == [Idle EXCEPT !.op = op, !.code = said]
           m == [Idle EXCEPT !.op = op, !.code = code, !.missed = TRUE]
<1>1. /\ a \in ClientState /\ a.pc = "idle" /\ a.op = op
      /\ op # "none" => a.code = code
  <2>1. said \in Codes /\ (op # "none" => said = code)  BY DEF Codes
  <2> HIDE DEF said
  <2>2. QED  BY <2>1 DEF ClientState, Idle, Ops
<1>2. m \in ClientState /\ m.pc = "idle" /\ m.op = op /\ m.code = code
  BY DEF ClientState, Idle, Ops
<1>3. client' = [client EXCEPT ![c] = a] \/ client' = [client EXCEPT ![c] = m]
  BY DEF Answer, AnswerMissed
<1> HIDE DEF a, m
<1>4. /\ client' \in [Clients -> ClientState]
      /\ client'[c] = a \/ client'[c] = m
      /\ \A d \in Clients : d # c => client'[d] = client[d]
  BY <1>1, <1>2, <1>3, SetClient
<1>5. QED  BY <1>1, <1>2, <1>4 DEF Told, Answered

LEMMA GoesOn ==
  ASSUME ACTypeOK, NEW c \in Clients, NEW op \in Ops, NEW req,
         NEW pc \in {"create", "token"}, NEW id \in IDs \cup {NoUser}, NEW role \in Roles,
         req.Email \in Emails, BcryptKey[req.Password] \in Keys,
         GoOn(c, op, req, pc, id, role)
  PROVE  /\ client' \in [Clients -> ClientState]
         /\ client'[c].pc = pc /\ client'[c].id = id /\ client'[c].role = role
         /\ client'[c].op = op /\ client'[c].req \in Credentials
         /\ client'[c].req.Email = req.Email
         /\ client'[c].req.Key = BcryptKey[req.Password]
         /\ \A d \in Clients : d # c => client'[d] = client[d]
<1> DEFINE r == [Email |-> req.Email, Key |-> BcryptKey[req.Password]]
           i == [Idle EXCEPT !.op = op, !.pc = pc, !.id = id, !.role = role]
           s == [i EXCEPT !.req = r]
<1>1. r \in Credentials /\ r.Email = req.Email /\ r.Key = BcryptKey[req.Password]
  BY DEF Credentials
<1>2. client' = [client EXCEPT ![c] = s]  BY DEF GoOn
<1> HIDE DEF r
<1>3. /\ s \in ClientState
      /\ s.op = op /\ s.pc = pc /\ s.id = id /\ s.role = role /\ s.req = r
  <2>1. Idle \in ClientState  BY DEF ClientState, Idle, Codes
  <2>2. i \in ClientState /\ i.op = op /\ i.pc = pc /\ i.id = id /\ i.role = role
    BY <2>1 DEF ClientState, Ops
  <2> HIDE DEF i
  <2>3. QED  BY <1>1, <2>2 DEF ClientState
<1> HIDE DEF s
<1>4. QED  BY <1>1, <1>2, <1>3, SetClient

(* The ways in which a step leaves the client that makes it.               *)
Ends(c)    == client'[c].pc = "idle" /\ ~Told(c)'
Looked(c)  == /\ client'[c].pc = "create" /\ client'[c].op = "register"
              /\ client'[c].req \in Credentials /\ client'[c].role \in Roles
              /\ ~Told(c)'
Finds(c)   == /\ client'[c].pc = "token" /\ NamesAccount(c)'
              /\ client'[c].op \in {"register", "login"}
              /\ client'[c].role = users'[client'[c].id].Role
Admits(c)  == /\ Authenticated(c) /\ UNCHANGED <<users, token>>
              /\ client'[c].pc = "update" /\ client'[c].id \in IDs
              /\ client'[c].op \in {"role", "delete", "fcm"}
              /\ client'[c].op = "role" => client'[c].role \in Roles
Issued(c)  == /\ client[c].pc = "token" /\ client'[c].pc = "idle"
              /\ client'[c].id = client[c].id /\ client'[c].req = client[c].req
              /\ client'[c].op = client[c].op
              /\ client'[c].code = IF client[c].op = "register" THEN 201 ELSE 200

ClientChange(c) ==
  /\ client' \in [Clients -> ClientState]
  /\ \A d \in Clients : d # c => client'[d] = client[d]
  /\ client'[c] = client[c] \/ Ends(c) \/ Looked(c) \/ Finds(c)
     \/ Admits(c) \/ Issued(c)

TokenChange(c) ==
  /\ token' \in [Clients -> Claims \cup {NoToken}]
  /\ \A d \in Clients : d # c => token'[d] = token[d]
  /\ \/ token'[c] = token[c] \/ token'[c] = NoToken
     \/ /\ client[c].pc = "token"
        /\ token'[c].UserID = client[c].id
        /\ token'[c].Email = client[c].req.Email
        /\ token'[c].Role = client[c].role
     \/ /\ token[c] # NoToken
        /\ token'[c].UserID = token[c].UserID
        /\ token'[c].Email = token[c].Email
        /\ token'[c].Role = token[c].Role

(* What is left alone when an account's holder only waits.                 *)
LEMMA IdleStep ==
  ASSUME ACTypeOK, NEW c \in Clients, NEW op \in Ops, NEW code \in Codes,
         Answer(c, op, code) \/ AnswerMissed(c, op, code),
         op = "register" => code # 201, op = "login" => code # 200
  PROVE  ClientChange(c)
BY AnswerEnds DEF ClientChange, Ends

LEMMA SameTokens == ACTypeOK /\ UNCHANGED token => \A c \in Clients : TokenChange(c)
BY DEF ACTypeOK, TokenChange

LEMMA UpdateStep ==
  ASSUME ACInv, NEW c \in Clients, Update(c)
  PROVE  ClientChange(c) /\ TokenChange(c) /\ client'[c].pc = "idle"
<1>1. ACTypeOK /\ UNCHANGED token  BY DEF ACInv, Update
<1>2. \E op \in {"none", "update"}, code \in {200, 500} :
        Answer(c, op, code) \/ AnswerMissed(c, op, code)
  BY DEF Update
<1>3. QED  BY <1>1, <1>2, IdleStep, AnswerEnds, SameTokens DEF Ops, Codes

LEMMA AdmitStep ==
  ASSUME ACTypeOK, NEW c \in Clients, Authenticated(c),
         NEW op \in {"role", "delete", "fcm"}, NEW id \in IDs,
         NEW role \in Roles \cup {NoRole}, op = "role" => role \in Roles,
         AdmitUpdate(c, op, id, role)
  PROVE  ClientChange(c) /\ TokenChange(c)
<1> DEFINE s == [Idle EXCEPT !.op = op, !.pc = "update", !.id = id, !.role = role]
<1>1. /\ s \in ClientState
      /\ s.op = op /\ s.pc = "update" /\ s.id = id /\ s.role = role
  BY DEF ClientState, Idle, Codes
<1>2. client' = [client EXCEPT ![c] = s] /\ UNCHANGED <<users, token>>
  BY DEF AdmitUpdate
<1> HIDE DEF s
<1>3. Admits(c) /\ ClientChange(c)
  BY <1>1, <1>2, SetClient DEF Admits, ClientChange
<1>4. QED  BY <1>2, <1>3, SameTokens

LEMMA RegisterStep ==
  ASSUME ACInv, NEW c \in Clients, NEW req \in RegisterRequest, Register(c, req)
  PROVE  ClientChange(c) /\ TokenChange(c)
<1> USE DEF ACInv
<1>1. TokenChange(c)  BY SameTokens DEF Register
<1>2. CASE \E code \in {409, 500} : Answer(c, "none", code)
  BY <1>1, <1>2, IdleStep DEF Ops, Codes
<1>3. CASE GoOn(c, "register", req, "create", NoUser, RoleOrDefault(req.Role))
  <2> DEFINE role == RoleOrDefault(req.Role)
  <2>1. /\ role \in Roles /\ req.Email \in Emails
        /\ BcryptKey[req.Password] \in Keys
    BY ACAssumption DEF RoleOrDefault, RegisterRequest
  <2> HIDE DEF role
  <2>2. GoOn(c, "register", req, "create", NoUser, role)  BY <1>3 DEF role
  <2>3. /\ client' \in [Clients -> ClientState]
        /\ client'[c].pc = "create" /\ client'[c].role = role
        /\ client'[c].op = "register" /\ client'[c].req \in Credentials
        /\ \A d \in Clients : d # c => client'[d] = client[d]
    BY <2>1, <2>2, GoesOn DEF Ops
  <2>4. QED  BY <1>1, <2>1, <2>3 DEF ClientChange, Looked, Told, Answered
<1>4. QED  BY <1>2, <1>3 DEF Register

LEMMA CreateStep ==
  ASSUME ACInv, NEW c \in Clients, NEW id \in IDs, CreateUser(c, id)
  PROVE  ClientChange(c) /\ TokenChange(c)
<1> USE DEF ACInv
<1>1. TokenChange(c)  BY SameTokens DEF CreateUser
<1>2. CASE Answer(c, "none", 500) \/ AnswerMissed(c, "register", 500)
  BY <1>1, <1>2, IdleStep DEF Ops, Codes
<1>3. CASE client' = [client EXCEPT ![c].pc = "token", ![c].id = id]
           /\ ~(Answer(c, "none", 500) \/ AnswerMissed(c, "register", 500))
  <2> DEFINE req == client[c].req
             row == [Email |-> req.Email, PasswordHash |-> req.Key,
                     Role |-> client[c].role, FcmToken |-> FALSE, Deleted |-> FALSE]
             s == [client[c] EXCEPT !.pc = "token", !.id = id]
  <2>1. /\ client[c] \in ClientState /\ req \in Credentials /\ client[c].role \in Roles
        /\ client[c].op = "register"
    BY DEF CreateUser, ACTypeOK, ClientInv
  <2>2. row \in User /\ users' = [users EXCEPT ![id] = row]
    BY <1>3, <2>1 DEF CreateUser, User, Credentials
  <2>3. /\ row.Email = req.Email /\ row.PasswordHash = req.Key
        /\ row.Role = client[c].role
    OBVIOUS
  <2>4. /\ s \in ClientState /\ s.pc = "token" /\ s.id = id
        /\ s.req = req /\ s.role = client[c].role /\ s.op = client[c].op
    BY <2>1 DEF ClientState
  <2>5. client' = [client EXCEPT ![c] = s]  BY <1>3
  <2> HIDE DEF row, s
  <2>6. users'[id] = row /\ row # NoUser  BY <2>2, SetRow, ACDistinct
  <2>7. /\ client' \in [Clients -> ClientState]
        /\ client'[c] = s
        /\ \A d \in Clients : d # c => client'[d] = client[d]
    BY <2>4, <2>5, SetClient
  <2>8. Finds(c)  BY <2>1, <2>3, <2>4, <2>6, <2>7 DEF Finds, NamesAccount
  <2>9. QED  BY <1>1, <2>7, <2>8 DEF ClientChange
<1>4. QED  BY <1>2, <1>3 DEF CreateUser

LEMMA LoginStep ==
  ASSUME ACInv, NEW c \in Clients, NEW req \in LoginRequest, Login(c, req)
  PROVE  ClientChange(c) /\ TokenChange(c)
<1> USE DEF ACInv
<1>1. TokenChange(c) /\ UNCHANGED users  BY SameTokens DEF Login
<1>2. CASE \E code \in {401, 500} : Answer(c, "none", code)
  BY <1>1, <1>2, IdleStep DEF Ops, Codes
<1>3. CASE \E id \in FindByEmail(req.Email) :
             /\ CheckPassword(id, req.Password)
             /\ GoOn(c, "login", req, "token", id, users[id].Role)
  <2>1. PICK id \in IDs : /\ users[id] # NoUser /\ users[id].Email = req.Email
                          /\ users[id].PasswordHash = BcryptKey[req.Password]
                          /\ GoOn(c, "login", req, "token", id, users[id].Role)
    BY <1>3 DEF FindByEmail, Live, CheckPassword
  <2> DEFINE role == users[id].Role
  <2>2. /\ role \in Roles /\ req.Email \in Emails
        /\ BcryptKey[req.Password] \in Keys
    BY <2>1, ACAssumption DEF ACTypeOK, User, LoginRequest
  <2>3. GoOn(c, "login", req, "token", id, role)  BY <2>1
  <2> HIDE DEF role
  <2>4. /\ client' \in [Clients -> ClientState]
        /\ client'[c].pc = "token" /\ client'[c].id = id /\ client'[c].role = role
        /\ client'[c].op = "login"
        /\ client'[c].req.Email = req.Email
        /\ client'[c].req.Key = BcryptKey[req.Password]
        /\ \A d \in Clients : d # c => client'[d] = client[d]
    BY <2>2, <2>3, GoesOn DEF Ops
  <2>5. Finds(c)  BY <1>1, <2>1, <2>4 DEF Finds, NamesAccount, role
  <2>6. QED  BY <1>1, <2>4, <2>5 DEF ClientChange
<1>4. QED  BY <1>2, <1>3 DEF Login

LEMMA IssueStep ==
  ASSUME ACInv, NEW c \in Clients, IssueToken(c)
  PROVE  ClientChange(c) /\ TokenChange(c) /\ Issued(c)
<1> USE DEF ACInv
<1> DEFINE code == IF client[c].op = "register" THEN 201 ELSE 200
           s == [client[c] EXCEPT !.pc = "idle", !.role = NoRole, !.code = code]
           t == GenerateToken(client[c].id, client[c].req.Email, client[c].role)
<1>1. client[c] \in ClientState /\ client[c].pc = "token" /\ NamesAccount(c)
  BY DEF IssueToken, ACTypeOK, ClientInv, Told
<1>2. /\ s \in ClientState
      /\ s.pc = "idle" /\ s.id = client[c].id /\ s.req = client[c].req
      /\ s.op = client[c].op /\ s.code = code
  <2>1. code \in Codes  BY DEF Codes
  <2> HIDE DEF code
  <2>2. QED  BY <1>1, <2>1 DEF ClientState
<1>3. client' = [client EXCEPT ![c] = s]  BY DEF IssueToken
<1>4. /\ t.UserID = client[c].id /\ t.Email = client[c].req.Email
      /\ t.Role = client[c].role
  BY DEF GenerateToken
<1>5. t \in Claims
  <2>1. client[c].role \in held[client[c].id] /\ client[c].id \in IDs
    BY <1>1 DEF ClientInv, NamesAccount
  <2>2. client[c].role \in Roles  BY <2>1 DEF ACTypeOK
  <2>3. client[c].req.Email \in Emails
    BY <1>1 DEF NamesAccount, ACTypeOK, User
  <2>4. QED  BY <2>1, <2>2, <2>3 DEF GenerateToken, Claims
<1>6. token' = [token EXCEPT ![c] = t]  BY DEF IssueToken
<1> HIDE DEF s, t
<1>7. Issued(c) /\ ClientChange(c)  BY <1>1, <1>2, <1>3, SetClient DEF ClientChange, Issued
<1>8. /\ token' \in [Clients -> Claims \cup {NoToken}]
      /\ \A d \in Clients : d # c => token'[d] = token[d]
      /\ token'[c] = t
  BY <1>5, <1>6 DEF ACTypeOK
<1>9. QED  BY <1>1, <1>4, <1>7, <1>8 DEF TokenChange

LEMMA RefreshStep ==
  ASSUME ACInv, NEW c \in Clients, Refresh(c)
  PROVE  ClientChange(c) /\ TokenChange(c)
<1> USE DEF ACInv
<1> DEFINE t == GenerateToken(token[c].UserID, token[c].Email, token[c].Role)
<1>1. token[c] # NoToken /\ token[c] \in Claims  BY DEF Refresh, Authenticated, ACTypeOK
<1>2. /\ t \in Claims
      /\ t.UserID = token[c].UserID /\ t.Email = token[c].Email /\ t.Role = token[c].Role
  BY <1>1 DEF GenerateToken, Claims
<1>3. token' = [token EXCEPT ![c] = t]  BY DEF Refresh
<1> HIDE DEF t
<1>4. TokenChange(c)  BY <1>1, <1>2, <1>3 DEF TokenChange, ACTypeOK
<1>5. ClientChange(c)  BY IdleStep DEF Refresh, Ops, Codes
<1>6. QED  BY <1>4, <1>5

LEMMA ClientSteps ==
  ASSUME ACInv, NEW c \in Clients, ClientStep(c)
  PROVE  ClientChange(c) /\ TokenChange(c)
<1> USE DEF ACInv
<1>1. CASE RefuseBody(c) \/ ForgotPassword(c)
  BY <1>1, IdleStep, SameTokens DEF RefuseBody, ForgotPassword, Ops, Codes
<1>2. CASE Unauthorized(c)
  BY <1>2, IdleStep, SameTokens DEF Unauthorized, Ops, Codes
<1>3. CASE Logout(c) \/ TokenExpires(c)
  <2>1. ASSUME Logout(c) PROVE ClientChange(c)
    BY <2>1, IdleStep DEF Logout, Authenticated, Ops, Codes
  <2>2. ASSUME TokenExpires(c) PROVE ClientChange(c)
    BY <2>2 DEF TokenExpires, ClientChange, ACTypeOK
  <2>3. TokenChange(c)
    BY <1>3 DEF Logout, TokenExpires, TokenChange, ACTypeOK
  <2>4. ClientChange(c)  BY <1>3, <2>1, <2>2
  <2>5. QED  BY <2>3, <2>4
<1>4. CASE \E id \in IDs, role \in Roles : UpdateRole(c, id, role)
  BY <1>4, AdmitStep DEF UpdateRole
<1>5. CASE \E id \in IDs : DeleteUser(c, id)
  BY <1>5, AdmitStep DEF DeleteUser
<1>6. CASE RegisterFcmToken(c)
  <2>1. token[c].UserID \in IDs
    BY <1>6 DEF RegisterFcmToken, Authenticated, ACTypeOK, Claims
  <2>2. QED  BY <1>6, <2>1, AdmitStep DEF RegisterFcmToken
<1>7. QED
  BY <1>1, <1>2, <1>3, <1>4, <1>5, <1>6, RegisterStep, CreateStep, LoginStep,
     IssueStep, RefreshStep, UpdateStep DEF ClientStep

-----------------------------------------------------------------------------
(* The history of roles. *)

LEMMA HeldGrows ==
  ASSUME ACTypeOK, users' \in [IDs -> User \cup {NoUser}], RecordRoles
  PROVE  /\ held' \in [IDs -> SUBSET Roles]
         /\ \A id \in IDs : held[id] \subseteq held'[id]
         /\ RolesAreHeld'
<1>1. \A id \in IDs : users'[id] # NoUser => users'[id].Role \in Roles
  BY DEF User
<1>2. \A id \in IDs : held'[id] =
        IF users'[id] = NoUser THEN held[id] ELSE held[id] \cup {users'[id].Role}
  BY DEF RecordRoles
<1>3. held' \in [IDs -> SUBSET Roles]
  <2>1. \A id \in IDs : held[id] \in SUBSET Roles  BY DEF ACTypeOK
  <2>2. QED  BY <1>1, <2>1 DEF RecordRoles
<1>4. QED  BY <1>2, <1>3 DEF RolesAreHeld

(* What a client has been told stays true while it does nothing.           *)
LEMMA OthersKeep ==
  ASSUME ACInv, NEW d \in Clients,
         client'[d] = client[d],
         \A id \in IDs : Permanent(id) /\ held[id] \subseteq held'[id]
  PROVE  ClientInv(d)'
<1>1. Told(d)' <=> Told(d)  BY DEF Told, Answered
<1>2. ClientInv(d)  BY DEF ACInv
<1>3. NamesAccount(d) => NamesAccount(d)'  BY DEF NamesAccount, Permanent
<1>4. client[d].pc = "token" => client[d].id \in IDs
  BY <1>2 DEF ClientInv, Told, NamesAccount
<1>5. QED  BY <1>1, <1>2, <1>3, <1>4 DEF ClientInv

LEMMA TokensKeep ==
  ASSUME ACInv, NEW d \in Clients, token'[d] # NoToken,
         NEW t, t.UserID \in IDs, t.Role \in held[t.UserID],
         users[t.UserID] # NoUser, users[t.UserID].Email = t.Email,
         token'[d].UserID = t.UserID, token'[d].Email = t.Email, token'[d].Role = t.Role,
         \A id \in IDs : Permanent(id) /\ held[id] \subseteq held'[id]
  PROVE  TokenInv(d)'
BY DEF TokenInv, Permanent

-----------------------------------------------------------------------------
(* The invariant. *)

LEMMA InitHolds == ACInit => ACInv
<1> SUFFICES ASSUME ACInit PROVE ACInv  OBVIOUS
<1>1. Idle \in ClientState  BY DEF Idle, ClientState, Codes
<1>2. ACTypeOK  BY <1>1 DEF ACInit, ACTypeOK
<1>3. EmailsAreUnique /\ RolesAreHeld  BY DEF ACInit, EmailsAreUnique, RolesAreHeld
<1>4. \A c \in Clients : client[c].pc = "idle" /\ client[c].op = "none"
  BY DEF ACInit, Idle
<1>5. \A c \in Clients : ClientInv(c)  BY <1>4 DEF ClientInv, Told, Answered
<1>6. \A c \in Clients : TokenInv(c)  BY DEF ACInit, TokenInv
<1>7. QED  BY <1>2, <1>3, <1>5, <1>6 DEF ACInv

LEMMA StepHolds == ACInv /\ [ACNext]_acVars => ACInv'
<1> SUFFICES ASSUME ACInv, [ACNext]_acVars PROVE ACInv'  OBVIOUS
<1>1. CASE UNCHANGED acVars
  BY <1>1 DEF acVars, ACInv, ACTypeOK, EmailsAreUnique, RolesAreHeld, ClientInv, TokenInv,
     Told, NamesAccount, Answered
<1>2. CASE ACCrash /\ RecordRoles
  <2>1. \A id \in IDs : Permanent(id)  BY <1>2 DEF ACCrash, Permanent
  <2>2. UNCHANGED users  BY <1>2 DEF ACCrash
  <2>3. /\ users' \in [IDs -> User \cup {NoUser}]
        /\ EmailsAreUnique'
    BY <2>2 DEF ACInv, ACTypeOK, EmailsAreUnique
  <2>4. /\ held' \in [IDs -> SUBSET Roles] /\ RolesAreHeld'
        /\ \A id \in IDs : held[id] \subseteq held'[id]
    BY <1>2, <2>3, HeldGrows DEF ACInv
  <2>5. Idle \in ClientState  BY DEF Idle, ClientState, Codes
  <2>6. client' \in [Clients -> ClientState] /\ UNCHANGED token
    BY <1>2, <2>5 DEF ACCrash, ACInv, ACTypeOK
  <2>7. ACTypeOK'  BY <2>3, <2>4, <2>6 DEF ACInv, ACTypeOK
  <2>8. ASSUME NEW d \in Clients PROVE ClientInv(d)'
    <3>1. CASE client'[d] = client[d]  BY <2>1, <2>4, <3>1, OthersKeep
    <3>2. CASE client'[d] = Idle
      BY <3>2 DEF Idle, ClientInv, Told, Answered
    <3>3. QED  BY <1>2, <3>1, <3>2 DEF ACCrash
  <2>9. ASSUME NEW d \in Clients PROVE TokenInv(d)'
    BY <2>2, <2>4, <2>6 DEF ACInv, TokenInv, ACTypeOK, Claims
  <2>10. QED  BY <2>3, <2>4, <2>7, <2>8, <2>9 DEF ACInv
<1>3. ASSUME NEW c \in Clients, ClientStep(c), RecordRoles PROVE ACInv'
  <2>1. /\ users' \in [IDs -> User \cup {NoUser}] /\ EmailsAreUnique'
        /\ \A id \in IDs : Permanent(id)
    BY <1>3, TableSteps, TablePermanent
  <2>2. /\ held' \in [IDs -> SUBSET Roles] /\ RolesAreHeld'
        /\ \A id \in IDs : held[id] \subseteq held'[id]
    BY <1>3, <2>1, HeldGrows DEF ACInv
  <2>3. ClientChange(c) /\ TokenChange(c)  BY <1>3, ClientSteps
  <2>4. ACTypeOK'  BY <2>1, <2>2, <2>3 DEF ACTypeOK, ClientChange, TokenChange
  <2>5. ClientInv(c)'
    <3>1. CASE client'[c] = client[c]  BY <2>1, <2>2, <3>1, OthersKeep
    <3>2. CASE Ends(c)  BY <3>2 DEF Ends, ClientInv
    <3>3. CASE Looked(c)  BY <3>3 DEF Looked, ClientInv
    <3>4. CASE Finds(c)
      BY <2>2, <3>4 DEF Finds, ClientInv, NamesAccount, RolesAreHeld
    <3>5. CASE Issued(c)
      <4>1. NamesAccount(c)  BY <3>5 DEF Issued, ACInv, ClientInv, Told
      <4>2. NamesAccount(c)'  BY <2>1, <3>5, <4>1 DEF Issued, NamesAccount, Permanent
      <4>3. QED  BY <3>5, <4>2 DEF Issued, ClientInv
    <3>6. CASE Admits(c)  BY <3>6 DEF Admits, ClientInv, Told, Answered
    <3>7. QED  BY <2>3, <3>1, <3>2, <3>3, <3>4, <3>5, <3>6 DEF ClientChange
  <2>6. ASSUME NEW d \in Clients, d # c PROVE ClientInv(d)'
    BY <2>1, <2>2, <2>3, <2>6, OthersKeep DEF ClientChange
  <2>7. ASSUME NEW d \in Clients, token'[d] = token[d] PROVE TokenInv(d)'
    <3>1. CASE token[d] = NoToken  BY <2>7, <3>1 DEF TokenInv
    <3>2. CASE token[d] # NoToken
      <4>1. TokenInv(d) /\ token[d].UserID \in IDs
        BY <3>2 DEF ACInv, ACTypeOK, Claims
      <4>2. QED  BY <2>1, <2>2, <2>7, <3>2, <4>1, TokensKeep DEF TokenInv
    <3>3. QED  BY <3>1, <3>2
  <2>8. TokenInv(c)'
    <3>1. CASE token'[c] = token[c] \/ token'[c] = NoToken
      BY <2>7, <3>1 DEF TokenInv
    <3>2. CASE /\ client[c].pc = "token" /\ token'[c] # NoToken
               /\ token'[c].UserID = client[c].id
               /\ token'[c].Email = client[c].req.Email
               /\ token'[c].Role = client[c].role
      <4>1. NamesAccount(c) /\ client[c].role \in held[client[c].id]
        BY <3>2 DEF ACInv, ClientInv, Told
      <4>2. QED  BY <2>1, <2>2, <3>2, <4>1 DEF NamesAccount, Permanent, TokenInv
    <3>3. CASE /\ token[c] # NoToken /\ token'[c] # NoToken
               /\ token'[c].UserID = token[c].UserID
               /\ token'[c].Email = token[c].Email
               /\ token'[c].Role = token[c].Role
      <4>1. TokenInv(c) /\ token[c].UserID \in IDs
        BY <3>3 DEF ACInv, ACTypeOK, Claims
      <4>2. QED  BY <2>1, <2>2, <3>3, <4>1, TokensKeep DEF TokenInv
    <3>4. QED  BY <2>3, <3>1, <3>2, <3>3 DEF TokenChange
  <2>9. \A d \in Clients : TokenInv(d)'  BY <2>3, <2>7, <2>8 DEF TokenChange
  <2>10. QED  BY <2>1, <2>2, <2>4, <2>5, <2>6, <2>9 DEF ACInv
<1>4. QED  BY <1>1, <1>2, <1>3 DEF ACNext

(* The accounts invariant holds in every reachable state.                  *)
THEOREM AccountsInvariant == ACSpec => []ACInv
<1>1. QED  BY InitHolds, StepHolds, PTL DEF ACSpec

-----------------------------------------------------------------------------
(* The table, the clients, the tokens and the history keep their types     *)
(* (domain/user.go, jwt_service.go:19-24).                                 *)
THEOREM AccountsTypeCorrect == ACSpec => []ACTypeOK
<1>1. ACInv => ACTypeOK  BY DEF ACInv
<1>2. QED  BY <1>1, AccountsInvariant, PTL

(* What a 201 of register or a 200 of login tells its client stays true of *)
(* the table, for any number of clients and accounts (auth.go:47-198).     *)
THEOREM AnswersNameAccounts == ACSpec => []AnswersAreTrue
<1>1. ASSUME ACInv PROVE AnswersAreTrue
  <2> SUFFICES ASSUME NEW c \in Clients, Told(c), client[c].pc = "idle"
               PROVE  /\ NamesAccount(c)
                      /\ client[c].id \in ListUsers =>
                           FindByEmail(client[c].req.Email) = {client[c].id}
    BY DEF AnswersAreTrue, Told, NamesAccount, Answered
  <2>1. NamesAccount(c)  BY <1>1 DEF ACInv, ClientInv
  <2>2. QED
    BY <1>1, <2>1 DEF ACInv, EmailsAreUnique, NamesAccount, ListUsers, FindByEmail, Live
<1>2. QED  BY <1>1, AccountsInvariant, PTL

(* The claims of every token, through any chain of refreshes, are of a     *)
(* registered account and a role it has or had (auth.go:85, 173, 216-220). *)
THEOREM TokensNameAccounts == ACSpec => []TokensAreTrue
<1>1. ACInv => TokensAreTrue  BY DEF ACInv, TokensAreTrue, TokenInv
<1>2. QED  BY <1>1, AccountsInvariant, PTL

(* No step changes an account's identity, email or password, or anything   *)
(* of a deleted account (postgres_user.go:42-69).                          *)
THEOREM AccountsStay == ACSpec => AccountsArePermanent
<1>1. ACInv /\ [ACNext]_acVars => [\A id \in IDs : Permanent(id)]_acVars
  <2> SUFFICES ASSUME ACInv, ACNext PROVE \A id \in IDs : Permanent(id)
    OBVIOUS
  <2>1. CASE ACCrash  BY <2>1 DEF ACCrash, Permanent
  <2>2. CASE \E c \in Clients : ClientStep(c)
    BY <2>2, TableSteps, TablePermanent
  <2>3. QED  BY <2>1, <2>2 DEF ACNext
<1>2. ACInv /\ [ACNext]_acVars =>
        [\A id \in IDs : users[id] # NoUser =>
           /\ users'[id] # NoUser
           /\ users'[id].Email = users[id].Email
           /\ users'[id].PasswordHash = users[id].PasswordHash
           /\ users[id].Deleted => users'[id] = users[id]]_acVars
  BY <1>1 DEF Permanent
<1>3. QED  BY <1>2, AccountsInvariant, PTL DEF ACSpec, AccountsArePermanent

-----------------------------------------------------------------------------
(* The atomic service.  Only the step that issues a token enters a         *)
(* session; an insert opens an account, an update amends one, and every    *)
(* other step passes.                                                      *)

Presented == [c \in Clients |-> PresentedBy(c)]
Admitted  == [c \in Clients |-> client[c].pc = "update"]

LEMMA InitServes == ACInit => Service!ASInit
<1> SUFFICES ASSUME ACInit PROVE Service!ASInit  OBVIOUS
<1>1. \A c \in Clients : client[c].pc = "idle" /\ client[c].op = "none"
  BY DEF ACInit, Idle
<1>2. \A c \in Clients : PresentedBy(c) = NoUser /\ (client[c].pc = "update") = FALSE
  BY <1>1 DEF PresentedBy, Answered
<1>3. QED  BY <1>2 DEF ACInit, Service!ASInit

(* The others' last answers stand, and about the same accounts.            *)
LEMMA PresentsOne ==
  ASSUME NEW c \in Clients, \A d \in Clients : d # c => client'[d] = client[d]
  PROVE  Presented' = [Presented EXCEPT ![c] = PresentedBy(c)']
<1>1. \A d \in Clients : d # c => PresentedBy(d)' = PresentedBy(d)
  BY DEF PresentedBy, Answered
<1>2. QED  BY <1>1 DEF Presented

(* A client that is given no token in a step presents nothing in it.       *)
LEMMA PresentsNothing ==
  ASSUME ACInv, NEW c \in Clients, ClientStep(c), ~IssueToken(c)
  PROVE  /\ Presented' = Presented \/ Presented' = [Presented EXCEPT ![c] = NoUser]
         /\ client[c].pc # "idle" => Presented' = Presented
<1>1. ClientChange(c)  BY ClientSteps
<1>2. Presented' = [Presented EXCEPT ![c] = PresentedBy(c)']
  BY <1>1, PresentsOne DEF ClientChange
<1>3. ~Told(c)' => PresentedBy(c)' = NoUser  BY DEF Told, PresentedBy
<1>4. client[c].pc # "idle" => PresentedBy(c) = NoUser  BY DEF PresentedBy, Answered
<1>5. client'[c] = client[c] => PresentedBy(c)' = PresentedBy(c)
  BY DEF PresentedBy, Answered
<1>6. Finds(c) => PresentedBy(c)' = NoUser  BY DEF Finds, PresentedBy, Answered
<1>7. Issued(c) => client'[c] = client[c]
  BY DEF Issued, ClientStep, RefuseBody, ForgotPassword, Logout, Register, CreateUser,
     Login, Unauthorized, Refresh, Update, UpdateRole, DeleteUser, RegisterFcmToken,
     TokenExpires, Authenticated
<1>8. PresentedBy(c)' = PresentedBy(c) \/ PresentedBy(c)' = NoUser
  BY <1>1, <1>3, <1>5, <1>6, <1>7 DEF ClientChange, Ends, Looked, Admits, Told, Answered
<1>9. [Presented EXCEPT ![c] = PresentedBy(c)] = Presented  BY DEF Presented
<1>10. QED  BY <1>2, <1>4, <1>8, <1>9

(* Nothing but an admission has a change under way that was not.           *)
LEMMA AdmitsOne ==
  ASSUME ACInv, NEW c \in Clients, ClientChange(c), ~Admits(c)
  PROVE  /\ Admitted' = Admitted \/ Admitted' = [Admitted EXCEPT ![c] = FALSE]
         /\ client[c].pc # "update" => Admitted' = Admitted
         /\ client'[c].pc = "idle" => Admitted' = [Admitted EXCEPT ![c] = FALSE]
<1>1. \A d \in Clients : d # c => client'[d] = client[d]  BY DEF ClientChange
<1>2. client'[c] = client[c] \/ client'[c].pc # "update"
  BY DEF ClientChange, Ends, Looked, Finds, Issued
<1>3. QED  BY <1>1, <1>2 DEF Admitted

(* A client that is given no token keeps its own, or loses it.             *)
LEMMA KeepsToken ==
  ASSUME ACInv, NEW c \in Clients, ClientStep(c), ~IssueToken(c)
  PROVE  UNCHANGED token \/ token' = [token EXCEPT ![c] = NoToken]
<1>1. TokenChange(c) /\ ACTypeOK  BY ClientSteps DEF ACInv
<1>2. CASE Refresh(c)
  <2> DEFINE t == GenerateToken(token[c].UserID, token[c].Email, token[c].Role)
  <2>1. token[c] \in Claims  BY <1>1, <1>2 DEF Refresh, Authenticated, ACTypeOK
  <2>2. t = token[c]  BY <2>1 DEF GenerateToken, Claims
  <2>3. token' = [token EXCEPT ![c] = t]  BY <1>2 DEF Refresh
  <2> HIDE DEF t
  <2>4. QED  BY <1>1, <2>2, <2>3 DEF ACTypeOK
<1>3. CASE ~Refresh(c)
  BY <1>3 DEF ClientStep, RefuseBody, ForgotPassword, Logout, Register, CreateUser,
     Login, Unauthorized, Update, UpdateRole, DeleteUser, RegisterFcmToken, AdmitUpdate,
     TokenExpires
<1>4. QED  BY <1>2, <1>3

(* The history follows the table.                                          *)
LEMMA HeldFollows ==
  ASSUME ACInv, RecordRoles
  PROVE  /\ UNCHANGED users => UNCHANGED held
         /\ \A id \in IDs, row \in User :
              users' = [users EXCEPT ![id] = row] =>
                held' = [held EXCEPT ![id] = @ \cup {row.Role}]
<1> USE DEF ACInv
<1>1. \A i \in IDs : users[i] # NoUser => held[i] \cup {users[i].Role} = held[i]
  BY DEF RolesAreHeld
<1>2. ASSUME UNCHANGED users PROVE UNCHANGED held
  BY <1>1, <1>2 DEF RecordRoles, ACTypeOK
<1>3. ASSUME NEW id \in IDs, NEW row \in User, users' = [users EXCEPT ![id] = row]
      PROVE  held' = [held EXCEPT ![id] = @ \cup {row.Role}]
  <2>1. /\ users'[id] = row /\ row # NoUser
        /\ \A i \in IDs : i # id => users'[i] = users[i]
    BY <1>3, SetRow, ACDistinct
  <2>2. \A i \in IDs : held'[i] = IF i = id THEN held[id] \cup {row.Role} ELSE held[i]
    BY <1>1, <2>1 DEF RecordRoles
  <2>3. QED  BY <2>2 DEF RecordRoles, ACTypeOK
<1>4. QED  BY <1>2, <1>3

LEMMA SetServes ==
  ASSUME ACInv, RecordRoles, NEW id \in IDs, NEW row \in User,
         users' = [users EXCEPT ![id] = row]
  PROVE  Service!SetAccount(id) /\ users'[id] = row
<1>1. users'[id] = row  BY SetRow DEF ACInv
<1>2. held' = [held EXCEPT ![id] = @ \cup {row.Role}]  BY HeldFollows
<1>3. QED  BY <1>1, <1>2 DEF Service!SetAccount, Service!Account, User

LEMMA IssueServes ==
  ASSUME ACInv, RecordRoles, NEW c \in Clients, IssueToken(c)
  PROVE  \E id \in IDs : Service!Enter(c, id)
<1> DEFINE id == client[c].id
<1>1. /\ NamesAccount(c) /\ client[c].role \in held[id]
      /\ client[c].op \in {"register", "login"}
  BY DEF ACInv, ClientInv, Told, IssueToken
<1>2. UNCHANGED users  BY DEF IssueToken
<1>3. UNCHANGED held  BY <1>2, HeldFollows
<1>4. Issued(c) /\ ClientChange(c)  BY IssueStep
<1>5. PresentedBy(c)' = [UserID |-> id, Email |-> users[id].Email,
                         Key |-> users[id].PasswordHash]
  BY <1>1, <1>4 DEF Issued, PresentedBy, Answered, NamesAccount
<1>6. Presented' = [Presented EXCEPT ![c] = PresentedBy(c)']
  BY <1>4, PresentsOne DEF ClientChange
<1>7. token' = [token EXCEPT ![c] =
        [UserID |-> id, Email |-> users[id].Email, Role |-> client[c].role]]
  BY <1>1 DEF IssueToken, GenerateToken, NamesAccount
<1>8. Admitted' = Admitted
  BY <1>4, AdmitsOne DEF Issued, Admits, Authenticated
<1>9. Service!Enter(c, id)
  BY <1>1, <1>2, <1>3, <1>5, <1>6, <1>7, <1>8 DEF Service!Enter, NamesAccount, Presented, Admitted
<1>10. QED  BY <1>1, <1>9 DEF NamesAccount

LEMMA ClientServes ==
  ASSUME ACInv, RecordRoles, NEW c \in Clients, ClientStep(c), ~IssueToken(c)
  PROVE  Service!ASNext
<1>1. /\ Presented' = Presented \/ Presented' = [Presented EXCEPT ![c] = NoUser]
      /\ client[c].pc # "idle" => Presented' = Presented
      /\ UNCHANGED token \/ token' = [token EXCEPT ![c] = NoToken]
  BY PresentsNothing, KeepsToken
<1>2. ClientChange(c)  BY ClientSteps
<1>3. CASE UNCHANGED users
  <2>1. UNCHANGED held  BY <1>3, HeldFollows
  <2>2. CASE Admits(c)
    <3>1. Presented' = [Presented EXCEPT ![c] = NoUser]
      BY <1>2, <2>2, PresentsOne DEF Admits, ClientChange, PresentedBy, Answered
    <3>2. Admitted' = [Admitted EXCEPT ![c] = TRUE]
      BY <1>2, <2>2 DEF Admits, ClientChange, Admitted
    <3>3. Service!Admit(c)
      BY <2>1, <2>2, <3>1, <3>2 DEF Admits, Authenticated, Service!Admit, Presented, Admitted
    <3>4. QED  BY <3>3 DEF Service!ASNext
  <2>3. CASE ~Admits(c)
    <3>1. Admitted' = Admitted \/ Admitted' = [Admitted EXCEPT ![c] = FALSE]
      BY <1>2, <2>3, AdmitsOne
    <3>2. Service!Pass(c)
      BY <1>1, <1>3, <2>1, <3>1 DEF Service!Pass, Presented, Admitted
    <3>3. QED  BY <3>2 DEF Service!ASNext
  <2>4. QED  BY <2>2, <2>3
<1>4. CASE Inserted /\ client[c].pc = "create" /\ UNCHANGED token
  <2>1. PICK id \in IDs, row \in User :
          /\ users[id] = NoUser /\ ~EmailTaken(row.Email) /\ ~row.Deleted
          /\ users' = [users EXCEPT ![id] = row]
    BY <1>4 DEF Inserted
  <2>2. Service!SetAccount(id) /\ users'[id] = row  BY <2>1, SetServes
  <2>3. Admitted' = Admitted
    BY <1>2, <1>4, AdmitsOne DEF Admits, Authenticated
  <2>4. Service!Open(id)
    BY <1>1, <1>4, <2>1, <2>2, <2>3 DEF Service!Open, EmailTaken, Presented, Admitted
  <2>5. QED  BY <2>4 DEF Service!ASNext
<1>5. CASE Updated /\ Update(c)
  <2>1. PICK id \in IDs, row \in User :
          /\ Live(id)
          /\ row.Email = users[id].Email /\ row.PasswordHash = users[id].PasswordHash
          /\ users' = [users EXCEPT ![id] = row]
    BY <1>5 DEF Updated
  <2>2. Service!SetAccount(id) /\ users'[id] = row  BY <2>1, SetServes
  <2>3. client[c].pc = "update" /\ UNCHANGED token  BY <1>5 DEF Update
  <2>4. Admitted[c] /\ Admitted' = [Admitted EXCEPT ![c] = FALSE]
    BY <1>2, <1>5, <2>3, UpdateStep, AdmitsOne DEF Admits, Authenticated, Admitted
  <2>5. Service!Amend(c, id)
    BY <1>1, <2>1, <2>2, <2>3, <2>4 DEF Service!Amend, Live, Presented, Admitted
  <2>6. QED  BY <2>5 DEF Service!ASNext
<1>6. QED  BY <1>3, <1>4, <1>5, TableSteps

LEMMA StepServes == ACInv /\ [ACNext]_acVars => [Service!ASNext]_(Service!asVars)
<1> SUFFICES ASSUME ACInv, [ACNext]_acVars
             PROVE  Service!ASNext \/ UNCHANGED Service!asVars
  OBVIOUS
<1>1. CASE UNCHANGED acVars
  BY <1>1 DEF acVars, Service!asVars, PresentedBy, Answered
<1>2. CASE ACCrash /\ RecordRoles
  <2>1. UNCHANGED <<users, token, held>>  BY <1>2, HeldFollows DEF ACCrash
  <2>2. \A d \in Clients : PresentedBy(d)' = PresentedBy(d)
    BY <1>2 DEF ACCrash, PresentedBy, Answered, Idle
  <2>3. \A d \in Clients : (client[d].pc = "update")' = FALSE
    BY <1>2 DEF ACCrash, Idle
  <2>4. Service!Drop  BY <2>1, <2>2, <2>3 DEF Service!Drop
  <2>5. QED  BY <2>4 DEF Service!ASNext
<1>3. ASSUME NEW c \in Clients, ClientStep(c), RecordRoles PROVE Service!ASNext
  <2>1. CASE IssueToken(c)  BY <1>3, <2>1, IssueServes DEF Service!ASNext
  <2>2. CASE ~IssueToken(c)  BY <1>3, <2>2, ClientServes
  <2>3. QED  BY <2>1, <2>2
<1>4. QED  BY <1>1, <1>2, <1>3 DEF ACNext

(* Whatever runs between the look-up, the insert and the token of a        *)
(* handler, and wherever the engine dies, the accounts are those of the    *)
(* atomic service: sessions are entered only with the account's own        *)
(* address and a password that bcrypt takes for its own, and only requests *)
(* admitted with a token change accounts (auth.go:47-222, users.go:50-86,  *)
(* user.go:61-64, middleware/auth.go:12-58).                               *)
THEOREM AccountsImplementService == ACSpec => ImplementsAccountService
<1>1. ACSpec => Service!ASSpec
  BY InitServes, StepServes, AccountsInvariant, PTL DEF ACSpec, Service!ASSpec
<1>2. QED  BY <1>1 DEF ImplementsAccountService
=============================================================================
