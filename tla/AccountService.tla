---------------------------- MODULE AccountService ----------------------------
(***************************************************************************)
(* What the engine promises of its accounts, without handlers, look-ups or *)
(* statements: an account is opened once, under an address that none has   *)
(* had; it keeps address and password, and once closed does not change; a  *)
(* session is entered in one step, by whoever presents a password that is  *)
(* taken for the account's, with a role that the account has or had; and   *)
(* an account is changed only by a request that was admitted in a session. *)
(***************************************************************************)
CONSTANTS Clients, IDs, Emails, Keys, Roles, NoUser, NoToken

VARIABLES
  accounts,   \* the accounts by their identities
  roles,      \* the roles each has had
  session,    \* the claims each client holds
  presented,  \* the account that each client's last answer was about, with
              \* the address and the key of the password it had presented
  admitted    \* whether a change that each client asked for is under way

asVars == <<accounts, roles, session, presented, admitted>>

Account == [Email : Emails, PasswordHash : Keys, Role : Roles,
            FcmToken : BOOLEAN, Deleted : BOOLEAN]

ASInit ==
  /\ accounts = [id \in IDs |-> NoUser]
  /\ roles = [id \in IDs |-> {}]
  /\ session = [c \in Clients |-> NoToken]
  /\ presented = [c \in Clients |-> NoUser]
  /\ admitted = [c \in Clients |-> FALSE]

SetAccount(id) ==
  /\ accounts'[id] \in Account
  /\ accounts' = [accounts EXCEPT ![id] = accounts'[id]]
  /\ roles' = [roles EXCEPT ![id] = @ \cup {accounts'[id].Role}]

Open(id) ==
  /\ accounts[id] = NoUser
  /\ SetAccount(id)
  /\ ~accounts'[id].Deleted
  /\ \A i \in IDs : accounts[i] # NoUser => accounts[i].Email # accounts'[id].Email
  /\ UNCHANGED <<session, presented, admitted>>

Enter(c, id) ==
  /\ accounts[id] # NoUser
  /\ presented' = [presented EXCEPT ![c] =
       [UserID |-> id, Email |-> accounts[id].Email, Key |-> accounts[id].PasswordHash]]
  /\ \E role \in roles[id] :
       session' = [session EXCEPT ![c] =
         [UserID |-> id, Email |-> accounts[id].Email, Role |-> role]]
  /\ UNCHANGED <<accounts, roles, admitted>>

Admit(c) ==
  /\ session[c] # NoToken
  /\ admitted' = [admitted EXCEPT ![c] = TRUE]
  /\ presented' = [presented EXCEPT ![c] = NoUser]
  /\ UNCHANGED <<accounts, roles, session>>

Amend(c, id) ==
  /\ admitted[c]
  /\ admitted' = [admitted EXCEPT ![c] = FALSE]
  /\ accounts[id] # NoUser /\ ~accounts[id].Deleted
  /\ SetAccount(id)
  /\ accounts'[id].Email = accounts[id].Email
  /\ accounts'[id].PasswordHash = accounts[id].PasswordHash
  /\ UNCHANGED <<session, presented>>

(* A request that comes to nothing, a refresh, or the end of a session.    *)
Pass(c) ==
  /\ UNCHANGED <<accounts, roles>>
  /\ UNCHANGED presented \/ presented' = [presented EXCEPT ![c] = NoUser]
  /\ UNCHANGED session \/ session' = [session EXCEPT ![c] = NoToken]
  /\ UNCHANGED admitted \/ admitted' = [admitted EXCEPT ![c] = FALSE]

(* The changes under way are lost.                                         *)
Drop ==
  /\ admitted' = [c \in Clients |-> FALSE]
  /\ UNCHANGED <<accounts, roles, session, presented>>

ASNext ==
  \/ \E c \in Clients : Pass(c) \/ Admit(c)
  \/ \E id \in IDs : Open(id)
  \/ \E c \in Clients, id \in IDs : Enter(c, id) \/ Amend(c, id)
  \/ Drop

ASSpec == ASInit /\ [][ASNext]_asVars
=============================================================================
