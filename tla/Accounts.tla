------------------------------ MODULE Accounts ------------------------------
(***************************************************************************)
(* Accounts and sessions (auth/userstore.go, auth/auth.go): the            *)
(* administrator in the one row of app_user, the others in app_sub_users,  *)
(* and the sessions, which the server does not store: a cookie is signed   *)
(* with the secret its account had when it was handed out.                 *)
(*                                                                         *)
(* Every method of the user store holds its mutex; a handler calls several, *)
(* and other requests come in between.                                     *)
(*                                                                         *)
(* A secret is a number never used before; it is drawn anew with every     *)
(* password, so that knowing the password is knowing of the secret.  Left  *)
(* out: expiry of a cookie, strength and hashes of passwords, the pages a  *)
(* role may open, user_features, the employees of viewers (which no code   *)
(* creates).                                                               *)
(***************************************************************************)
EXTENDS Integers, FiniteSets

CONSTANTS
    Users,          \* user names
    Visitors,       \* requests in flight at the same time
    MaxSecrets      \* bound: secrets drawn

Nobody == "nobody"

ASSUME AccountsAssumption ==
    /\ Nobody \notin Users
    /\ MaxSecrets \in Nat

VARIABLES
    primary,    \* app_user.username, Nobody before the setup
    role,       \* user -> role in app_sub_users, "none" without a row
    active,     \* user -> whether that row's status is active
    secret,     \* user -> session_secret, 0 without an account
    drawn,      \* how many secrets were drawn
    cookies,    \* sessions in browsers: <<user, secret>>
    visitor     \* the requests in flight

accountVars == <<primary, role, active, secret, drawn, cookies, visitor>>
rows == <<primary, role, active, secret, drawn>>

Roles == {"user1", "sysadmin"}
Edits == {"role", "status", "reset"}
NoVisitor == [pc |-> "idle", user |-> Nobody, edits |-> {}]
Visitor ==
    [pc : {"idle", "setup", "register", "cookie", "password", "check", "users"},
     user : Users \cup {Nobody}, edits : SUBSET Edits]

Quiet(v) == visitor[v].pc = "idle"
Enter(v, pc, u) ==
    visitor' = [visitor EXCEPT ![v] = [pc |-> pc, user |-> u, edits |-> {}]]
Leave(v) == visitor' = [visitor EXCEPT ![v] = NoVisitor]

NeedsSetup == primary = Nobody
IsSub(u) == role[u] # "none"
Exists(u) == u = primary \/ IsSub(u)
RoleOf(u) == IF u = primary THEN "admin" ELSE role[u]

(* parseTokenInfo: signed with the secret the account has now.             *)
SameSecret(u, s) == s = secret[u]                           \* mutant
ValidSession(u, s) == s = secret[u] /\ s # 0

(* A new password and secret; an account that is not there has neither.    *)
DrawSecret(u) ==
    /\ drawn < MaxSecrets
    /\ drawn' = drawn + 1
    /\ secret' = [secret EXCEPT ![u] = drawn + 1]

AccountsInit ==
    /\ primary = Nobody
    /\ role = [u \in Users |-> "none"]
    /\ active = [u \in Users |-> FALSE]
    /\ secret = [u \in Users |-> 0]
    /\ drawn = 0
    /\ cookies = {}
    /\ visitor = [v \in Visitors |-> NoVisitor]

-----------------------------------------------------------------------------
(* The setup: allowed while there is no administrator, ...                 *)
HandleSetup(v, u) ==
    /\ Quiet(v) /\ NeedsSetup
    /\ Enter(v, "setup", u)
    /\ UNCHANGED <<rows, cookies>>

(* ... which is looked at again under the mutex.                           *)
Always == TRUE                                              \* mutant
NoUserYet == NeedsSetup
CreateFirstUser(v) ==
    /\ visitor[v].pc = "setup"
    /\ LET u == visitor[v].user
       IN  IF NoUserYet
           THEN /\ primary' = u
                /\ DrawSecret(u)
                /\ Enter(v, "cookie", u)
           ELSE Leave(v) /\ UNCHANGED <<primary, secret, drawn>>
    /\ UNCHANGED <<role, active, cookies>>

(* Registration: not before the setup.                                     *)
HandleRegister(v, u) ==
    /\ Quiet(v) /\ ~NeedsSetup
    /\ Enter(v, "register", u)
    /\ UNCHANGED <<rows, cookies>>

(* CreateUser: the name must be in neither table.                          *)
NoRow(u) == ~IsSub(u)                                       \* mutant
NameFree(u) == ~Exists(u)
InsertRow(u, r) ==
    /\ role' = [role EXCEPT ![u] = r]
    /\ active' = [active EXCEPT ![u] = TRUE]
    /\ DrawSecret(u)
    /\ UNCHANGED primary

RegisterUser(v) ==
    /\ visitor[v].pc = "register"
    /\ LET u == visitor[v].user
       IN  IF NameFree(u) THEN InsertRow(u, "user1") /\ Enter(v, "cookie", u)
           ELSE Leave(v) /\ UNCHANGED rows
    /\ UNCHANGED cookies

(* A login with the right password, into an active account.                *)
HandleLogin(v, u) ==
    /\ Quiet(v) /\ ~NeedsSetup
    /\ Exists(u)
    /\ u # primary => active[u]
    /\ Enter(v, "cookie", u)
    /\ UNCHANGED <<rows, cookies>>

(* mintTokenFor: a cookie with whatever secret the account has by now.     *)
SetSessionCookie(v) ==
    /\ visitor[v].pc = "cookie"
    /\ cookies' = cookies \cup {<<visitor[v].user, secret[visitor[v].user]>>}
    /\ Leave(v)
    /\ UNCHANGED rows

HandleLogout(k) ==
    /\ cookies' = cookies \ {k}
    /\ UNCHANGED <<rows, visitor>>

(* Somebody with a session changes the password, ...                       *)
HandleChangePassword(v, k) ==
    /\ Quiet(v) /\ ~NeedsSetup
    /\ ValidSession(k[1], k[2])
    /\ Enter(v, "password", k[1])
    /\ UNCHANGED <<rows, cookies>>

(* ... if the account is still there, and gets a cookie with the new secret. *)
ChangePasswordFor(v) ==
    /\ visitor[v].pc = "password"
    /\ LET u == visitor[v].user
       IN  IF Exists(u) THEN DrawSecret(u) /\ Enter(v, "cookie", u)
           ELSE Leave(v) /\ UNCHANGED <<secret, drawn>>
    /\ UNCHANGED <<primary, role, active, cookies>>

-----------------------------------------------------------------------------
(* An administrator's request: the cookie is checked, ...                  *)
ValidSessionInfo(v, k) ==
    /\ Quiet(v) /\ ~NeedsSetup
    /\ ValidSession(k[1], k[2])
    /\ Enter(v, "check", k[1])
    /\ UNCHANGED <<rows, cookies>>

(* ... then, under a lock of its own, the role ...                         *)
IsAdminRole(r) == r \in {"admin", "sysadmin"}
CheckRole(v) ==
    /\ visitor[v].pc = "check"
    /\ IF IsAdminRole(RoleOf(visitor[v].user))
       THEN \E u \in Users, e \in SUBSET Edits :
                visitor' = [visitor EXCEPT ![v] =
                               [pc |-> "users", user |-> u, edits |-> e]]
       ELSE Leave(v)
    /\ UNCHANGED <<rows, cookies>>

(* ... and the request is carried out: POST, ...                           *)
Asks(v, e) == visitor[v].pc = "users" /\ visitor[v].edits = e
CreateUser(v, r) ==
    /\ Asks(v, {})
    /\ NameFree(visitor[v].user)
    /\ InsertRow(visitor[v].user, r)
    /\ Leave(v)
    /\ UNCHANGED cookies

(* ... DELETE, ...                                                         *)
DeleteUser(v) ==
    /\ Asks(v, {})
    /\ LET u == visitor[v].user
       IN  /\ IsSub(u) /\ u # primary
           /\ role' = [role EXCEPT ![u] = "none"]
           /\ active' = [active EXCEPT ![u] = FALSE]
           /\ secret' = [secret EXCEPT ![u] = 0]
    /\ Leave(v)
    /\ UNCHANGED <<primary, drawn, cookies>>

(* ... or nothing: GET, a body or a name that is refused, ...              *)
Refused(v) ==
    /\ visitor[v].pc = "users"
    /\ Leave(v)
    /\ UNCHANGED <<rows, cookies>>

(* ... or PUT: up to three changes, one after the other, until one fails.  *)
Edited(v, e) ==
    visitor' = [visitor EXCEPT ![v] =
        IF visitor[v].edits = {e} THEN NoVisitor
        ELSE [visitor[v] EXCEPT !.edits = @ \ {e}]]

SetUserRole(v) ==
    /\ visitor[v].pc = "users" /\ "role" \in visitor[v].edits
    /\ IsSub(visitor[v].user)
    /\ role' = [role EXCEPT ![visitor[v].user] = "user1"]
    /\ Edited(v, "role")
    /\ UNCHANGED <<primary, active, secret, drawn, cookies>>

SetUserStatus(v, a) ==
    /\ visitor[v].pc = "users"
    /\ "status" \in visitor[v].edits /\ "role" \notin visitor[v].edits
    /\ IsSub(visitor[v].user) /\ visitor[v].user # primary
    /\ active' = [active EXCEPT ![visitor[v].user] = a]
    /\ Edited(v, "status")
    /\ UNCHANGED <<primary, role, secret, drawn, cookies>>

AdminResetPassword(v) ==
    /\ Asks(v, {"reset"})
    /\ Exists(visitor[v].user)
    /\ DrawSecret(visitor[v].user)
    /\ Edited(v, "reset")
    /\ UNCHANGED <<primary, role, active, cookies>>

HandleUsers(v) ==
    \/ \E r \in Roles : CreateUser(v, r)
    \/ DeleteUser(v)
    \/ SetUserRole(v) \/ AdminResetPassword(v)
    \/ \E a \in BOOLEAN : SetUserStatus(v, a)
    \/ Refused(v)

(* Nothing but the tables and the cookies outlives the process.            *)
Restart ==
    /\ visitor' = [v \in Visitors |-> NoVisitor]
    /\ UNCHANGED <<rows, cookies>>

AccountsNext ==
    \/ \E v \in Visitors :
          \/ \E u \in Users :
                HandleSetup(v, u) \/ HandleRegister(v, u) \/ HandleLogin(v, u)
          \/ CreateFirstUser(v) \/ RegisterUser(v) \/ SetSessionCookie(v)
          \/ \E k \in cookies :
                HandleChangePassword(v, k) \/ ValidSessionInfo(v, k)
          \/ ChangePasswordFor(v)
          \/ CheckRole(v) \/ HandleUsers(v)
    \/ \E k \in cookies : HandleLogout(k)
    \/ Restart

AccountsSpec == AccountsInit /\ [][AccountsNext]_accountVars

-----------------------------------------------------------------------------
AccountsTypeOK ==
    /\ primary \in Users \cup {Nobody}
    /\ role \in [Users -> Roles \cup {"none"}]
    /\ active \in [Users -> BOOLEAN]
    /\ secret \in [Users -> 0 .. MaxSecrets]
    /\ drawn \in 0 .. MaxSecrets
    /\ cookies \subseteq Users \X (0 .. MaxSecrets)
    /\ visitor \in [Visitors -> Visitor]

(* A name is in one of the two tables only, whoever sets up and registers  *)
(* at the same time: findByUsernameLocked looks into app_user first, and   *)
(* would never find the other (userstore.go:91-109, 394-431).              *)
OneAccountPerName == \A u \in Users : u = primary => ~IsSub(u)

(* The administrator's name is set once: of several setups under way, the  *)
(* first wins, and no later request removes or renames the account         *)
(* (CreateFirstUser, DeleteUser).                                          *)
PrimaryKept == [][primary # Nobody => primary' = primary]_accountVars

(* A session that ended, with a new password or with its account, does not *)
(* come back when the name is registered again, or deleted once more       *)
(* (parseTokenInfo, auth.go:99-137).                                       *)
EndedSessionsStayEnded ==
    [][\A k \in cookies : ~ValidSession(k[1], k[2])
            => ~ValidSession(k[1], k[2])']_accountVars
=============================================================================
