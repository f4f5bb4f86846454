--------------------------- MODULE AccountsProofs ---------------------------
(***************************************************************************)
(* Theorems about Accounts, for any users, any number of requests between  *)
(* each other and any crashes.                                             *)
(***************************************************************************)
EXTENDS Accounts, TLAPS

(* A request that is under way is about a user; those that need the setup  *)
(* to be over began after it.  No row is there before the setup.           *)
AfterSetup == {"register", "password", "check", "users"}
VisitorOK(v) ==
    /\ visitor[v].pc # "idle" => visitor[v].user \in Users
    /\ visitor[v].pc \in AfterSetup => ~NeedsSetup
RowsAfterSetup == NeedsSetup => \A u \in Users : ~IsSub(u)

(* A secret is never drawn twice.                                          *)
SecretsDrawn ==
    /\ \A u \in Users : secret[u] <= drawn
    /\ \A k \in cookies : k[2] <= drawn

AccountsInv ==
    /\ AccountsTypeOK /\ OneAccountPerName
    /\ \A v \in Visitors : VisitorOK(v)
    /\ RowsAfterSetup /\ SecretsDrawn

LEMMA AccountConstants ==
    /\ Nobody \notin Users
    /\ MaxSecrets \in Nat
BY AccountsAssumption

LEMMA NoVisitorIs == NoVisitor \in Visitor /\ NoVisitor.pc = "idle"
BY DEF NoVisitor, Visitor

(* Entering and leaving.                                                   *)
Moves(v, pcs) ==
    /\ visitor' \in [Visitors -> Visitor]
    /\ \A w \in Visitors \ {v} : visitor'[w] = visitor[w]
    /\ visitor'[v].pc \in pcs
    /\ visitor'[v].pc # "idle" => visitor'[v].user \in Users

LEMMA EnterIs ==
    ASSUME AccountsTypeOK, NEW v \in Visitors, NEW u \in Users,
           NEW pc \in {"setup", "register", "cookie", "password", "check"},
           Enter(v, pc, u)
    PROVE  Moves(v, {pc})
<1>1. [pc |-> pc, user |-> u, edits |-> {}] \in Visitor
    BY DEF Visitor
<1>2. QED
    BY <1>1 DEF Enter, Moves, AccountsTypeOK

LEMMA LeaveIs ==
    ASSUME AccountsTypeOK, NEW v \in Visitors, Leave(v)
    PROVE  Moves(v, {"idle"})
BY NoVisitorIs DEF Leave, Moves, AccountsTypeOK

LEMMA EditedIs ==
    ASSUME AccountsInv, NEW v \in Visitors, NEW e \in Edits,
           visitor[v].pc = "users", Edited(v, e)
    PROVE  Moves(v, {"idle", "users"})
<1>1. visitor[v] \in Visitor /\ visitor[v].user \in Users
    BY DEF AccountsInv, AccountsTypeOK, VisitorOK
<1>2. CASE visitor[v].edits = {e}
    BY <1>2, NoVisitorIs DEF Edited, Moves, AccountsInv, AccountsTypeOK
<1>3. CASE visitor[v].edits # {e}
    <2> DEFINE x == [visitor[v] EXCEPT !.edits = @ \ {e}]
    <2>1. x \in Visitor /\ x.pc = "users" /\ x.user = visitor[v].user
        BY <1>1 DEF Visitor
    <2>2. visitor' = [visitor EXCEPT ![v] = x]
        BY <1>3 DEF Edited
    <2>3. QED
        BY <1>1, <2>1, <2>2 DEF Moves, AccountsInv, AccountsTypeOK
<1>4. QED
    BY <1>2, <1>3

LEMMA DrawIs ==
    ASSUME AccountsTypeOK, NEW u \in Users, DrawSecret(u)
    PROVE  /\ drawn' = drawn + 1 /\ drawn' \in 0 .. MaxSecrets
           /\ secret' \in [Users -> 0 .. MaxSecrets]
           /\ \A w \in Users :
                 secret'[w] = IF w = u THEN drawn + 1 ELSE secret[w]
<1>1. drawn + 1 \in 0 .. MaxSecrets
    BY AccountConstants DEF DrawSecret, AccountsTypeOK
<1>2. QED
    BY <1>1 DEF DrawSecret, AccountsTypeOK

-----------------------------------------------------------------------------
(* What a step may do to the tables and to the cookies.                    *)
SecretsMove ==
    /\ drawn <= drawn' /\ drawn' \in 0 .. MaxSecrets
    /\ secret' \in [Users -> 0 .. MaxSecrets]
    /\ \A u \in Users : \/ secret'[u] = secret[u] \/ secret'[u] = 0
                        \/ secret'[u] > drawn /\ secret'[u] <= drawn'

CookiesMove ==
    \A k \in cookies' : \/ k \in cookies
                        \/ k[1] \in Users /\ k = <<k[1], secret[k[1]]>>

RowsMove ==
    /\ role' \in [Users -> Roles \cup {"none"}]
    /\ active' \in [Users -> BOOLEAN]
    /\ primary # Nobody => primary' = primary
    /\ \A u \in Users : role'[u] # "none" =>
          IsSub(u) \/ (~NeedsSetup /\ u # primary)
    /\ primary' # primary => primary' \in Users /\ UNCHANGED role

VisitorsMove ==
    /\ visitor' \in [Visitors -> Visitor]
    /\ \A v \in Visitors :
          \/ visitor'[v] = visitor[v]
          \/ /\ visitor'[v].pc # "idle" => visitor'[v].user \in Users
             /\ visitor'[v].pc \in AfterSetup => ~NeedsSetup

LEMMA SameAccounts ==
    ASSUME AccountsInv
    PROVE  /\ UNCHANGED <<secret, drawn>> => SecretsMove
           /\ UNCHANGED cookies => CookiesMove
           /\ UNCHANGED <<primary, role, active>> => RowsMove
           /\ UNCHANGED visitor => VisitorsMove
<1>1. UNCHANGED <<secret, drawn>> => SecretsMove
    BY AccountConstants DEF AccountsInv, AccountsTypeOK, SecretsMove
<1>2. UNCHANGED cookies => CookiesMove
    BY DEF CookiesMove
<1>3. UNCHANGED <<primary, role, active>> => RowsMove
    BY DEF AccountsInv, AccountsTypeOK, RowsMove, IsSub
<1>4. UNCHANGED visitor => VisitorsMove
    BY DEF AccountsInv, AccountsTypeOK, VisitorsMove
<1>5. QED
    BY <1>1, <1>2, <1>3, <1>4

LEMMA Draws ==
    ASSUME AccountsInv, NEW u \in Users, DrawSecret(u) PROVE SecretsMove
<1>1. drawn \in Nat
    BY AccountConstants DEF AccountsInv, AccountsTypeOK
<1>2. QED
    BY <1>1, DrawIs DEF AccountsInv, SecretsMove

LEMMA VisitorMoves ==
    ASSUME AccountsInv, NEW v \in Visitors, NEW pcs, Moves(v, pcs),
           pcs \cap AfterSetup = {} \/ ~NeedsSetup
    PROVE  VisitorsMove
BY DEF Moves, VisitorsMove

LEMMA AccountsInvStep ==
    ASSUME AccountsInv, SecretsMove, CookiesMove, RowsMove, VisitorsMove
    PROVE  AccountsInv'
<1>0. AccountsTypeOK /\ drawn \in Nat /\ \A u \in Users : secret[u] \in Nat
    BY AccountConstants DEF AccountsInv, AccountsTypeOK
<1>1. primary' \in Users \cup {Nobody}
    BY <1>0 DEF RowsMove, AccountsTypeOK
<1>2. cookies' \subseteq Users \X (0 .. MaxSecrets)
    BY <1>0 DEF CookiesMove, AccountsTypeOK
<1>3. AccountsTypeOK'
    BY <1>1, <1>2 DEF SecretsMove, RowsMove, VisitorsMove, AccountsTypeOK
<1>4. OneAccountPerName'
    <2> SUFFICES ASSUME NEW u \in Users, u = primary', role'[u] # "none"
                 PROVE  FALSE
        BY DEF OneAccountPerName, IsSub
    <2>1. CASE primary' = primary
        BY <2>1 DEF RowsMove, AccountsInv, OneAccountPerName, IsSub
    <2>2. CASE primary' # primary
        <3>1. NeedsSetup /\ role' = role
            BY <2>2 DEF RowsMove, NeedsSetup
        <3>2. QED
            BY <3>1 DEF AccountsInv, RowsAfterSetup, IsSub
    <2>3. QED
        BY <2>1, <2>2
<1>5. NeedsSetup' => NeedsSetup
    BY AccountConstants DEF RowsMove, NeedsSetup
<1>6. \A v \in Visitors : VisitorOK(v)'
    <2>1. ~NeedsSetup => ~NeedsSetup'
        BY <1>5
    <2>2. QED
        BY <2>1 DEF AccountsInv, VisitorsMove, VisitorOK
<1>7. RowsAfterSetup'
    BY <1>5 DEF AccountsInv, RowsMove, RowsAfterSetup, IsSub
<1>8. SecretsDrawn'
    <2>1. drawn' \in Nat /\ drawn <= drawn'
        BY AccountConstants DEF SecretsMove
    <2>2. \A u \in Users : secret'[u] <= drawn'
        BY <1>0, <2>1 DEF AccountsInv, SecretsDrawn, SecretsMove
    <2>3. \A k \in cookies' : k[2] <= drawn'
        <3>1. \A k \in cookies' : k[2] <= drawn
            BY DEF CookiesMove, AccountsInv, SecretsDrawn
        <3>2. \A k \in cookies' : k[2] \in Nat
            BY <1>2
        <3>3. QED
            BY <1>0, <2>1, <3>1, <3>2
    <2>4. QED
        BY <2>2, <2>3 DEF SecretsDrawn
<1>9. QED
    BY <1>3, <1>4, <1>6, <1>7, <1>8 DEF AccountsInv


-----------------------------------------------------------------------------
LEMMA AccountsInvInit == AccountsInit => AccountsInv
<1> SUFFICES ASSUME AccountsInit PROVE AccountsInv
    OBVIOUS
<1>1. \A v \in Visitors : visitor[v] = NoVisitor
    BY DEF AccountsInit
<1>2. AccountsTypeOK
    BY AccountConstants, NoVisitorIs DEF AccountsInit, AccountsTypeOK
<1>3. \A v \in Visitors : VisitorOK(v)
    BY <1>1, NoVisitorIs DEF VisitorOK, AfterSetup
<1>4. SecretsDrawn /\ RowsAfterSetup /\ OneAccountPerName
    BY DEF AccountsInit, SecretsDrawn, RowsAfterSetup, OneAccountPerName, IsSub
<1>5. QED
    BY <1>2, <1>3, <1>4 DEF AccountsInv

(* Setup and registration.                                                 *)
LEMMA ArrivalStep ==
    ASSUME AccountsInv, NEW v \in Visitors,
           \/ \E u \in Users :
                 HandleSetup(v, u) \/ HandleRegister(v, u) \/ HandleLogin(v, u)
           \/ \E k \in cookies :
                 HandleChangePassword(v, k) \/ ValidSessionInfo(v, k)
    PROVE  AccountsInv'
<1>0. AccountsTypeOK
    BY DEF AccountsInv
<1>1. UNCHANGED <<rows, cookies>>
    BY DEF HandleSetup, HandleRegister, HandleLogin, HandleChangePassword,
           ValidSessionInfo
<1>2. VisitorsMove
    <2>1. \A k \in cookies : k[1] \in Users
        BY <1>0 DEF AccountsTypeOK
    <2>2. PICK u \in Users, pc \in {"setup", "register", "cookie", "password",
                                    "check"} :
             Enter(v, pc, u) /\ (pc \in AfterSetup => ~NeedsSetup)
        BY <2>1 DEF HandleSetup, HandleRegister, HandleLogin,
               HandleChangePassword, ValidSessionInfo, AfterSetup
    <2>3. Moves(v, {pc})
        BY <1>0, <2>2, EnterIs
    <2>4. QED
        BY <2>2, <2>3, VisitorMoves
<1>3. QED
    BY <1>1, <1>2, SameAccounts, AccountsInvStep DEF rows

LEMMA SetupStep ==
    ASSUME AccountsInv, NEW v \in Visitors, CreateFirstUser(v)
    PROVE  AccountsInv'
<1> DEFINE u == visitor[v].user
<1>0. AccountsTypeOK /\ u \in Users
    BY DEF AccountsInv, VisitorOK, CreateFirstUser
<1>1. UNCHANGED <<role, active, cookies>>
    BY DEF CreateFirstUser
<1>2. CASE NoUserYet
    <2>1. primary' = u /\ DrawSecret(u) /\ Enter(v, "cookie", u)
        BY <1>2 DEF CreateFirstUser
    <2>2. RowsMove
        BY <1>0, <1>1, <1>2, <2>1
        DEF RowsMove, NoUserYet, NeedsSetup, AccountsTypeOK, IsSub
    <2>3. Moves(v, {"cookie"}) /\ "cookie" \notin AfterSetup
        BY <1>0, <2>1, EnterIs DEF AfterSetup
    <2>4. VisitorsMove
        BY <2>3, VisitorMoves
    <2>5. QED
        BY <1>0, <1>1, <2>1, <2>2, <2>4, Draws, SameAccounts, AccountsInvStep
<1>3. CASE ~NoUserYet
    <2>1. Leave(v) /\ UNCHANGED <<primary, secret, drawn>>
        BY <1>3 DEF CreateFirstUser
    <2>2. VisitorsMove
        BY <1>0, <2>1, LeaveIs, VisitorMoves DEF AfterSetup
    <2>3. QED
        BY <1>1, <2>1, <2>2, SameAccounts, AccountsInvStep
<1>4. QED
    BY <1>2, <1>3

LEMMA InsertIs ==
    ASSUME AccountsInv, NEW u \in Users, NEW r \in Roles, NameFree(u),
           ~NeedsSetup,
           InsertRow(u, r)
    PROVE  RowsMove /\ SecretsMove
<1>1. RowsMove
    BY DEF AccountsInv, AccountsTypeOK, RowsMove, InsertRow, NameFree,
        Exists, IsSub
<1>2. QED
    BY <1>1, Draws DEF InsertRow

LEMMA RegisterStep ==
    ASSUME AccountsInv, NEW v \in Visitors, RegisterUser(v) PROVE AccountsInv'
<1> DEFINE u == visitor[v].user
<1>0. AccountsTypeOK /\ u \in Users /\ ~NeedsSetup
    BY DEF AccountsInv, VisitorOK, RegisterUser, AfterSetup
<1>1. UNCHANGED cookies
    BY DEF RegisterUser
<1>2. CASE NameFree(u)
    <2>1. InsertRow(u, "user1") /\ Enter(v, "cookie", u) /\ "user1" \in Roles
        BY <1>2 DEF RegisterUser, Roles
    <2>2. VisitorsMove
        BY <1>0, <2>1, EnterIs, VisitorMoves
    <2>3. QED
        BY <1>0, <1>1, <1>2, <2>1, <2>2, InsertIs, SameAccounts,
            AccountsInvStep
<1>3. CASE ~NameFree(u)
    <2>1. Leave(v) /\ UNCHANGED rows
        BY <1>3 DEF RegisterUser
    <2>2. VisitorsMove
        BY <1>0, <2>1, LeaveIs, VisitorMoves
    <2>3. QED
        BY <1>1, <2>1, <2>2, SameAccounts, AccountsInvStep DEF rows
<1>4. QED
    BY <1>2, <1>3

(* Cookies, passwords, a restart.                                          *)
LEMMA CookieStep ==
    ASSUME AccountsInv,
           \/ \E v \in Visitors : SetSessionCookie(v) \/ CheckRole(v)
           \/ \E k \in cookies : HandleLogout(k)
           \/ Restart
    PROVE  AccountsInv'
<1>0. AccountsTypeOK
    BY DEF AccountsInv
<1>1. UNCHANGED rows
    BY DEF SetSessionCookie, CheckRole, HandleLogout, Restart
<1>2. ASSUME NEW v \in Visitors, SetSessionCookie(v) PROVE AccountsInv'
    <2>1. visitor[v].user \in Users
        BY <1>2 DEF AccountsInv, VisitorOK, SetSessionCookie
    <2>2. CookiesMove
        BY <1>2, <2>1 DEF SetSessionCookie, CookiesMove
    <2>3. VisitorsMove
        BY <1>0, <1>2, LeaveIs, VisitorMoves DEF SetSessionCookie, AfterSetup
    <2>4. QED
        BY <1>1, <2>2, <2>3, SameAccounts, AccountsInvStep DEF rows
<1>3. ASSUME NEW v \in Visitors, CheckRole(v) PROVE AccountsInv'
    <2>1. ~NeedsSetup /\ UNCHANGED cookies
        BY <1>3 DEF AccountsInv, VisitorOK, CheckRole, AfterSetup
    <2>2. CASE Leave(v)
        BY <1>0, <1>1, <2>1, <2>2, LeaveIs, VisitorMoves, SameAccounts,
            AccountsInvStep
            DEF rows
    <2>3. CASE \E u \in Users, e \in SUBSET Edits :
                  visitor' = [visitor EXCEPT ![v] =
                                 [pc |-> "users", user |-> u, edits |-> e]]
        <3>1. PICK u \in Users, e \in SUBSET Edits :
                  visitor' = [visitor EXCEPT ![v] =
                                 [pc |-> "users", user |-> u, edits |-> e]]
            BY <2>3
        <3>2. [pc |-> "users", user |-> u, edits |-> e] \in Visitor
            BY DEF Visitor
        <3>3. Moves(v, {"users"})
            BY <1>0, <3>1, <3>2 DEF Moves, AccountsTypeOK
        <3>4. QED
            BY <1>1, <2>1, <3>3, VisitorMoves, SameAccounts, AccountsInvStep
                DEF rows
    <2>4. QED
        BY <1>3, <2>2, <2>3 DEF CheckRole
<1>4. ASSUME NEW k \in cookies, HandleLogout(k) PROVE AccountsInv'
    <2>1. CookiesMove /\ UNCHANGED visitor
        BY <1>4 DEF HandleLogout, CookiesMove
    <2>2. QED
        BY <1>1, <2>1, SameAccounts, AccountsInvStep DEF rows
<1>5. CASE Restart
    <2>1. VisitorsMove /\ UNCHANGED cookies
        BY <1>5, NoVisitorIs DEF Restart, VisitorsMove, AfterSetup
    <2>2. QED
        BY <1>1, <2>1, SameAccounts, AccountsInvStep DEF rows
<1>6. QED
    BY <1>2, <1>3, <1>4, <1>5

LEMMA PasswordStep ==
    ASSUME AccountsInv, NEW v \in Visitors, ChangePasswordFor(v)
    PROVE  AccountsInv'
<1> DEFINE u == visitor[v].user
<1>0. AccountsTypeOK /\ u \in Users
    BY DEF AccountsInv, VisitorOK, ChangePasswordFor
<1>1. UNCHANGED <<primary, role, active, cookies>>
    BY DEF ChangePasswordFor
<1>2. CASE Exists(u)
    <2>1. DrawSecret(u) /\ Enter(v, "cookie", u)
        BY <1>2 DEF ChangePasswordFor
    <2>2. VisitorsMove
        BY <1>0, <2>1, EnterIs, VisitorMoves DEF AfterSetup
    <2>3. QED
        BY <1>0, <1>1, <2>1, <2>2, Draws, SameAccounts, AccountsInvStep
<1>3. CASE ~Exists(u)
    <2>1. Leave(v) /\ UNCHANGED <<secret, drawn>>
        BY <1>3 DEF ChangePasswordFor
    <2>2. VisitorsMove
        BY <1>0, <2>1, LeaveIs, VisitorMoves DEF AfterSetup
    <2>3. QED
        BY <1>1, <2>1, <2>2, SameAccounts, AccountsInvStep
<1>4. QED
    BY <1>2, <1>3

(* An administrator's request.                                             *)
LEMMA UsersStep ==
    ASSUME AccountsInv, NEW v \in Visitors, HandleUsers(v) PROVE AccountsInv'
<1> DEFINE u == visitor[v].user
<1>0. /\ AccountsTypeOK /\ u \in Users /\ ~NeedsSetup
      /\ visitor[v].pc = "users" /\ UNCHANGED cookies
    BY DEF AccountsInv, VisitorOK, HandleUsers, CreateUser, DeleteUser,
        SetUserRole,
           AdminResetPassword, SetUserStatus, Refused, Asks, AfterSetup
<1>1. VisitorsMove
    <2>1. CASE Leave(v)
        BY <1>0, <2>1, LeaveIs, VisitorMoves
    <2>2. ASSUME NEW e \in Edits, Edited(v, e) PROVE VisitorsMove
        BY <1>0, <2>2, EditedIs, VisitorMoves
    <2>3. {"role", "status", "reset"} \subseteq Edits
        BY DEF Edits
    <2>4. QED
        BY <2>1, <2>2, <2>3 DEF HandleUsers, CreateUser, DeleteUser,
            SetUserRole, AdminResetPassword, SetUserStatus, Refused
<1>2. ASSUME NEW r \in Roles, CreateUser(v, r) PROVE AccountsInv'
    BY <1>0, <1>1, <1>2, InsertIs, SameAccounts, AccountsInvStep DEF CreateUser
<1>3. CASE DeleteUser(v)
    <2>1. RowsMove
        BY <1>0, <1>3 DEF DeleteUser, RowsMove, AccountsTypeOK, IsSub
    <2>2. SecretsMove
        BY <1>0, <1>3, AccountConstants
            DEF DeleteUser, SecretsMove, AccountsTypeOK
    <2>3. QED
        BY <1>0, <1>1, <2>1, <2>2, SameAccounts, AccountsInvStep
<1>4. ASSUME SetUserRole(v) \/ \E a \in BOOLEAN : SetUserStatus(v, a)
      PROVE  AccountsInv'
    <2>1. UNCHANGED <<primary, secret, drawn>>
        BY <1>4 DEF SetUserRole, SetUserStatus
    <2>2. RowsMove
        BY <1>0, <1>4
        DEF SetUserRole, SetUserStatus, RowsMove, AccountsTypeOK, IsSub, Roles
    <2>3. QED
        BY <1>0, <1>1, <2>1, <2>2, SameAccounts, AccountsInvStep
<1>5. CASE AdminResetPassword(v)
    BY <1>0, <1>1, <1>5, Draws, SameAccounts, AccountsInvStep
        DEF AdminResetPassword
<1>6. CASE Refused(v)
    BY <1>0, <1>1, <1>6, SameAccounts, AccountsInvStep DEF Refused, rows
<1>7. QED
    BY <1>2, <1>3, <1>4, <1>5, <1>6 DEF HandleUsers


LEMMA AccountsInvNext ==
    AccountsInv /\ [AccountsNext]_accountVars => AccountsInv'
<1> SUFFICES ASSUME AccountsInv, [AccountsNext]_accountVars PROVE AccountsInv'
    OBVIOUS
<1>1. CASE UNCHANGED accountVars
    BY <1>1, SameAccounts, AccountsInvStep DEF accountVars
<1>2. CASE AccountsNext
    BY <1>2, ArrivalStep, SetupStep, RegisterStep, CookieStep, PasswordStep,
       UsersStep
    DEF AccountsNext
<1>3. QED
    BY <1>1, <1>2

LEMMA AccountsInvAlways == AccountsSpec => []AccountsInv
BY AccountsInvInit, AccountsInvNext, PTL DEF AccountsSpec

-----------------------------------------------------------------------------
(* Accounts, cookies and the requests under way keep their types.          *)
THEOREM AccountTypes == AccountsSpec => []AccountsTypeOK
<1>1. AccountsInv => AccountsTypeOK
    BY DEF AccountsInv
<1>2. QED
    BY <1>1, AccountsInvAlways, PTL

(* No name is ever in both tables: a name that could not be found again    *)
(* (findByUsernameLocked) is not given away, whoever sets up, registers    *)
(* and administers at the same time.                                       *)
THEOREM NamesUnique == AccountsSpec => []OneAccountPerName
<1>1. AccountsInv => OneAccountPerName
    BY DEF AccountsInv
<1>2. QED
    BY <1>1, AccountsInvAlways, PTL

(* Who set up first is the administrator for good (CreateFirstUser).       *)
THEOREM FirstSetupWins == AccountsSpec => PrimaryKept
<1>1. ASSUME [AccountsNext]_accountVars, primary # Nobody
      PROVE  primary' = primary
    BY <1>1 DEF AccountsNext, HandleSetup, HandleRegister, HandleLogin,
        CreateFirstUser, NoUserYet, NeedsSetup, RegisterUser, InsertRow,
        SetSessionCookie, HandleChangePassword, ValidSessionInfo,
        ChangePasswordFor, CheckRole, HandleUsers, CreateUser, DeleteUser,
        SetUserRole, SetUserStatus, AdminResetPassword, Refused, HandleLogout,
        Restart, rows, accountVars
<1>2. [AccountsNext]_accountVars =>
         [primary # Nobody => primary' = primary]_accountVars
    BY <1>1
<1>3. QED
    BY <1>2, PTL DEF AccountsSpec, PrimaryKept


(* What becomes of a secret: it is drawn anew, or goes with its account.   *)
LEMMA SecretsNext ==
    ASSUME AccountsInv, [AccountsNext]_accountVars
    PROVE  \A u \in Users : \/ secret'[u] = secret[u] \/ secret'[u] = 0
                            \/ secret'[u] = drawn + 1
<1>0. AccountsTypeOK /\ \A v \in Visitors : VisitorOK(v)
    BY DEF AccountsInv
<1>1. CASE secret' = secret
    BY <1>1
<1>2. CASE \E u \in Users : DrawSecret(u)
    BY <1>0, <1>2, DrawIs
<1>3. CASE \E v \in Visitors : DeleteUser(v)
    <2>1. PICK u : secret' = [secret EXCEPT ![u] = 0]
        BY <1>3 DEF DeleteUser
    <2>2. QED
        BY <1>0, <2>1 DEF AccountsTypeOK
<1>4. ASSUME NEW v \in Visitors,
             \/ CreateFirstUser(v) \/ RegisterUser(v) \/ ChangePasswordFor(v)
             \/ HandleUsers(v)
      PROVE  \/ secret' = secret \/ DeleteUser(v)
             \/ DrawSecret(visitor[v].user) /\ visitor[v].user \in Users
    <2>1. visitor[v].user \in Users
        BY <1>0, <1>4
        DEF VisitorOK, CreateFirstUser, RegisterUser, ChangePasswordFor,
            HandleUsers, CreateUser, DeleteUser, SetUserRole, SetUserStatus,
            AdminResetPassword, Refused, Asks
    <2>2. QED
        BY <1>4, <2>1
        DEF CreateFirstUser, RegisterUser, ChangePasswordFor, InsertRow, rows,
            HandleUsers, CreateUser, SetUserRole, SetUserStatus,
            AdminResetPassword, Refused
<1>5. CASE AccountsNext
    <2>1. ASSUME ~\E v \in Visitors :
                    \/ CreateFirstUser(v) \/ RegisterUser(v)
                    \/ ChangePasswordFor(v) \/ HandleUsers(v)
          PROVE  secret' = secret
        BY <1>5, <2>1 DEF AccountsNext, HandleSetup, HandleRegister,
            HandleLogin, SetSessionCookie, HandleChangePassword,
            ValidSessionInfo, CheckRole, HandleLogout, Restart, rows
    <2>2. QED
        BY <1>1, <1>2, <1>3, <1>4, <2>1
<1>6. QED
    BY <1>1, <1>5 DEF accountVars

(* A session whose account got a new password, or was deleted, never works *)
(* again: a secret is not drawn twice, and an account made again under the *)
(* name has another one (parseTokenInfo).                                  *)
THEOREM EndedSessions == AccountsSpec => EndedSessionsStayEnded
<1>1. ASSUME AccountsInv, [AccountsNext]_accountVars, NEW k \in cookies,
             ~ValidSession(k[1], k[2])
      PROVE  ~ValidSession(k[1], k[2])'
    <2>1. /\ k[1] \in Users /\ k[2] \in Nat /\ k[2] <= drawn /\ drawn \in Nat
        BY <1>1, AccountConstants DEF AccountsInv, AccountsTypeOK, SecretsDrawn
    <2>2. \/ secret'[k[1]] = secret[k[1]] \/ secret'[k[1]] = 0
          \/ secret'[k[1]] = drawn + 1
        BY <1>1, <2>1, SecretsNext
    <2>3. QED
        BY <1>1, <2>1, <2>2 DEF ValidSession
<1>2. AccountsInv /\ [AccountsNext]_accountVars =>
         [\A k \in cookies : ~ValidSession(k[1], k[2])
             => ~ValidSession(k[1], k[2])']_accountVars
    BY <1>1
<1>3. QED
    BY <1>2, AccountsInvAlways, PTL DEF AccountsSpec, EndedSessionsStayEnded
=============================================================================
