------------------------------- MODULE Accounts -------------------------------
(***************************************************************************)
(* The accounts of the API: registration, login, the two tokens of a       *)
(* session, logout, changes and erasures of an account, and the script that*)
(* makes the first superuser.                                              *)
(*                                                                         *)
(* Each request awaits its statements one by one, and each statement is    *)
(* committed by itself; an action is one statement with what follows it up *)
(* to the next await.  A token is a model value; what it says is the       *)
(* username it was made for.  Passwords and signatures are left out, and a *)
(* request that is refused without a statement changes nothing.            *)
(***************************************************************************)
EXTENDS Naturals, FiniteSets

CONSTANTS
    Clients,           \* browsers: each has one session and one request
    Names, Emails,     \* usernames and e-mail addresses
    Registrations,     \* pairs of a username and an address
    Patches,           \* pairs of a username, or None, and an address, or None
    Access, Refresh,   \* tokens of the two types
    ADMIN_USERNAME, ADMIN_EMAIL,
    MAX_USERS,         \* bound: rows that are ever made
    MAX_REQUESTS,      \* bound: requests
    MAX_FAULTS,        \* bound: statements that fail and tokens that expire
    None               \* Python's None

ASSUME AdminAssumption == ADMIN_USERNAME \in Names /\ ADMIN_EMAIL \in Emails
ASSUME BoundsAssumption == 
    MAX_USERS \in Nat /\ MAX_REQUESTS \in Nat /\ MAX_FAULTS \in Nat
ASSUME NoneAssumption ==
    /\ None \notin Names \cup Emails \cup Access \cup Refresh
    /\ Names \cap {"unissued", "expired"} = {}
    /\ Access \cap Refresh = {}
ASSUME RequestsAssumption ==
    /\ Registrations \subseteq Names \X Emails
    /\ Patches \subseteq (Names \cup {None}) \X (Emails \cup {None})

Tokens == Access \cup Refresh

VARIABLES
    users,             \* the rows of the table "user"
    created,           \* rows made so far: the next id
    subject,           \* the username in a token
    recent,            \* tokens made in this second
    blacklist,         \* the tokens of the table "token_blacklist"
    at,                \* the statement a request is about to send
    op,                \* what a request does
    current_user,      \* its user, by name
    username, email,   \* what it asks for
    read_email,        \* the e-mail address patch_user has read
    access, refresh,   \* the tokens a client holds
    script,            \* where create_first_user is
    account,           \* history: the row a client has logged into
    moved,             \* history: rows that were renamed or deleted for good
    foreign,           \* history: accounts for which another's row was changed
    shared,            \* history: tokens that were issued twice
    asked,             \* history: those of its tokens a client asked to blacklist
    closed,            \* history: tokens of logouts that were answered with success
    requests, faults

tableVars == <<users, created, moved, foreign>>
idleVars == <<at, op, current_user, username, email, read_email>>
requestVars == <<requests, idleVars>>
tokenVars == <<subject, recent, shared>>
sessionVars == <<access, refresh, account, asked>>
blacklistVars == <<blacklist, closed>>
vars == <<tableVars, requestVars, tokenVars, sessionVars, blacklistVars, script,
          faults>>

Row == [id : 1..MAX_USERS, username : Names, email : Emails,
        is_deleted : {"no", "yes"}, is_superuser : {"no", "yes"}]
Ops == {"none", "write_user", "patch_user", "erase_user", "erase_db_user", "logout"}
Labels == {"idle", "user", "find", "email", "username", "write", "delete",
           "blacklist"}

AccountsTypeOK ==
    /\ users \subseteq Row
    /\ created \in 0..MAX_USERS
    /\ subject \in [Tokens -> Names \cup {"unissued", "expired"}]
    /\ recent \subseteq Tokens /\ shared \subseteq Tokens
    /\ blacklist \subseteq Tokens /\ closed \subseteq Tokens
    /\ at \in [Clients -> Labels]
    /\ op \in [Clients -> Ops]
    /\ current_user \in [Clients -> Names \cup {None}]
    /\ username \in [Clients -> Names \cup {None}]
    /\ email \in [Clients -> Emails \cup {None}]
    /\ read_email \in [Clients -> Emails \cup {None}]
    /\ access \in [Clients -> Access \cup {None}]
    /\ refresh \in [Clients -> Refresh \cup {None}]
    /\ account \in [Clients -> 0..MAX_USERS]
    /\ moved \subseteq 1..MAX_USERS /\ foreign \subseteq 0..MAX_USERS
    /\ asked \in [Clients -> SUBSET Tokens]
    /\ script \in {"select", "insert", "done"}
    /\ requests \in 0..MAX_REQUESTS
    /\ faults \in 0..MAX_FAULTS

Init ==
    /\ users = {} /\ created = 0
    /\ subject = [t \in Tokens |-> "unissued"]
    /\ recent = {} /\ shared = {}
    /\ blacklist = {} /\ closed = {}
    /\ asked = [c \in Clients |-> {}]
    /\ at = [c \in Clients |-> "idle"]
    /\ op = [c \in Clients |-> "none"]
    /\ current_user = [c \in Clients |-> None]
    /\ username = [c \in Clients |-> None]
    /\ email = [c \in Clients |-> None]
    /\ read_email = [c \in Clients |-> None]
    /\ access = [c \in Clients |-> None]
    /\ refresh = [c \in Clients |-> None]
    /\ account = [c \in Clients |-> 0]
    /\ moved = {} /\ foreign = {}
    /\ script = "select"
    /\ requests = 0
    /\ faults = 0

Fault == faults < MAX_FAULTS /\ faults' = faults + 1

-----------------------------------------------------------------------------
(* Requests and rows. *)

One == requests < MAX_REQUESTS /\ requests' = requests + 1

Goto(c, label) ==
    /\ at' = [at EXCEPT ![c] = label]
    /\ UNCHANGED <<requests, op, current_user, username, email, read_email>>
Begin(c, o, label, user, name, mail) ==
    /\ at[c] = "idle"
    /\ at' = [at EXCEPT ![c] = label]
    /\ op' = [op EXCEPT ![c] = o]
    /\ current_user' = [current_user EXCEPT ![c] = user]
    /\ username' = [username EXCEPT ![c] = name]
    /\ email' = [email EXCEPT ![c] = mail]
    /\ One
    /\ UNCHANGED read_email
(* The request is answered, with success or not.                           *)
Return(c) ==
    /\ at' = [at EXCEPT ![c] = "idle"]
    /\ op' = [op EXCEPT ![c] = "none"]
    /\ current_user' = [current_user EXCEPT ![c] = None]
    /\ username' = [username EXCEPT ![c] = None]
    /\ email' = [email EXCEPT ![c] = None]
    /\ read_email' = [read_email EXCEPT ![c] = None]
    /\ UNCHANGED requests

Rows(name) == {r \in users : r.username = name}
Live(name) == {r \in Rows(name) : r.is_deleted = "no"}

(* exists looks at every row, the erased ones too; NULL equals nothing.    *)
UsernameTaken(name) == Rows(name) # {}
EmailTaken(mail) == \E r \in users : r.email = mail

(* The unique columns of the table.                                        *)
Unique(rows) ==
    \A r, q \in rows : r.id # q.id => r.username # q.username /\ r.email # q.email

Insert(name, mail, superuser) ==
    /\ created < MAX_USERS
    /\ created' = created + 1
    /\ users' = users \cup {[id |-> created + 1, username |-> name, email |-> mail,
                             is_deleted |-> "no", is_superuser |-> superuser]}
    /\ UNCHANGED <<moved, foreign>>

-----------------------------------------------------------------------------
(* write_user and patch_user. *)

Register(c) ==
    /\ \E r \in Registrations : Begin(c, "write_user", "email", None, r[1], r[2])
    /\ UNCHANGED <<tableVars, tokenVars, sessionVars, blacklistVars, script, faults>>

(* An e-mail address that is not given, or not changed, is not looked up.  *)
CheckEmail(c) ==
    /\ at[c] = "email"
    /\ IF email[c] # read_email[c] /\ EmailTaken(email[c])
       THEN Return(c)
       ELSE Goto(c, IF op[c] = "write_user" THEN "username" ELSE "write")
    /\ UNCHANGED <<tableVars, tokenVars, sessionVars, blacklistVars, script, faults>>

CheckUsername(c) ==
    /\ at[c] = "username"
    /\ IF username[c] # current_user[c] /\ UsernameTaken(username[c])
       THEN Return(c)
       ELSE Goto(c, IF op[c] = "write_user" THEN "write" ELSE "email")
    /\ UNCHANGED <<tableVars, tokenVars, sessionVars, blacklistVars, script, faults>>

(* Mutant of CreateUser: the columns are not unique.                       *)
CreateUserAnyway(c) ==
    /\ at[c] = "write" /\ op[c] = "write_user"
    /\ Return(c)
    /\ Insert(username[c], email[c], "no")
    /\ UNCHANGED <<tokenVars, sessionVars, blacklistVars, script, faults>>

CreateUser(c) ==
    /\ at[c] = "write" /\ op[c] = "write_user"
    /\ Return(c)
    /\ IF UsernameTaken(username[c]) \/ EmailTaken(email[c])
       THEN UNCHANGED tableVars
       ELSE Insert(username[c], email[c], "no")
    /\ UNCHANGED <<tokenVars, sessionVars, blacklistVars, script, faults>>

(* get_current_user: verify_token, then the row.                           *)
Valid(t) == t # None /\ t \notin blacklist /\ subject[t] \in Names

(* Mutant of OwnPath: the ForbiddenException is missing.                   *)
AnyPath(user, name) == TRUE

(* patch_user and erase_user refuse another username in the path than the  *)
(* user's own; erase_db_user lets a superuser name anybody.                *)
OwnPath(user, name) == name = user

Authenticate(c) ==
    /\ Valid(access[c])
    /\ \E user \in {subject[access[c]]}, name \in Names :
          \/ /\ OwnPath(user, name)
             /\ \/ \E p \in Patches : Begin(c, "patch_user", "user", name, p[1], p[2])
                \/ Begin(c, "erase_user", "user", user, name, None)
          \/ Begin(c, "erase_db_user", "user", user, name, None)
    /\ UNCHANGED <<tableVars, tokenVars, sessionVars, blacklistVars, script, faults>>

CurrentUser(c) ==
    /\ at[c] = "user"
    /\ IF \E r \in Live(current_user[c]) :
             op[c] = "erase_db_user" => r.is_superuser = "yes"
       THEN Goto(c, "find") ELSE Return(c)
    /\ UNCHANGED <<tableVars, tokenVars, sessionVars, blacklistVars, script, faults>>

(* The row the request is about, whether it is erased or not.              *)
FindUser(c) ==
    /\ at[c] = "find"
    /\ LET name == IF op[c] = "patch_user" THEN current_user[c] ELSE username[c]
       IN  \/ Rows(name) = {} /\ Return(c)
           \/ op[c] # "patch_user" /\ Rows(name) # {} /\ Goto(c, "delete")
           \/ /\ op[c] = "patch_user"
              /\ \E r \in Rows(name) : read_email' = [read_email EXCEPT ![c] = r.email]
              /\ at' = [at EXCEPT ![c] = "username"]
              /\ UNCHANGED <<requests, op, current_user, username, email>>
    /\ UNCHANGED <<tableVars, tokenVars, sessionVars, blacklistVars, script, faults>>

(* Whether a statement of c changes another row than that of the account c *)
(* has logged into.                                                        *)
Changing(c, rows) ==
    foreign' = IF \E r \in rows : r.id # account[c]
               THEN foreign \cup {account[c]} ELSE foreign

(* Mutant of Patched: the fields that were not given are written too.      *)
PatchedUnset(c, r) == [r EXCEPT !.username = username[c], !.email = email[c]]

Patched(c, r) ==
    [r EXCEPT !.username = IF username[c] = None THEN r.username ELSE username[c],
              !.email = IF email[c] = None THEN r.email ELSE email[c]]

(* The row is found again by its username.  None, or a value that is taken *)
(* by now, is an exception.                                                *)
UpdateUser(c) ==
    LET rows == Rows(current_user[c])
        after == (users \ rows) \cup {Patched(c, r) : r \in rows}
    IN  /\ at[c] = "write" /\ op[c] = "patch_user"
        /\ Return(c)
        /\ IF Unique(after)
           THEN /\ users' = after
                /\ moved' = moved \cup {r.id : r \in
                               {q \in rows : Patched(c, q).username # q.username}}
                /\ Changing(c, rows)
           ELSE UNCHANGED <<users, moved, foreign>>
        /\ UNCHANGED <<created, tokenVars, sessionVars, blacklistVars, script,
                       faults>>

-----------------------------------------------------------------------------
(* erase_user and erase_db_user. *)

EraseUser(c) ==
    /\ at[c] = "delete" /\ op[c] = "erase_user"
    /\ LET rows == Rows(username[c])
       IN  /\ users' = (users \ rows) \cup {[r EXCEPT !.is_deleted = "yes"] : r \in rows}
           /\ Changing(c, rows)
           /\ IF rows = {} THEN Return(c) ELSE Goto(c, "blacklist")
    /\ UNCHANGED <<created, moved, tokenVars, sessionVars, blacklistVars, script,
                   faults>>

EraseDbUser(c) ==
    /\ at[c] = "delete" /\ op[c] = "erase_db_user"
    /\ users' = users \ Rows(username[c])
    /\ moved' = moved \cup {r.id : r \in Rows(username[c])}
    /\ Goto(c, "blacklist")
    /\ UNCHANGED <<created, foreign, tokenVars, sessionVars, blacklistVars, script,
                   faults>>

Ask(c, t) == asked' = [asked EXCEPT ![c] = asked[c] \cup {t}]

(* A token that has expired, or is in the table already, is an exception.  *)
BlacklistToken(c) ==
    /\ at[c] = "blacklist" /\ op[c] # "logout"
    /\ Return(c)
    /\ Ask(c, access[c])
    /\ blacklist' = IF subject[access[c]] = "expired" THEN blacklist
                    ELSE blacklist \cup {access[c]}
    /\ UNCHANGED <<access, refresh, account, closed, tableVars, tokenVars, script,
                   faults>>

-----------------------------------------------------------------------------
(* login_for_access_token, refresh_access_token and logout. *)

(* Mutant of Issue: a token is made of the name alone.                     *)
IssueAgain(t, name) == subject[t] \in {"unissued", name}

(* The life of a token is counted in whole seconds: two tokens for the same*)
(* user in one second are the same.                                        *)
Issue(t, name) ==
    subject[t] = "unissued" \/ (t \in recent /\ subject[t] = name)

Issued(ts, name) ==
    /\ subject' = [t \in Tokens |-> IF t \in ts THEN name ELSE subject[t]]
    /\ shared' = shared \cup (ts \cap recent)
    /\ recent' = recent \cup ts

(* authenticate_user finds a live row, by its username or its e-mail.      *)
Login(c) ==
    /\ at[c] = "idle"
    /\ One
    /\ \E r \in users, a \in Access, f \in Refresh :
          /\ r.is_deleted = "no"
          /\ Issue(a, r.username) /\ Issue(f, r.username)
          /\ Issued({a, f}, r.username)
          /\ access' = [access EXCEPT ![c] = a]
          /\ refresh' = [refresh EXCEPT ![c] = f]
          /\ account' = [account EXCEPT ![c] = r.id]
    /\ asked' = [asked EXCEPT ![c] = {}]
    /\ UNCHANGED <<tableVars, idleVars, blacklistVars, script, faults>>

RefreshAccess(c) ==
    /\ at[c] = "idle" /\ Valid(refresh[c])
    /\ One
    /\ \E a \in Access :
          /\ Issue(a, subject[refresh[c]])
          /\ Issued({a}, subject[refresh[c]])
          /\ access' = [access EXCEPT ![c] = a]
    /\ asked' = [asked EXCEPT ![c] = asked[c] \cap Refresh]
    /\ UNCHANGED <<refresh, account, tableVars, idleVars, blacklistVars, script,
                   faults>>

Decodes(t) == t # None /\ subject[t] # "expired"

(* blacklist_tokens: the access token, then the refresh token.  The first  *)
(* insert that fails is the last; logout does not look whether the session *)
(* is still valid.                                                         *)
LogoutAccess(c) ==
    /\ Decodes(access[c]) /\ refresh[c] # None
    /\ access[c] \notin blacklist
    /\ Begin(c, "logout", "blacklist", None, None, None)
    /\ blacklist' = blacklist \cup {access[c]}
    /\ Ask(c, access[c])
    /\ UNCHANGED <<access, refresh, account, closed, tableVars, tokenVars, script,
                   faults>>

(* Mutant of LogoutRefresh: what goes wrong is passed over.                *)
LogoutRefreshLenient(c) ==
    /\ at[c] = "blacklist" /\ op[c] = "logout"
    /\ Return(c)
    /\ Ask(c, refresh[c])
    /\ \/ blacklist' = blacklist \cup {refresh[c]} /\ UNCHANGED faults
       \/ Fault /\ UNCHANGED blacklist
    /\ closed' = closed \cup {access[c], refresh[c]}
    /\ refresh' = [refresh EXCEPT ![c] = None]
    /\ UNCHANGED <<access, account, tableVars, tokenVars, script>>

LogoutRefresh(c) ==
    /\ at[c] = "blacklist" /\ op[c] = "logout"
    /\ Return(c)
    /\ Ask(c, refresh[c])
    /\ IF Decodes(refresh[c]) /\ refresh[c] \notin blacklist
       THEN /\ blacklist' = blacklist \cup {refresh[c]}
            /\ closed' = closed \cup {access[c], refresh[c]}
            /\ refresh' = [refresh EXCEPT ![c] = None]
       ELSE UNCHANGED <<blacklist, closed, refresh>>
    /\ UNCHANGED <<access, account, tableVars, tokenVars, script, faults>>

-----------------------------------------------------------------------------
(* The script, and what nobody asks for. *)

ScriptSelect ==
    /\ script = "select"
    /\ script' = IF EmailTaken(ADMIN_EMAIL) THEN "done" ELSE "insert"
    /\ UNCHANGED <<tableVars, requestVars, tokenVars, sessionVars, blacklistVars,
                   faults>>

(* An exception is logged.                                                 *)
ScriptInsert ==
    /\ script = "insert"
    /\ script' = "done"
    /\ IF UsernameTaken(ADMIN_USERNAME) \/ EmailTaken(ADMIN_EMAIL)
       THEN UNCHANGED tableVars
       ELSE Insert(ADMIN_USERNAME, ADMIN_EMAIL, "yes")
    /\ UNCHANGED <<requestVars, tokenVars, sessionVars, blacklistVars, faults>>

(* A statement raises: the request ends there.                             *)
StatementFails(c) ==
    /\ at[c] # "idle"
    /\ Fault
    /\ Return(c)
    /\ UNCHANGED <<tableVars, tokenVars, sessionVars, blacklistVars, script>>

Tick ==
    /\ recent # {}
    /\ recent' = {}
    /\ UNCHANGED <<subject, shared, tableVars, requestVars, sessionVars,
                   blacklistVars, script, faults>>

Expire(t) ==
    /\ subject[t] \in Names /\ t \notin recent
    /\ Fault
    /\ subject' = [subject EXCEPT ![t] = "expired"]
    /\ UNCHANGED <<recent, shared, tableVars, requestVars, sessionVars,
                   blacklistVars, script>>

Request(c) ==
    \/ Register(c) \/ CheckEmail(c) \/ CheckUsername(c) \/ CreateUser(c)
    \/ Authenticate(c) \/ CurrentUser(c) \/ FindUser(c) \/ UpdateUser(c)
    \/ EraseUser(c) \/ EraseDbUser(c) \/ BlacklistToken(c)
    \/ Login(c) \/ RefreshAccess(c) \/ LogoutAccess(c) \/ LogoutRefresh(c)
    \/ StatementFails(c)

Next ==
    \/ \E c \in Clients : Request(c)
    \/ ScriptSelect \/ ScriptInsert
    \/ Tick
    \/ \E t \in Tokens : Expire(t)

Spec == Init /\ [][Next]_vars

-----------------------------------------------------------------------------
(* No two rows share a username or an e-mail address, although write_user, *)
(* patch_user and the script look first and write later.                   *)
UniqueAccounts == Unique(users)

(* A request changes no account but the one its client logged into, unless *)
(* that one was renamed or deleted for good: both patch_user and erase_user*)
(* find the row again by a username they read before.  A superuser is meant*)
(* to delete the account of another: erase_db_user does not count.         *)
ActsForItsAccount == foreign \subseteq moved

(* A logout that was answered with success has ended its session: neither  *)
(* token is accepted ever again (blacklist_tokens, verify_token).          *)
LogoutFinal == \A t \in closed : ~Valid(t)

(* A session ends by what its own client asks for: another one can end it  *)
(* only if both were given the same token within a second                  *)
(* (create_access_token, create_refresh_token).                            *)
SessionsApart ==
    \A c \in Clients : \A t \in {access[c], refresh[c]} \cap blacklist :
        t \in asked[c] \/ t \in shared
=============================================================================
