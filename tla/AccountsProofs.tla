---------------------------- MODULE AccountsProofs ----------------------------
(***************************************************************************)
(* Proofs about the accounts: rows stay unique, a request changes only the *)
(* account of its session, a logout is final, and sessions do not end each *)
(* other.  The invariant has four parts: the requests under way, the rows, *)
(* whose row a session speaks for, and the tokens.                         *)
(***************************************************************************)
EXTENDS Accounts, TLAPS

(* The tokens a client holds.                                              *)
Held(c) == {access[c], refresh[c]} \ {None}

(* The row a client has logged into still has that name.                   *)
OwnRow(c, name) ==
    \/ account[c] \in moved
    \/ \E r \in users : r.id = account[c] /\ r.username = name

(* Where a request of each kind can be.                                    *)
Stage(o, label) ==
    \/ o = "none" /\ label = "idle"
    \/ o = "write_user" /\ label \in {"email", "username", "write"}
    \/ o = "patch_user" /\ label \in {"user", "find", "username", "email", "write"}
    \/ o = "logout" /\ label = "blacklist"
    \/ /\ o \in {"erase_user", "erase_db_user"}
       /\ label \in {"user", "find", "delete", "blacklist"}

(* What a request of c carries from its start.                             *)
Carries(c) ==
    /\ Stage(op[c], at[c])
    /\ op[c] = "write_user" => username[c] \in Names /\ email[c] \in Emails
    /\ op[c] \notin {"none", "write_user"} => access[c] \in Access
    /\ op[c] = "erase_user" => username[c] = current_user[c]
    /\ op[c] = "logout" => access[c] \in blacklist /\ refresh[c] \in Refresh

RequestsCarry == \A c \in Clients : Carries(c)

TypeInv == AccountsTypeOK /\ RequestsCarry

(* The types, by the tuples of variables the actions leave alone together. *)
TableTypes ==
    /\ users \subseteq Row
    /\ created \in 0..MAX_USERS
    /\ moved \subseteq 1..MAX_USERS /\ foreign \subseteq 0..MAX_USERS
RequestTypes ==
    /\ at \in [Clients -> Labels]
    /\ op \in [Clients -> Ops]
    /\ current_user \in [Clients -> Names \cup {None}]
    /\ username \in [Clients -> Names \cup {None}]
    /\ email \in [Clients -> Emails \cup {None}]
    /\ read_email \in [Clients -> Emails \cup {None}]
    /\ requests \in 0..MAX_REQUESTS
TokenTypes ==
    /\ subject \in [Tokens -> Names \cup {"unissued", "expired"}]
    /\ recent \subseteq Tokens /\ shared \subseteq Tokens
SessionTypes ==
    /\ access \in [Clients -> Access \cup {None}]
    /\ refresh \in [Clients -> Refresh \cup {None}]
    /\ account \in [Clients -> 0..MAX_USERS]
    /\ asked \in [Clients -> SUBSET Tokens]
BlacklistTypes == blacklist \subseteq Tokens /\ closed \subseteq Tokens
OtherTypes == script \in {"select", "insert", "done"} /\ faults \in 0..MAX_FAULTS

LEMMA TypesByPart ==
    AccountsTypeOK <=> /\ TableTypes /\ RequestTypes /\ TokenTypes
                       /\ SessionTypes /\ BlacklistTypes /\ OtherTypes
BY DEF AccountsTypeOK, TableTypes, RequestTypes, TokenTypes, SessionTypes,
       BlacklistTypes, OtherTypes

(* A step for c leaves the others what they hold and forgets no token of   *)
(* the blacklist.                                                          *)
OnlyFor(c) ==
    /\ \A d \in Clients \ {c} : access'[d] = access[d] /\ refresh'[d] = refresh[d]
    /\ blacklist \subseteq blacklist'

(* An answer leaves the client idle.                                       *)
LEMMA ReturnKeeps ==
    ASSUME TypeInv, NEW c \in Clients, Return(c), OnlyFor(c)
    PROVE  RequestTypes' /\ RequestsCarry'
<1>1. RequestTypes'
  BY DEF TypeInv, AccountsTypeOK, RequestTypes, Return, Labels, Ops
<1>2. ASSUME NEW d \in Clients
      PROVE  Carries(d)'
  <2>1. CASE d = c
    BY <2>1 DEF TypeInv, AccountsTypeOK, Return, Carries, Stage
  <2>2. CASE d # c
    BY <1>2, <2>2 DEF TypeInv, AccountsTypeOK, RequestsCarry, Return, Carries, OnlyFor,
                      Stage
  <2>3. QED  BY <2>1, <2>2
<1>3. QED  BY <1>1, <1>2 DEF RequestsCarry

(* A request goes on to a statement of its kind.                           *)
LEMMA GotoKeeps ==
    ASSUME TypeInv, NEW c \in Clients, NEW label \in Labels, Goto(c, label),
           Stage(op[c], label), OnlyFor(c), access' = access, refresh' = refresh
    PROVE  RequestTypes' /\ RequestsCarry'
<1>1. RequestTypes'
  BY DEF TypeInv, AccountsTypeOK, RequestTypes, Goto
<1>2. ASSUME NEW d \in Clients
      PROVE  Carries(d)'
  <2>1. Carries(d) /\ op' = op /\ username' = username /\ email' = email
                   /\ current_user' = current_user
    BY <1>2 DEF TypeInv, RequestsCarry, Goto
  <2>2. Stage(op[d], at'[d])
    BY <2>1 DEF TypeInv, AccountsTypeOK, Goto, Carries
  <2>3. QED  BY <2>1, <2>2 DEF Carries, OnlyFor, Stage
<1>3. QED  BY <1>1, <1>2 DEF RequestsCarry

(* What a request of each kind starts with.                                *)
Starts(c, o, label, user, name, mail) ==
    /\ Stage(o, label) /\ label \in Labels /\ o \in Ops
    /\ user \in Names \cup {None} /\ name \in Names \cup {None}
    /\ mail \in Emails \cup {None}
    /\ o = "write_user" => name \in Names /\ mail \in Emails
    /\ o \notin {"none", "write_user"} => access'[c] \in Access
    /\ o = "erase_user" => name = user
    /\ o = "logout" => access'[c] \in blacklist' /\ refresh'[c] \in Refresh

LEMMA BeginKeeps ==
    ASSUME TypeInv, NEW c \in Clients, NEW o, NEW label, NEW user, NEW name, NEW mail,
           Begin(c, o, label, user, name, mail),
           Starts(c, o, label, user, name, mail),
           OnlyFor(c)
    PROVE  RequestTypes' /\ RequestsCarry'
<1> USE DEF Starts
<1>1. RequestTypes'
  BY BoundsAssumption DEF TypeInv, AccountsTypeOK, RequestTypes, Begin, One
<1>2. ASSUME NEW d \in Clients
      PROVE  Carries(d)'
  <2>1. CASE d = c
    BY <2>1 DEF TypeInv, AccountsTypeOK, Begin, Carries, Stage
  <2>2. CASE d # c
    BY <1>2, <2>2 DEF TypeInv, AccountsTypeOK, RequestsCarry, Begin, Carries, OnlyFor,
                      Stage
  <2>3. QED  BY <2>1, <2>2
<1>3. QED  BY <1>1, <1>2 DEF RequestsCarry


(* An idle client may change the tokens it holds.                          *)
LEMMA IdleKeeps ==
    ASSUME TypeInv, NEW c \in Clients, at[c] = "idle", One, UNCHANGED idleVars,
           OnlyFor(c)
    PROVE  RequestTypes' /\ RequestsCarry'
<1>1. RequestTypes'
  BY BoundsAssumption DEF TypeInv, AccountsTypeOK, RequestTypes, One, idleVars
<1>2. ASSUME NEW d \in Clients
      PROVE  Carries(d)'
  <2>1. Carries(d) /\ Carries(c)
    BY <1>2 DEF TypeInv, RequestsCarry
  <2>2. CASE d = c
    BY <2>1, <2>2 DEF Carries, Stage, idleVars
  <2>3. CASE d # c
    BY <1>2, <2>1, <2>3 DEF Carries, OnlyFor, idleVars
  <2>4. QED  BY <2>2, <2>3
<1>3. QED  BY <1>1, <1>2 DEF RequestsCarry

(* Only the request changes: the other parts of the types stay.            *)
LEMMA OnlyRequest ==
    ASSUME TypeInv, RequestTypes', RequestsCarry',
           UNCHANGED <<tableVars, tokenVars, sessionVars, blacklistVars, script>>,
           faults' \in 0..MAX_FAULTS
    PROVE  TypeInv'
BY DEF TypeInv, AccountsTypeOK, RequestTypes, tableVars, tokenVars, sessionVars,
       blacklistVars

LEMMA InsertTypes ==
    ASSUME TypeInv, NEW name \in Names, NEW mail \in Emails, NEW su \in {"no", "yes"},
           Insert(name, mail, su)
    PROVE  TableTypes'
BY BoundsAssumption DEF TypeInv, AccountsTypeOK, TableTypes, Insert, Row

(* AccountsTypeOK holds at the start, with nobody asking for anything.     *)
LEMMA TypeInit == Init => TypeInv
BY BoundsAssumption
   DEF Init, TypeInv, AccountsTypeOK, RequestsCarry, Carries, Stage, Labels, Ops

(* What a request does keeps AccountsTypeOK.                               *)
LEMMA TypeRequest ==
    ASSUME TypeInv, NEW c \in Clients, Request(c)
    PROVE  TypeInv'
<1> USE DEF tableVars, idleVars, requestVars, tokenVars, sessionVars, blacklistVars
<1>s. /\ TableTypes /\ RequestTypes /\ TokenTypes
      /\ SessionTypes /\ BlacklistTypes /\ OtherTypes
      /\ Carries(c)
  BY TypesByPart DEF TypeInv, RequestsCarry
<1>t. ASSUME RequestTypes', RequestsCarry', TableTypes', TokenTypes', SessionTypes',
             BlacklistTypes', OtherTypes'
      PROVE  TypeInv'
  BY <1>t DEF TypeInv, AccountsTypeOK, TableTypes, RequestTypes, TokenTypes,
              SessionTypes, BlacklistTypes, OtherTypes
<1>1. CASE Register(c)
  <2>1. PICK r \in Registrations : Begin(c, "write_user", "email", None, r[1], r[2])
    BY <1>1 DEF Register
  <2>2. r[1] \in Names /\ r[2] \in Emails
    BY RequestsAssumption
  <2>3. OnlyFor(c)
    BY <1>1 DEF Register, OnlyFor
  <2>4. Starts(c, "write_user", "email", None, r[1], r[2])
    BY <2>2 DEF Ops, Labels, Stage, Starts
  <2>5. RequestTypes' /\ RequestsCarry'
    BY <2>1, <2>3, <2>4, BeginKeeps
  <2>6. QED  BY <1>1, <1>s, <2>5, OnlyRequest DEF Register, OtherTypes
<1>2. CASE CheckEmail(c)
  <2>1. OnlyFor(c)
    BY <1>2 DEF CheckEmail, OnlyFor
  <2>2. CASE Return(c)
    BY <1>2, <1>s, <2>1, <2>2, ReturnKeeps, OnlyRequest DEF CheckEmail, OtherTypes
  <2>3. CASE Goto(c, IF op[c] = "write_user" THEN "username" ELSE "write")
    <3>1. op[c] \in {"write_user", "patch_user"}
      BY <1>2, <1>s DEF CheckEmail, Carries, Stage, RequestTypes, Ops
    <3>2. RequestTypes' /\ RequestsCarry'
      BY <1>2, <2>1, <2>3, <3>1, GotoKeeps DEF CheckEmail, Stage, Labels
    <3>3. QED  BY <1>2, <1>s, <3>2, OnlyRequest DEF CheckEmail, OtherTypes
  <2>4. QED  BY <1>2, <2>2, <2>3 DEF CheckEmail
<1>3. CASE CheckUsername(c)
  <2>1. OnlyFor(c)
    BY <1>3 DEF CheckUsername, OnlyFor
  <2>2. CASE Return(c)
    BY <1>3, <1>s, <2>1, <2>2, ReturnKeeps, OnlyRequest DEF CheckUsername, OtherTypes
  <2>3. CASE Goto(c, IF op[c] = "write_user" THEN "write" ELSE "email")
    <3>1. op[c] \in {"write_user", "patch_user"}
      BY <1>3, <1>s DEF CheckUsername, Carries, Stage, RequestTypes, Ops
    <3>2. RequestTypes' /\ RequestsCarry'
      BY <1>3, <2>1, <2>3, <3>1, GotoKeeps DEF CheckUsername, Stage, Labels
    <3>3. QED  BY <1>3, <1>s, <3>2, OnlyRequest DEF CheckUsername, OtherTypes
  <2>4. QED  BY <1>3, <2>2, <2>3 DEF CheckUsername
<1>4. CASE CreateUser(c)
  <2>1. OnlyFor(c) /\ Return(c)
    BY <1>4 DEF CreateUser, OnlyFor
  <2>2. RequestTypes' /\ RequestsCarry'
    BY <2>1, ReturnKeeps
  <2>3. TableTypes'
    BY <1>4, <1>s, InsertTypes DEF CreateUser, Carries, TableTypes
  <2>4. QED
    BY <1>4, <1>s, <1>t, <2>2, <2>3
       DEF CreateUser, TokenTypes, SessionTypes, BlacklistTypes, OtherTypes
<1>5. CASE Authenticate(c)
  <2>1. PICK name \in Names :
          LET user == subject[access[c]]
          IN  \/ /\ OwnPath(user, name)
                 /\ \/ \E p \in Patches : Begin(c, "patch_user", "user", name, p[1], p[2])
                    \/ Begin(c, "erase_user", "user", user, name, None)
              \/ Begin(c, "erase_db_user", "user", user, name, None)
    BY <1>5 DEF Authenticate
  <2>2. access[c] \in Access /\ subject[access[c]] \in Names
    BY <1>5, <1>s DEF Authenticate, Valid, SessionTypes
  <2>3. access' = access /\ refresh' = refresh /\ OnlyFor(c)
    BY <1>5 DEF Authenticate, OnlyFor
  <2>4. RequestTypes' /\ RequestsCarry'
    <3>1. ASSUME NEW p \in Patches, Begin(c, "patch_user", "user", name, p[1], p[2])
          PROVE  RequestTypes' /\ RequestsCarry'
      <4>1. p[1] \in Names \cup {None} /\ p[2] \in Emails \cup {None}
        BY RequestsAssumption
      <4>2. Starts(c, "patch_user", "user", name, p[1], p[2])
        BY <2>2, <2>3, <4>1 DEF Ops, Labels, Stage, Starts
      <4>3. QED  BY <2>3, <3>1, <4>2, BeginKeeps
    <3>2. CASE /\ OwnPath(subject[access[c]], name)
               /\ Begin(c, "erase_user", "user", subject[access[c]], name, None)
      <4>1. Starts(c, "erase_user", "user", subject[access[c]], name, None)
        BY <2>2, <2>3, <3>2 DEF Ops, Labels, Stage, Starts, OwnPath
      <4>2. QED  BY <2>3, <3>2, <4>1, BeginKeeps
    <3>3. CASE Begin(c, "erase_db_user", "user", subject[access[c]], name, None)
      <4>1. Starts(c, "erase_db_user", "user", subject[access[c]], name, None)
        BY <2>2, <2>3 DEF Ops, Labels, Stage, Starts
      <4>2. QED  BY <2>3, <3>3, <4>1, BeginKeeps
    <3>4. QED  BY <2>1, <3>1, <3>2, <3>3
  <2>5. QED  BY <1>5, <1>s, <2>4, OnlyRequest DEF Authenticate, OtherTypes
<1>6. CASE CurrentUser(c)
  <2>1. OnlyFor(c)
    BY <1>6 DEF CurrentUser, OnlyFor
  <2>2. CASE Return(c)
    BY <1>6, <1>s, <2>1, <2>2, ReturnKeeps, OnlyRequest DEF CurrentUser, OtherTypes
  <2>3. CASE Goto(c, "find")
    <3>1. Stage(op[c], "find")
      BY <1>6, <1>s DEF CurrentUser, Carries, Stage, RequestTypes, Ops
    <3>2. RequestTypes' /\ RequestsCarry'
      BY <1>6, <2>1, <2>3, <3>1, GotoKeeps DEF CurrentUser, Labels
    <3>3. QED  BY <1>6, <1>s, <3>2, OnlyRequest DEF CurrentUser, OtherTypes
  <2>4. QED  BY <1>6, <2>2, <2>3 DEF CurrentUser
<1>7. CASE FindUser(c)
  <2>1. OnlyFor(c)
    BY <1>7 DEF FindUser, OnlyFor
  <2>2. RequestTypes' /\ RequestsCarry'
    <3>1. CASE Return(c)
      BY <2>1, <3>1, ReturnKeeps
    <3>2. CASE op[c] # "patch_user" /\ Goto(c, "delete")
      <4>1. Stage(op[c], "delete")
        BY <1>7, <1>s, <3>2 DEF FindUser, Carries, Stage
      <4>2. QED  BY <1>7, <2>1, <3>2, <4>1, GotoKeeps DEF FindUser, Labels
    <3>3. CASE /\ op[c] = "patch_user"
               /\ \E r \in Rows(current_user[c]) :
                      read_email' = [read_email EXCEPT ![c] = r.email]
               /\ at' = [at EXCEPT ![c] = "username"]
               /\ UNCHANGED <<requests, op, current_user, username, email>>
      <4>1. RequestTypes'
        BY <1>s, <3>3 DEF RequestTypes, TableTypes, Row, Rows, Labels
      <4>2. ASSUME NEW d \in Clients
            PROVE  Carries(d)'
        <5>1. Carries(d) /\ Stage(op[d], at'[d])
          BY <1>s, <3>3, <4>2
             DEF TypeInv, RequestsCarry, RequestTypes, Carries, Stage
        <5>2. QED  BY <1>7, <3>3, <5>1 DEF FindUser, Carries
      <4>3. QED  BY <4>1, <4>2 DEF RequestsCarry
    <3>4. QED  BY <1>7, <3>1, <3>2, <3>3 DEF FindUser
  <2>3. QED  BY <1>7, <1>s, <2>2, OnlyRequest DEF FindUser, OtherTypes
<1>8. CASE UpdateUser(c)
  <2>1. OnlyFor(c) /\ Return(c)
    BY <1>8 DEF UpdateUser, OnlyFor
  <2>2. RequestTypes' /\ RequestsCarry'
    BY <2>1, ReturnKeeps
  <2>3. \A r \in Row : Patched(c, r) \in Row
    BY <1>s DEF Row, Patched, RequestTypes
  <2>4. users' \subseteq Row
    <3>1. PICK rows \in SUBSET users :
            \/ users' = users
            \/ users' = (users \ rows) \cup {Patched(c, r) : r \in rows}
      BY <1>8 DEF UpdateUser, Rows
    <3>2. QED  BY <1>s, <2>3, <3>1 DEF TableTypes
  <2>5. created' = created /\ moved' \subseteq 1..MAX_USERS
    <3>1. \A i \in moved' : i \in moved \/ \E r \in users : i = r.id
      BY <1>8 DEF UpdateUser, Rows
    <3>2. \A r \in users : r.id \in 1..MAX_USERS
      BY <1>s DEF TableTypes, Row
    <3>3. QED  BY <1>8, <1>s, <3>1, <3>2 DEF UpdateUser, TableTypes
  <2>6. foreign' \subseteq 0..MAX_USERS
    BY <1>8, <1>s DEF UpdateUser, TableTypes, Changing, SessionTypes
  <2>7. TableTypes'
    BY <1>s, <2>4, <2>5, <2>6 DEF TableTypes
  <2>8. QED
    BY <1>8, <1>s, <1>t, <2>2, <2>7
       DEF UpdateUser, TokenTypes, SessionTypes, BlacklistTypes, OtherTypes
<1>9. CASE EraseUser(c)
  <2>1. OnlyFor(c)
    BY <1>9 DEF EraseUser, OnlyFor
  <2>2. RequestTypes' /\ RequestsCarry'
    <3>1. CASE Return(c)
      BY <2>1, <3>1, ReturnKeeps
    <3>2. CASE Goto(c, "blacklist")
      BY <1>9, <2>1, <3>2, GotoKeeps DEF EraseUser, Labels, Stage
    <3>3. QED  BY <1>9, <3>1, <3>2 DEF EraseUser
  <2>3. TableTypes'
    BY <1>9, <1>s DEF EraseUser, TableTypes, Rows, Changing, SessionTypes, Row
  <2>4. QED
    BY <1>9, <1>s, <1>t, <2>2, <2>3
       DEF EraseUser, TokenTypes, SessionTypes, BlacklistTypes, OtherTypes
<1>10. CASE EraseDbUser(c)
  <2>1. OnlyFor(c)
    BY <1>10 DEF EraseDbUser, OnlyFor
  <2>2. RequestTypes' /\ RequestsCarry'
    BY <1>10, <2>1, GotoKeeps DEF EraseDbUser, Labels, Stage
  <2>3. TableTypes'
    BY <1>10, <1>s DEF EraseDbUser, TableTypes, Rows, Row
  <2>4. QED
    BY <1>10, <1>s, <1>t, <2>2, <2>3
       DEF EraseDbUser, TokenTypes, SessionTypes, BlacklistTypes, OtherTypes
<1>11. CASE BlacklistToken(c)
  <2>1. OnlyFor(c) /\ Return(c)
    BY <1>11 DEF BlacklistToken, OnlyFor
  <2>2. RequestTypes' /\ RequestsCarry'
    BY <2>1, ReturnKeeps
  <2>3. access[c] \in Tokens
    BY <1>11, <1>s DEF BlacklistToken, Carries, Stage, Tokens
  <2>4. SessionTypes' /\ BlacklistTypes'
    BY <1>11, <1>s, <2>3 DEF BlacklistToken, Ask, SessionTypes, BlacklistTypes
  <2>5. QED
    BY <1>11, <1>s, <1>t, <2>2, <2>4 DEF BlacklistToken, TableTypes, TokenTypes,
                                         OtherTypes
<1>12. CASE Login(c)
  <2>1. PICK r \in users, a \in Access, f \in Refresh :
          /\ Issued({a, f}, r.username)
          /\ access' = [access EXCEPT ![c] = a]
          /\ refresh' = [refresh EXCEPT ![c] = f]
          /\ account' = [account EXCEPT ![c] = r.id]
    BY <1>12 DEF Login
  <2>2. OnlyFor(c)
    BY <1>12, <2>1, <1>s DEF Login, OnlyFor, SessionTypes
  <2>3. RequestTypes' /\ RequestsCarry'
    BY <1>12, <2>2, IdleKeeps DEF Login
  <2>4. r.id \in 1..MAX_USERS /\ r.username \in Names
    BY <1>s DEF TableTypes, Row
  <2>5. TokenTypes'
    BY <1>s, <2>1, <2>4 DEF Issued, TokenTypes, Tokens
  <2>6. SessionTypes'
    BY <1>12, <1>s, <2>1, <2>4 DEF Login, SessionTypes
  <2>7. QED
    BY <1>12, <1>s, <1>t, <2>3, <2>5, <2>6
       DEF Login, TableTypes, BlacklistTypes, OtherTypes
<1>13. CASE RefreshAccess(c)
  <2>1. PICK a \in Access :
          /\ Issued({a}, subject[refresh[c]])
          /\ access' = [access EXCEPT ![c] = a]
    BY <1>13 DEF RefreshAccess
  <2>2. OnlyFor(c)
    BY <1>13, <2>1, <1>s DEF RefreshAccess, OnlyFor, SessionTypes
  <2>3. RequestTypes' /\ RequestsCarry'
    BY <1>13, <2>2, IdleKeeps DEF RefreshAccess
  <2>4. subject[refresh[c]] \in Names
    BY <1>13 DEF RefreshAccess, Valid
  <2>5. TokenTypes'
    BY <1>s, <2>1, <2>4 DEF Issued, TokenTypes, Tokens
  <2>6. SessionTypes'
    BY <1>13, <1>s, <2>1 DEF RefreshAccess, SessionTypes, Tokens
  <2>7. QED
    BY <1>13, <1>s, <1>t, <2>3, <2>5, <2>6
       DEF RefreshAccess, TableTypes, BlacklistTypes, OtherTypes
<1>14. CASE LogoutAccess(c)
  <2>1. access[c] \in Access /\ refresh[c] \in Refresh
    BY <1>14, <1>s DEF LogoutAccess, Decodes, SessionTypes
  <2>2. OnlyFor(c)
    BY <1>14 DEF LogoutAccess, OnlyFor
  <2>3. Starts(c, "logout", "blacklist", None, None, None)
    BY <1>14, <2>1 DEF LogoutAccess, Starts, Ops, Labels, Stage
  <2>4. Begin(c, "logout", "blacklist", None, None, None)
    BY <1>14 DEF LogoutAccess
  <2>5. RequestTypes' /\ RequestsCarry'
    BY <2>2, <2>3, <2>4, BeginKeeps
  <2>6. SessionTypes' /\ BlacklistTypes'
    BY <1>14, <1>s, <2>1 DEF LogoutAccess, Ask, SessionTypes, BlacklistTypes, Tokens
  <2>7. QED
    BY <1>14, <1>s, <1>t, <2>5, <2>6
       DEF LogoutAccess, TableTypes, TokenTypes, OtherTypes
<1>15. CASE LogoutRefresh(c)
  <2>1. access[c] \in Access /\ refresh[c] \in Refresh
    BY <1>15, <1>s DEF LogoutRefresh, Carries, Stage
  <2>2. OnlyFor(c) /\ Return(c)
    BY <1>15, <1>s DEF LogoutRefresh, OnlyFor, SessionTypes
  <2>3. RequestTypes' /\ RequestsCarry'
    BY <2>2, ReturnKeeps
  <2>4. SessionTypes' /\ BlacklistTypes'
    BY <1>15, <1>s, <2>1 DEF LogoutRefresh, Ask, SessionTypes, BlacklistTypes, Tokens
  <2>5. QED
    BY <1>15, <1>s, <1>t, <2>3, <2>4
       DEF LogoutRefresh, TableTypes, TokenTypes, OtherTypes
<1>16. CASE StatementFails(c)
  <2>1. OnlyFor(c) /\ Return(c)
    BY <1>16 DEF StatementFails, OnlyFor
  <2>2. faults' \in 0..MAX_FAULTS
    BY <1>16, <1>s, BoundsAssumption DEF StatementFails, Fault, OtherTypes
  <2>3. QED  BY <1>16, <2>1, <2>2, ReturnKeeps, OnlyRequest DEF StatementFails
<1>17. QED
  BY <1>1, <1>2, <1>3, <1>4, <1>5, <1>6, <1>7, <1>8, <1>9, <1>10, <1>11, <1>12, <1>13,
     <1>14, <1>15, <1>16 DEF Request

(* AccountsTypeOK is kept by every step.                                   *)
LEMMA TypeStep == TypeInv /\ [Next]_vars => TypeInv'
<1> SUFFICES ASSUME TypeInv, [Next]_vars
             PROVE  TypeInv'
  OBVIOUS
<1> USE DEF tableVars, idleVars, requestVars, tokenVars, sessionVars, blacklistVars
<1>1. ASSUME NEW c \in Clients, Request(c)
      PROVE  TypeInv'
  BY <1>1, TypeRequest
<1>s. RequestTypes /\ TableTypes /\ OtherTypes
  BY TypesByPart DEF TypeInv
<1>2. ASSUME UNCHANGED <<requestVars, tokenVars, sessionVars, blacklistVars>>,
             TableTypes', OtherTypes'
      PROVE  TypeInv'
  BY <1>2 DEF TypeInv, AccountsTypeOK, TableTypes, OtherTypes, RequestsCarry, Carries
<1>3. CASE ScriptSelect
  BY <1>3, <1>2, <1>s DEF ScriptSelect, TableTypes, OtherTypes
<1>4. CASE ScriptInsert
  <2>1. TableTypes'
    BY <1>4, <1>s, AdminAssumption, InsertTypes DEF ScriptInsert, TableTypes
  <2>2. QED  BY <1>4, <1>2, <1>s, <2>1 DEF ScriptInsert, OtherTypes
<1>5. CASE Tick
  BY <1>5 DEF Tick, TypeInv, AccountsTypeOK, RequestsCarry, Carries
<1>6. ASSUME NEW t \in Tokens, Expire(t)
      PROVE  TypeInv'
  BY <1>6, BoundsAssumption
     DEF Expire, Fault, TypeInv, AccountsTypeOK, RequestsCarry, Carries
<1>7. CASE UNCHANGED vars
  BY <1>7 DEF vars, TypeInv, AccountsTypeOK, RequestsCarry, Carries
<1>8. QED  BY <1>1, <1>3, <1>4, <1>5, <1>6, <1>7 DEF Next

(* The variables keep their types, and a request has what its kind needs:  *)
(* a user with a token to blacklist, a name and an address to write.       *)
THEOREM AccountsTypeCorrect == Spec => []TypeInv
BY TypeInit, TypeStep, PTL DEF Spec

-----------------------------------------------------------------------------
(* The rows. *)

(* A new row has a username and an address nobody has.                     *)
LEMMA InsertUnique ==
    ASSUME UniqueAccounts, NEW name, NEW mail, NEW su, Insert(name, mail, su),
           ~ UsernameTaken(name), ~ EmailTaken(mail)
    PROVE  UniqueAccounts'
BY DEF UniqueAccounts, Unique, Insert, UsernameTaken, EmailTaken, Rows

(* Each step keeps the columns unique: what the statements find refused    *)
(* ends the request, whatever was looked up before.                        *)
LEMMA UniqueStep == TypeInv /\ UniqueAccounts /\ [Next]_vars => UniqueAccounts'
<1> SUFFICES ASSUME TypeInv, UniqueAccounts, [Next]_vars
             PROVE  UniqueAccounts'
  OBVIOUS
<1> USE DEF tableVars
<1>s. users \subseteq Row
  BY DEF TypeInv, AccountsTypeOK
<1>1. CASE UNCHANGED users
  BY <1>1 DEF UniqueAccounts, Unique
<1>2. ASSUME NEW c \in Clients, Request(c)
      PROVE  UniqueAccounts'
  <2>1. CASE CreateUser(c)
    BY <1>1, <2>1, InsertUnique DEF CreateUser
  <2>2. CASE UpdateUser(c)
    BY <1>1, <2>2 DEF UpdateUser, UniqueAccounts, Unique
  <2>3. CASE EraseUser(c)
    <3>1. PICK rows \in SUBSET users :
            users' = (users \ rows) \cup {[r EXCEPT !.is_deleted = "yes"] : r \in rows}
      BY <2>3 DEF EraseUser, Rows
    <3>2. \A r \in users' : \E q \in users : /\ q.id = r.id /\ q.username = r.username
                                            /\ q.email = r.email
      BY <1>s, <3>1 DEF Row
    <3>3. QED  BY <3>2 DEF UniqueAccounts, Unique
  <2>4. CASE EraseDbUser(c)
    BY <2>4 DEF EraseDbUser, UniqueAccounts, Unique
  <2>5. QED
    BY <1>1, <1>2, <2>1, <2>2, <2>3, <2>4
       DEF Request, Register, CheckEmail, CheckUsername, Authenticate, CurrentUser,
           FindUser, BlacklistToken, Login, RefreshAccess, LogoutAccess, LogoutRefresh,
           StatementFails
<1>3. CASE ScriptInsert
  BY <1>1, <1>3, InsertUnique DEF ScriptInsert
<1>4. QED
  BY <1>1, <1>2, <1>3 DEF Next, ScriptSelect, Tick, Expire, vars

(* No two rows ever share a username or an e-mail address, however the     *)
(* requests and the script interleave between looking and writing.         *)
THEOREM AccountsUnique == Spec => []UniqueAccounts
<1>1. Init => UniqueAccounts
  BY DEF Init, UniqueAccounts, Unique
<1>2. QED  BY <1>1, AccountsTypeCorrect, UniqueStep, PTL DEF Spec

-----------------------------------------------------------------------------
(* The tokens: two clients hold the same one only if it was issued twice   *)
(* within a second, and only what was issued is ever blacklisted.          *)

HeldIssued == \A c \in Clients : \A t \in Held(c) : subject[t] # "unissued"
HeldApart == \A c, d \in Clients : c # d => Held(c) \cap Held(d) \subseteq shared
BlacklistIssued == \A t \in blacklist : subject[t] # "unissued"
ClosedListed == closed \subseteq blacklist

TokenInv == HeldIssued /\ HeldApart /\ BlacklistIssued /\ ClosedListed /\ SessionsApart

LEMMA HeldIsToken ==
    ASSUME TypeInv, NEW c \in Clients
    PROVE  /\ Held(c) \subseteq Tokens
           /\ Held(c) \cap blacklist = {access[c], refresh[c]} \cap blacklist
BY NoneAssumption DEF TypeInv, AccountsTypeOK, Held, Tokens

(* SessionsApart, said of the tokens a client holds.                       *)
HeldAsked ==
    \A c \in Clients : \A t \in Held(c) \cap blacklist : t \in asked[c] \/ t \in shared

LEMMA ApartOfHeld == TypeInv => (SessionsApart <=> HeldAsked)
BY HeldIsToken DEF SessionsApart, HeldAsked

(* A step that gives a client tokens: one that is new is nobody else's and *)
(* on no list, and one that is not new is shared from now on.              *)
LEMMA IssueTokens ==
    ASSUME TypeInv, TypeInv', TokenInv, NEW c \in Clients, NEW name \in Names,
           NEW ts \in SUBSET Tokens, \A t \in ts : Issue(t, name), Issued(ts, name),
           UNCHANGED blacklistVars,
           \A d \in Clients \ {c} : Held(d)' = Held(d) /\ asked'[d] = asked[d],
           Held(c)' \subseteq ts \cup Held(c),
           \A t \in Held(c)' \ ts : t \in asked[c] => t \in asked'[c]
    PROVE  TokenInv'
<1>1. /\ \A t \in Tokens : /\ t \in ts => subject'[t] = name
                           /\ t \notin ts => subject'[t] = subject[t]
      /\ \A t \in ts : subject[t] = "unissued" \/ t \in shared'
      /\ shared \subseteq shared' /\ blacklist' = blacklist /\ closed' = closed
  BY DEF Issue, Issued, blacklistVars
<1>2. /\ name # "unissued" /\ blacklist \subseteq Tokens
      /\ \A d \in Clients : Held(d) \subseteq Tokens /\ Held(d)' \subseteq Tokens
  BY HeldIsToken, NoneAssumption DEF TypeInv, AccountsTypeOK, Held, Tokens
<1>3. HeldIssued' /\ BlacklistIssued' /\ ClosedListed'
  BY <1>1, <1>2 DEF TokenInv, HeldIssued, BlacklistIssued, ClosedListed
<1>4. HeldApart'
  <2>1. ASSUME NEW d \in Clients, d # c, NEW t \in Held(c)' \cap Held(d)
        PROVE  t \in shared'
    BY <1>1, <2>1 DEF TokenInv, HeldIssued, HeldApart
  <2>2. ASSUME NEW d \in Clients, NEW e \in Clients, d # e,
               NEW t \in Held(d)' \cap Held(e)'
        PROVE  t \in shared'
    BY <1>1, <2>1, <2>2 DEF TokenInv, HeldApart
  <2>3. QED  BY <2>2 DEF HeldApart
<1>5. SessionsApart'
  <2>1. ASSUME NEW d \in Clients, NEW t \in Held(d)' \cap blacklist'
        PROVE  t \in asked'[d] \/ t \in shared'
    <3>1. CASE d = c /\ t \in ts
      BY <1>1, <2>1, <3>1 DEF TokenInv, BlacklistIssued
    <3>2. CASE d # c \/ t \notin ts
      BY <1>1, <2>1, <3>2, ApartOfHeld DEF TokenInv, HeldAsked
    <3>3. QED  BY <3>1, <3>2
  <2>2. HeldAsked'
    BY <2>1 DEF HeldAsked
  <2>3. TypeInv' => (SessionsApart' <=> HeldAsked')
    BY ApartOfHeld, PTL
  <2>4. QED  BY <2>2, <2>3
<1>6. QED  BY <1>3, <1>4, <1>5 DEF TokenInv

(* A step that blacklists a token of a client, at its request.             *)
LEMMA BlacklistOne ==
    ASSUME TypeInv, TypeInv', TokenInv, NEW c \in Clients, NEW t \in Held(c),
           UNCHANGED tokenVars, Ask(c, t),
           blacklist \subseteq blacklist', blacklist' \subseteq blacklist \cup {t},
           closed' \subseteq closed \cup blacklist',
           \A d \in Clients : Held(d)' \subseteq Held(d)
    PROVE  TokenInv'
<1>1. /\ shared' = shared /\ subject' = subject
      /\ t \in asked'[c] /\ \A d \in Clients : asked[d] \subseteq asked'[d]
  BY DEF tokenVars, Ask, TypeInv, AccountsTypeOK
<1>2. HeldIssued' /\ HeldApart'
  BY <1>1 DEF TokenInv, HeldIssued, HeldApart
<1>3. BlacklistIssued' /\ ClosedListed'
  BY <1>1 DEF TokenInv, HeldIssued, BlacklistIssued, ClosedListed
<1>4. SessionsApart'
  <2>1. ASSUME NEW d \in Clients, NEW u \in Held(d)' \cap blacklist'
        PROVE  u \in asked'[d] \/ u \in shared'
    <3>1. CASE u = t
      BY <1>1, <2>1, <3>1 DEF TokenInv, HeldApart
    <3>2. CASE u # t
      BY <1>1, <2>1, <3>2, ApartOfHeld DEF TokenInv, HeldAsked
    <3>3. QED  BY <3>1, <3>2
  <2>2. HeldAsked'
    BY <2>1 DEF HeldAsked
  <2>3. TypeInv' => (SessionsApart' <=> HeldAsked')
    BY ApartOfHeld, PTL
  <2>4. QED  BY <2>2, <2>3
<1>5. QED  BY <1>2, <1>3, <1>4 DEF TokenInv

LEMMA TokenRequest ==
    ASSUME TypeInv, TypeInv', TokenInv, NEW c \in Clients, Request(c)
    PROVE  TokenInv'
<1> USE DEF tableVars, idleVars, requestVars, sessionVars
<1>s. /\ access \in [Clients -> Access \cup {None}]
      /\ refresh \in [Clients -> Refresh \cup {None}]
      /\ asked \in [Clients -> SUBSET Tokens]
      /\ Carries(c) /\ None \notin Access \cup Refresh
  BY NoneAssumption DEF TypeInv, AccountsTypeOK, RequestsCarry
<1>1. CASE UNCHANGED <<tokenVars, sessionVars, blacklistVars>>
  BY <1>1 DEF tokenVars, blacklistVars, TokenInv, HeldIssued, HeldApart, BlacklistIssued,
              ClosedListed, SessionsApart, Held
<1>2. CASE BlacklistToken(c)
  <2>1. access[c] \in Held(c)
    BY <1>2, <1>s DEF BlacklistToken, Carries, Stage, Held
  <2>2. \A d \in Clients : Held(d)' \subseteq Held(d)
    BY <1>2 DEF BlacklistToken, Held
  <2>3. QED
    BY <1>2, <2>1, <2>2, BlacklistOne DEF BlacklistToken, TokenInv, ClosedListed
<1>3. CASE Login(c)
  <2>1. PICK r \in users, a \in Access, f \in Refresh :
          /\ Issue(a, r.username) /\ Issue(f, r.username)
          /\ Issued({a, f}, r.username)
          /\ access' = [access EXCEPT ![c] = a]
          /\ refresh' = [refresh EXCEPT ![c] = f]
    BY <1>3 DEF Login
  <2>2. r.username \in Names /\ {a, f} \in SUBSET Tokens
    BY DEF TypeInv, AccountsTypeOK, Row, Tokens
  <2>3. Held(c)' \subseteq {a, f}
    BY <1>s, <2>1 DEF Held
  <2>4. \A d \in Clients \ {c} : Held(d)' = Held(d) /\ asked'[d] = asked[d]
    BY <1>3, <1>s, <2>1 DEF Login, Held
  <2>5. \A t \in {a, f} : Issue(t, r.username)
    BY <2>1
  <2>6. UNCHANGED blacklistVars
    BY <1>3 DEF Login
  <2>7. QED  BY <2>1, <2>2, <2>3, <2>4, <2>5, <2>6, IssueTokens
<1>4. CASE RefreshAccess(c)
  <2>1. PICK a \in Access :
          /\ Issue(a, subject[refresh[c]])
          /\ Issued({a}, subject[refresh[c]])
          /\ access' = [access EXCEPT ![c] = a]
    BY <1>4 DEF RefreshAccess
  <2>2. subject[refresh[c]] \in Names /\ {a} \in SUBSET Tokens
    BY <1>4 DEF RefreshAccess, Valid, Tokens
  <2>3. Held(c)' \subseteq {a} \cup Held(c)
    BY <1>4, <1>s, <2>1 DEF RefreshAccess, Held
  <2>4. \A d \in Clients \ {c} : Held(d)' = Held(d) /\ asked'[d] = asked[d]
    BY <1>4, <1>s, <2>1 DEF RefreshAccess, Held
  <2>5. \A t \in Held(c)' \ {a} : t \in asked[c] => t \in asked'[c]
    BY <1>4, <1>s, <2>1 DEF RefreshAccess, Held
  <2>6. (\A t \in {a} : Issue(t, subject[refresh[c]])) /\ UNCHANGED blacklistVars
    BY <1>4, <2>1 DEF RefreshAccess
  <2>7. QED  BY <2>1, <2>2, <2>3, <2>4, <2>5, <2>6, IssueTokens
<1>5. CASE LogoutAccess(c)
  <2>1. access[c] \in Held(c)
    BY <1>5 DEF LogoutAccess, Decodes, Held
  <2>2. \A d \in Clients : Held(d)' \subseteq Held(d)
    BY <1>5 DEF LogoutAccess, Held
  <2>3. QED
    BY <1>5, <2>1, <2>2, BlacklistOne DEF LogoutAccess, TokenInv, ClosedListed
<1>6. CASE LogoutRefresh(c)
  <2>1. access[c] \in blacklist /\ refresh[c] \in Held(c)
    BY <1>6, <1>s DEF LogoutRefresh, Carries, Stage, Held
  <2>2. \A d \in Clients : Held(d)' \subseteq Held(d)
    BY <1>6, <1>s DEF LogoutRefresh, Held
  <2>3. /\ blacklist \subseteq blacklist'
        /\ blacklist' \subseteq blacklist \cup {refresh[c]}
        /\ closed' \subseteq closed \cup blacklist'
    BY <1>6, <2>1 DEF LogoutRefresh
  <2>4. UNCHANGED tokenVars /\ Ask(c, refresh[c])
    BY <1>6 DEF LogoutRefresh
  <2>5. QED  BY <2>1, <2>2, <2>3, <2>4, BlacklistOne
<1>7. QED
  BY <1>1, <1>2, <1>3, <1>4, <1>5, <1>6
     DEF Request, Register, CheckEmail, CheckUsername, CreateUser, Authenticate,
         CurrentUser, FindUser, UpdateUser, EraseUser, EraseDbUser, StatementFails

LEMMA TokenStep == TypeInv /\ TypeInv' /\ TokenInv /\ [Next]_vars => TokenInv'
<1> SUFFICES ASSUME TypeInv, TypeInv', TokenInv, [Next]_vars
             PROVE  TokenInv'
  OBVIOUS
<1>1. ASSUME NEW c \in Clients, Request(c)
      PROVE  TokenInv'
  BY <1>1, TokenRequest
<1>2. ASSUME UNCHANGED <<shared, sessionVars, blacklistVars>>,
             \A t \in Tokens : subject'[t] = "unissued" => subject[t] = "unissued"
      PROVE  TokenInv'
  <2>1. blacklist \subseteq Tokens /\ \A c \in Clients : Held(c) \subseteq Tokens
    BY HeldIsToken DEF TypeInv, AccountsTypeOK
  <2>2. QED
    BY <1>2, <2>1 DEF sessionVars, blacklistVars, TokenInv, HeldIssued, HeldApart,
                      BlacklistIssued, ClosedListed, SessionsApart, Held
<1>3. ASSUME NEW t \in Tokens, Expire(t)
      PROVE  TokenInv'
  <2>1. \A u \in Tokens : subject'[u] = "unissued" => subject[u] = "unissued"
    BY <1>3 DEF Expire, TypeInv, AccountsTypeOK
  <2>2. QED  BY <1>2, <1>3, <2>1 DEF Expire
<1>4. CASE ScriptSelect \/ ScriptInsert \/ Tick \/ UNCHANGED vars
  BY <1>2, <1>4 DEF ScriptSelect, ScriptInsert, Tick, vars, tokenVars
<1>5. QED  BY <1>1, <1>3, <1>4 DEF Next

LEMMA TokenInit == Init => TokenInv
BY DEF Init, TokenInv, HeldIssued, HeldApart, BlacklistIssued, ClosedListed,
       SessionsApart, Held

(* The invariant of the tokens.                                            *)
THEOREM TokensCorrect == Spec => []TokenInv
BY AccountsTypeCorrect, TokenInit, TokenStep, PTL DEF Spec

(* A logout answered with success is final: the access token was on the    *)
(* list before the refresh token was, and nothing leaves the list.         *)
THEOREM LogoutIsFinal == Spec => []LogoutFinal
<1>1. TokenInv => LogoutFinal
  BY DEF TokenInv, ClosedListed, LogoutFinal, Valid
<1>2. QED  BY <1>1, TokensCorrect, PTL

(* No client ends the session of another, but where both were given one    *)
(* token within a second.                                                  *)
THEOREM SessionsStayApart == Spec => []SessionsApart
<1>1. TokenInv => SessionsApart
  BY DEF TokenInv
<1>2. QED  BY <1>1, TokensCorrect, PTL

-----------------------------------------------------------------------------
(* Whose row a session speaks for: the name in a token, and the name a     *)
(* request goes by, is that of the row its client logged into, for as long *)
(* as that row is neither renamed nor deleted for good.                    *)

OwnTokens ==
    \A c \in Clients : \A t \in Held(c) : subject[t] \in Names => OwnRow(c, subject[t])
OwnRequests ==
    \A c \in Clients :
        op[c] \in {"patch_user", "erase_user"} => OwnRow(c, current_user[c])

OwnInv == OwnTokens /\ OwnRequests /\ ActsForItsAccount

(* A row keeps its name in a step, or is recorded as moved.                *)
RowsKeep ==
    /\ moved \subseteq moved'
    /\ \A r \in users :
           \/ r.id \in moved'
           \/ \E q \in users' : q.id = r.id /\ q.username = r.username

LEMMA OwnRowKeeps ==
    ASSUME RowsKeep, NEW c \in Clients, account'[c] = account[c], NEW name,
           OwnRow(c, name)
    PROVE  OwnRow(c, name)'
BY DEF OwnRow, RowsKeep

(* A statement that finds rows by a name its client goes by finds only the *)
(* row of its client, or one that took the name of a row that moved.       *)
LEMMA FindsItsOwn ==
    ASSUME UniqueAccounts, NEW c \in Clients, NEW name, OwnRow(c, name),
           NEW r \in Rows(name), r.id # account[c]
    PROVE  account[c] \in moved
BY DEF OwnRow, UniqueAccounts, Unique, Rows

LEMMA ChangesItsOwn ==
    ASSUME UniqueAccounts, NEW c \in Clients, NEW name, OwnRow(c, name),
           Changing(c, Rows(name)), moved \subseteq moved', ActsForItsAccount
    PROVE  ActsForItsAccount'
<1>1. CASE \E r \in Rows(name) : r.id # account[c]
  BY <1>1, FindsItsOwn DEF Changing, ActsForItsAccount
<1>2. CASE ~ \E r \in Rows(name) : r.id # account[c]
  BY <1>2 DEF Changing, ActsForItsAccount
<1>3. QED  BY <1>1, <1>2

(* The steps of a request that is under way, and those of nobody: names and*)
(* sessions are what they were.                                            *)
LEMMA OwnKeeps ==
    ASSUME TypeInv, OwnInv, RowsKeep, ActsForItsAccount', account' = account,
           \A c \in Clients : Held(c)' \subseteq Held(c),
           \A t \in Tokens : subject'[t] \in Names => subject'[t] = subject[t],
           \A c \in Clients : op'[c] \in {"patch_user", "erase_user"} =>
               op'[c] = op[c] /\ current_user'[c] = current_user[c]
    PROVE  OwnInv'
<1>1. OwnTokens'
  BY HeldIsToken, OwnRowKeeps DEF OwnInv, OwnTokens
<1>2. OwnRequests'
  BY OwnRowKeeps DEF OwnInv, OwnRequests
<1>3. QED  BY <1>1, <1>2 DEF OwnInv

(* A step that gives a client tokens in the name of its own row.           *)
LEMMA OwnIssued ==
    ASSUME TypeInv, TypeInv', TokenInv, OwnInv, NEW c \in Clients, NEW name \in Names,
           NEW ts \in SUBSET Tokens, \A t \in ts : Issue(t, name), Issued(ts, name),
           UNCHANGED <<tableVars, idleVars>>,
           \A d \in Clients \ {c} : Held(d)' = Held(d) /\ account'[d] = account[d],
           \A t \in Held(c)' \ ts : \A n \in Names : n = subject[t] => OwnRow(c, n)',
           OwnRow(c, name)', op[c] = "none"
    PROVE  OwnInv'
<1>1. RowsKeep
  BY DEF RowsKeep, tableVars
<1>2. \A t \in Tokens : subject'[t] = IF t \in ts THEN name ELSE subject[t]
  BY DEF Issued
<1>3. ASSUME NEW d \in Clients, NEW t \in Held(d)', subject'[t] \in Names
      PROVE  OwnRow(d, subject[t])'
  <2>1. PICK n \in Names : n = subject'[t]
    BY <1>3
  <2>2. t \in Tokens
    BY <1>3 DEF TypeInv, AccountsTypeOK, Held, Tokens
  <2>3. OwnRow(d, n)'
    <3>1. CASE d = c
      BY <1>2, <1>3, <2>1, <2>2, <3>1
    <3>2. CASE d # c
      <4>1. t \in Held(d) /\ subject[t] # "unissued"
        BY <1>3, <3>2 DEF TokenInv, HeldIssued
      <4>2. n = subject[t]
        BY <1>2, <2>1, <2>2, <4>1 DEF Issue
      <4>3. OwnRow(d, n)
        BY <1>3, <2>1, <4>1, <4>2 DEF OwnInv, OwnTokens
      <4>4. QED  BY <1>1, <3>2, <4>3, OwnRowKeeps
    <3>3. QED  BY <3>1, <3>2
  <2>4. QED  BY <2>1, <2>3 DEF OwnRow
<1>4. OwnRequests'
  <2>1. ASSUME NEW d \in Clients, op[d] \in {"patch_user", "erase_user"}
        PROVE  OwnRow(d, current_user[d])'
    <3>1. PICK n : n = current_user[d]
      OBVIOUS
    <3>2. OwnRow(d, n) /\ d # c
      BY <2>1, <3>1 DEF OwnInv, OwnRequests
    <3>3. OwnRow(d, n)'
      BY <1>1, <3>2, OwnRowKeeps
    <3>4. QED  BY <3>1, <3>3 DEF OwnRow, idleVars
  <2>2. QED  BY <2>1 DEF OwnRequests, idleVars
<1>5. ActsForItsAccount'
  BY DEF OwnInv, ActsForItsAccount, tableVars
<1>6. QED  BY <1>3, <1>4, <1>5 DEF OwnInv, OwnTokens

(* The new rows of an update or of an erasure are the old ones, renamed or *)
(* not; an inserted row takes no name from another.                        *)
LEMMA RowsKept ==
    ASSUME TypeInv, NEW c \in Clients,
           \/ UNCHANGED tableVars \/ CreateUser(c) \/ UpdateUser(c) \/ EraseUser(c)
           \/ EraseDbUser(c) \/ ScriptInsert
    PROVE  RowsKeep
<1>s. users \subseteq Row
  BY DEF TypeInv, AccountsTypeOK
<1>1. CASE UNCHANGED tableVars
  BY <1>1 DEF tableVars, RowsKeep
<1>2. CASE CreateUser(c) \/ ScriptInsert
  BY <1>1, <1>2 DEF CreateUser, ScriptInsert, Insert, RowsKeep
<1>3. CASE UpdateUser(c)
  <2>1. CASE UNCHANGED <<users, moved>>
    BY <2>1 DEF RowsKeep
  <2>2. CASE /\ users' = (users \ Rows(current_user[c]))
                         \cup {Patched(c, r) : r \in Rows(current_user[c])}
             /\ moved' = moved \cup {r.id : r \in {q \in Rows(current_user[c]) :
                                           Patched(c, q).username # q.username}}
    <3>1. ASSUME NEW r \in users
          PROVE  \/ r.id \in moved'
                 \/ \E q \in users' : q.id = r.id /\ q.username = r.username
      <4>1. CASE r \notin Rows(current_user[c])
        BY <2>2, <4>1
      <4>2. CASE r \in Rows(current_user[c])
        <5>1. Patched(c, r) \in users' /\ Patched(c, r).id = r.id
          BY <1>s, <2>2, <4>2 DEF Patched, Row
        <5>2. CASE Patched(c, r).username = r.username
          BY <5>1, <5>2
        <5>3. CASE Patched(c, r).username # r.username
          BY <2>2, <4>2, <5>3
        <5>4. QED  BY <5>2, <5>3
      <4>3. QED  BY <4>1, <4>2
    <3>2. QED  BY <2>2, <3>1 DEF RowsKeep
  <2>3. QED  BY <1>3, <2>1, <2>2 DEF UpdateUser
<1>4. CASE EraseUser(c)
  <2>1. PICK rows \in SUBSET users :
          users' = (users \ rows) \cup {[r EXCEPT !.is_deleted = "yes"] : r \in rows}
    BY <1>4 DEF EraseUser, Rows
  <2>2. ASSUME NEW r \in users
        PROVE  \E q \in users' : q.id = r.id /\ q.username = r.username
    <3>1. CASE r \notin rows
      BY <2>1, <3>1
    <3>2. CASE r \in rows
      <4>1. [r EXCEPT !.is_deleted = "yes"] \in users'
        BY <2>1, <3>2
      <4>2. /\ [r EXCEPT !.is_deleted = "yes"].id = r.id
            /\ [r EXCEPT !.is_deleted = "yes"].username = r.username
        BY <1>s DEF Row
      <4>3. QED  BY <4>1, <4>2
    <3>3. QED  BY <3>1, <3>2
  <2>3. QED  BY <1>4, <2>2 DEF EraseUser, RowsKeep
<1>5. CASE EraseDbUser(c)
  BY <1>5 DEF EraseDbUser, RowsKeep
<1>6. QED  BY <1>1, <1>2, <1>3, <1>4, <1>5

LEMMA OwnRequest ==
    ASSUME TypeInv, TypeInv', UniqueAccounts, TokenInv, OwnInv, NEW c \in Clients,
           Request(c)
    PROVE  OwnInv'
<1> USE DEF requestVars, sessionVars
<1>s. /\ access \in [Clients -> Access \cup {None}]
      /\ refresh \in [Clients -> Refresh \cup {None}]
      /\ account \in [Clients -> 0..MAX_USERS]
      /\ op \in [Clients -> Ops]
      /\ current_user \in [Clients -> Names \cup {None}]
      /\ Carries(c) /\ None \notin Access \cup Refresh
      /\ op[c] = "none" <=> at[c] = "idle"
  BY NoneAssumption DEF TypeInv, AccountsTypeOK, RequestsCarry, Carries, Stage
<1>k. ASSUME RowsKeep, ActsForItsAccount', account' = account,
             \A d \in Clients : Held(d)' \subseteq Held(d), subject' = subject,
             Return(c) \/ UNCHANGED <<op, current_user>>
      PROVE  OwnInv'
  <2>1. \A d \in Clients : op'[d] \in {"patch_user", "erase_user"} =>
            op'[d] = op[d] /\ current_user'[d] = current_user[d]
    BY <1>k, <1>s DEF Return
  <2>2. QED  BY <1>k, <2>1, OwnKeeps
<1>h. UNCHANGED <<access, refresh>> => \A d \in Clients : Held(d)' \subseteq Held(d)
  BY DEF Held
<1>a. UNCHANGED foreign /\ RowsKeep => ActsForItsAccount'
  BY DEF OwnInv, ActsForItsAccount, RowsKeep
<1>1. CASE CheckEmail(c) \/ CheckUsername(c) \/ CurrentUser(c) \/ FindUser(c)
           \/ CreateUser(c) \/ EraseDbUser(c) \/ BlacklistToken(c) \/ LogoutRefresh(c)
           \/ StatementFails(c)
  <2>1. RowsKeep
    BY <1>1, RowsKept DEF CheckEmail, CheckUsername, CurrentUser, FindUser,
                          BlacklistToken, LogoutRefresh, StatementFails
  <2>2. UNCHANGED foreign
    BY <1>1 DEF CheckEmail, CheckUsername, CurrentUser, FindUser, CreateUser, Insert,
                EraseDbUser, BlacklistToken, LogoutRefresh, StatementFails, tableVars
  <2>3. account' = account /\ subject' = subject
    BY <1>1 DEF CheckEmail, CheckUsername, CurrentUser, FindUser, CreateUser, Insert,
                EraseDbUser, BlacklistToken, LogoutRefresh, StatementFails, tokenVars
  <2>4. Return(c) \/ UNCHANGED <<op, current_user>>
    BY <1>1 DEF CheckEmail, CheckUsername, CurrentUser, FindUser, CreateUser,
                EraseDbUser, BlacklistToken, LogoutRefresh, StatementFails, Goto
  <2>5. \A d \in Clients : Held(d)' \subseteq Held(d)
    <3>1. CASE LogoutRefresh(c)
      BY <1>s, <3>1 DEF LogoutRefresh, Held
    <3>2. CASE ~ LogoutRefresh(c)
      BY <1>1, <1>h, <3>2
         DEF CheckEmail, CheckUsername, CurrentUser, FindUser, CreateUser,
             EraseDbUser, BlacklistToken, StatementFails
    <3>3. QED  BY <3>1, <3>2
  <2>6. QED  BY <1>k, <1>a, <2>1, <2>2, <2>3, <2>4, <2>5
<1>2. CASE UpdateUser(c) \/ EraseUser(c)
  <2>1. RowsKeep
    BY <1>2, RowsKept
  <2>2. ActsForItsAccount'
    <3>1. CASE UNCHANGED foreign
      BY <1>a, <2>1, <3>1
    <3>2. CASE Changing(c, Rows(current_user[c]))
      <4>1. PICK n : n = current_user[c]
        OBVIOUS
      <4>2. op[c] \in {"patch_user", "erase_user"}
        BY <1>2 DEF UpdateUser, EraseUser
      <4>3. OwnRow(c, n)
        BY <4>1, <4>2 DEF OwnInv, OwnRequests
      <4>4. QED
        BY <2>1, <3>2, <4>1, <4>3, ChangesItsOwn DEF RowsKeep, OwnInv
    <3>3. QED  BY <1>2, <1>s, <3>1, <3>2 DEF UpdateUser, EraseUser, Carries
  <2>3. QED
    BY <1>2, <1>k, <1>h, <2>1, <2>2 DEF UpdateUser, EraseUser, Goto, tokenVars
<1>3. CASE Register(c) \/ LogoutAccess(c)
  <2>1. RowsKeep
    BY <1>3, RowsKept DEF Register, LogoutAccess
  <2>2. \A d \in Clients : op'[d] \in {"patch_user", "erase_user"} =>
            op'[d] = op[d] /\ current_user'[d] = current_user[d]
    BY <1>3, <1>s DEF Register, LogoutAccess, Begin
  <2>3. account' = account /\ subject' = subject /\ UNCHANGED <<access, refresh, foreign>>
    BY <1>3 DEF Register, LogoutAccess, tokenVars, tableVars
  <2>4. QED  BY <1>a, <1>h, <2>1, <2>2, <2>3, OwnKeeps
<1>4. CASE Authenticate(c)
  <2>1. RowsKeep
    BY <1>4, RowsKept DEF Authenticate
  <2>2. UNCHANGED <<users, moved, foreign, access, refresh, account, subject>>
    BY <1>4 DEF Authenticate, tokenVars, tableVars
  <2>3. OwnTokens' /\ ActsForItsAccount'
    BY <2>2 DEF OwnInv, OwnTokens, OwnRow, ActsForItsAccount, Held
  <2>4. OwnRow(c, subject[access[c]])
    BY <1>4, <1>s DEF Authenticate, Valid, OwnInv, OwnTokens, Held
  <2>5. ASSUME NEW d \in Clients, op'[d] \in {"patch_user", "erase_user"}
        PROVE  OwnRow(d, current_user[d])'
    <3>1. CASE d = c
      <4>1. current_user'[c] = subject[access[c]]
        BY <1>4, <1>s, <2>5, <3>1 DEF Authenticate, Begin, OwnPath
      <4>2. QED  BY <2>2, <2>4, <3>1, <4>1 DEF OwnRow
    <3>2. CASE d # c
      <4>1. op'[d] = op[d] /\ current_user'[d] = current_user[d]
        BY <1>4, <1>s, <3>2 DEF Authenticate, Begin
      <4>2. QED  BY <2>2, <2>5, <4>1 DEF OwnInv, OwnRequests, OwnRow
    <3>3. QED  BY <3>1, <3>2
  <2>6. QED  BY <2>3, <2>5 DEF OwnInv, OwnRequests
<1>5. CASE Login(c)
  <2>1. PICK r \in users, a \in Access, f \in Refresh :
          /\ Issue(a, r.username) /\ Issue(f, r.username)
          /\ Issued({a, f}, r.username)
          /\ access' = [access EXCEPT ![c] = a]
          /\ refresh' = [refresh EXCEPT ![c] = f]
          /\ account' = [account EXCEPT ![c] = r.id]
    BY <1>5 DEF Login
  <2>2. r.username \in Names /\ {a, f} \in SUBSET Tokens
    BY DEF TypeInv, AccountsTypeOK, Row, Tokens
  <2>3. Held(c)' \subseteq {a, f}
    BY <1>s, <2>1 DEF Held
  <2>4. \A d \in Clients \ {c} : Held(d)' = Held(d) /\ account'[d] = account[d]
    BY <1>5, <1>s, <2>1 DEF Login, Held
  <2>5. OwnRow(c, r.username)'
    BY <1>5, <1>s, <2>1 DEF Login, OwnRow, tableVars
  <2>6. (\A t \in {a, f} : Issue(t, r.username)) /\ UNCHANGED <<tableVars, idleVars>>
    BY <1>5, <2>1 DEF Login
  <2>7. op[c] = "none"
    BY <1>5, <1>s DEF Login
  <2>8. QED  BY <2>1, <2>2, <2>3, <2>4, <2>5, <2>6, <2>7, OwnIssued
<1>6. CASE RefreshAccess(c)
  <2>1. PICK a \in Access :
          /\ Issue(a, subject[refresh[c]])
          /\ Issued({a}, subject[refresh[c]])
          /\ access' = [access EXCEPT ![c] = a]
    BY <1>6 DEF RefreshAccess
  <2>2. PICK name \in Names : name = subject[refresh[c]]
    BY <1>6 DEF RefreshAccess, Valid
  <2>3. Held(c)' \subseteq {a} \cup Held(c) /\ refresh[c] \in Held(c)
    BY <1>6, <1>s, <2>1 DEF RefreshAccess, Valid, Held
  <2>4. \A d \in Clients \ {c} : Held(d)' = Held(d) /\ account'[d] = account[d]
    BY <1>6, <1>s, <2>1 DEF RefreshAccess, Held
  <2>5. \A n : OwnRow(c, n) => OwnRow(c, n)'
    BY <1>6 DEF RefreshAccess, OwnRow, tableVars
  <2>6. OwnRow(c, name)'
    BY <2>2, <2>3, <2>5 DEF OwnInv, OwnTokens
  <2>7. \A t \in Held(c)' \ {a} : \A n \in Names : n = subject[t] => OwnRow(c, n)'
    BY <2>3, <2>5 DEF OwnInv, OwnTokens
  <2>8. (\A t \in {a} : Issue(t, name)) /\ UNCHANGED <<tableVars, idleVars>>
    BY <1>6, <2>1, <2>2 DEF RefreshAccess
  <2>9. op[c] = "none" /\ Issued({a}, name) /\ {a} \in SUBSET Tokens
    BY <1>6, <1>s, <2>1, <2>2 DEF RefreshAccess, Tokens
  <2>10. QED  BY <2>4, <2>6, <2>7, <2>8, <2>9, OwnIssued
<1>7. QED  BY <1>1, <1>2, <1>3, <1>4, <1>5, <1>6 DEF Request

LEMMA OwnStep ==
    TypeInv /\ TypeInv' /\ UniqueAccounts /\ TokenInv /\ OwnInv /\ [Next]_vars => OwnInv'
<1> SUFFICES ASSUME TypeInv, TypeInv', UniqueAccounts, TokenInv, OwnInv, [Next]_vars
             PROVE  OwnInv'
  OBVIOUS
<1>1. ASSUME NEW c \in Clients, Request(c)
      PROVE  OwnInv'
  BY <1>1, OwnRequest
<1>2. ASSUME UNCHANGED <<requestVars, sessionVars, foreign>>, RowsKeep,
             \A t \in Tokens : subject'[t] \in Names => subject'[t] = subject[t]
      PROVE  OwnInv'
  <2>1. ActsForItsAccount'
    BY <1>2 DEF OwnInv, ActsForItsAccount, RowsKeep
  <2>2. \A c \in Clients : Held(c)' \subseteq Held(c)
    BY <1>2 DEF sessionVars, Held
  <2>3. account' = account /\ op' = op /\ current_user' = current_user
    BY <1>2 DEF requestVars, idleVars, sessionVars
  <2>4. QED  BY <1>2, <2>1, <2>2, <2>3, OwnKeeps
<1>3. CASE ScriptInsert
  <2>1. RowsKeep
    BY <1>3 DEF ScriptInsert, Insert, RowsKeep, tableVars
  <2>2. QED  BY <1>2, <1>3, <2>1 DEF ScriptInsert, Insert, tableVars, tokenVars
<1>4. CASE ScriptSelect \/ Tick \/ UNCHANGED vars
  <2>1. UNCHANGED <<users, moved, foreign, subject>>
    BY <1>4 DEF ScriptSelect, Tick, vars, tableVars, tokenVars
  <2>2. RowsKeep
    BY <2>1 DEF RowsKeep
  <2>3. QED  BY <1>2, <1>4, <2>1, <2>2 DEF ScriptSelect, Tick, vars
<1>5. ASSUME NEW t \in Tokens, Expire(t)
      PROVE  OwnInv'
  <2>1. RowsKeep /\ UNCHANGED foreign
    BY <1>5 DEF Expire, RowsKeep, tableVars
  <2>2. \A u \in Tokens : subject'[u] \in Names => subject'[u] = subject[u]
    BY <1>5, NoneAssumption DEF Expire, TypeInv, AccountsTypeOK
  <2>3. QED  BY <1>2, <1>5, <2>1, <2>2 DEF Expire
<1>6. QED  BY <1>1, <1>3, <1>4, <1>5 DEF Next

(* A request changes the row its client logged into and no other, unless   *)
(* that row was renamed or deleted for good in the meantime.               *)
THEOREM ActsForItsOwn == Spec => []ActsForItsAccount
<1>1. Init => OwnInv
  BY DEF Init, OwnInv, OwnTokens, OwnRequests, ActsForItsAccount, Held
<1>2. OwnInv => ActsForItsAccount
  BY DEF OwnInv
<1>3. QED
  BY <1>1, <1>2, AccountsTypeCorrect, AccountsUnique, TokensCorrect, OwnStep, PTL DEF Spec

=============================================================================
