-------------------------- MODULE AuthSessionProofs --------------------------
(* Theorems about AuthSession, for every value of its constants.            *)
EXTENDS AuthSession, TLAPS

-----------------------------------------------------------------------------
(* Type correctness.  TypeOK splits into what is said of the tables and what *)
(* is said of the goroutines; every step changes the second through Goto.    *)

TablesOK ==
    /\ users \in Seq(Account) /\ Len(users) <= MaxUsers
    /\ tokens \subseteq Token /\ \A tok \in tokens : tok.user <= Len(users)

ControlOK ==
    /\ pc \in [Reqs -> Steps] /\ DOMAIN loc = Reqs
    /\ \A p \in Reqs :
         /\ loc[p] \in Local(pc[p])
         /\ pc[p] = "sign" => loc[p].user <= Len(users)

LEMMA TypeParts == /\ TypeOK <=> TablesOK /\ ControlOK
                   /\ TypeOK' <=> TablesOK' /\ ControlOK'
BY DEF TypeOK, TablesOK, ControlOK

\* The claims to be signed name an account, and accounts are never deleted.
LEMMA ClaimsUser ==
    ASSUME NEW l \in Local("sign") PROVE l \in Claims /\ l.user \in Nat
BY AuthAssumption DEF Local, Claims

LEMMA MoveType ==
    ASSUME ControlOK, NEW p \in Reqs, NEW step \in Steps, NEW l \in Local(step),
           Goto(p, step, l), Len(users) \in Nat, Len(users') \in Nat,
           Len(users) <= Len(users'), step = "sign" => l.user <= Len(users')
    PROVE  ControlOK'
<1>1. pc' \in [Reqs -> Steps] /\ DOMAIN loc' = Reqs
  BY DEF ControlOK, Goto
<1>2. pc'[p] = step /\ loc'[p] = l
  BY DEF ControlOK, Goto
<1>3. \A q \in Reqs \ {p} : pc'[q] = pc[q] /\ loc'[q] = loc[q]
  BY DEF ControlOK, Goto
<1>4. ASSUME NEW q \in Reqs
      PROVE  loc'[q] \in Local(pc'[q]) /\ (pc'[q] = "sign" => loc'[q].user <= Len(users'))
  <2>1. CASE q = p
    BY <1>2, <2>1
  <2>2. CASE q # p
    <3>1. /\ loc[q] \in Local(pc[q])
          /\ pc[q] = "sign" => loc[q].user <= Len(users)
          /\ pc'[q] = pc[q] /\ loc'[q] = loc[q]
      BY <1>3, <2>2 DEF ControlOK
    <3>2. pc[q] = "sign" => loc[q].user \in Nat
      BY <3>1, ClaimsUser
    <3>3. QED
      BY <3>1, <3>2
  <2>3. QED
    BY <2>1, <2>2
<1>5. QED
  BY <1>1, <1>4 DEF ControlOK

LEMMA ReturnType ==
    ASSUME ControlOK, NEW p \in Reqs, Return(p), Len(users) \in Nat, Len(users') \in Nat,
           Len(users) <= Len(users')
    PROVE  ControlOK'
<1>1. "idle" \in Steps /\ NoLocals \in Local("idle")
  BY DEF Steps, Local
<1>2. QED
  BY <1>1, MoveType DEF Return

LEMMA LenUsers == TablesOK => Len(users) \in Nat /\ Len(users) \in 0..MaxUsers /\ MaxUsers \in Nat
BY AuthAssumption DEF TablesOK

\* A step of one goroutine that leaves the tables alone.
LEMMA QuietType ==
    ASSUME TypeOK, NEW p \in Reqs, UNCHANGED tables,
           \/ Return(p)
           \/ \E step \in Steps : \E l \in Local(step) :
                 Goto(p, step, l) /\ (step = "sign" => l.user <= Len(users))
    PROVE  TypeOK'
<1>1. users' = users /\ TablesOK /\ TablesOK' /\ ControlOK
  BY TypeParts DEF tables, TablesOK
<1>2. Len(users) \in Nat /\ Len(users') = Len(users) /\ Len(users) <= Len(users)
  BY <1>1, LenUsers
<1>3. CASE Return(p)
  BY <1>1, <1>2, <1>3, ReturnType, TypeParts
<1>4. CASE \E step \in Steps : \E l \in Local(step) :
              Goto(p, step, l) /\ (step = "sign" => l.user <= Len(users))
  <2>1. PICK step \in Steps : \E l \in Local(step) :
                Goto(p, step, l) /\ (step = "sign" => l.user <= Len(users))
    BY <1>4
  <2>2. PICK l \in Local(step) :
                Goto(p, step, l) /\ (step = "sign" => l.user <= Len(users))
    BY <2>1
  <2>3. QED
    BY <1>1, <1>2, <2>2, MoveType, TypeParts
<1>5. QED
  BY <1>3, <1>4

LEMMA NewAccountType ==
    ASSUME NEW username \in Usernames, NEW email \in Emails, NEW r \in Roles
    PROVE  /\ NewAccount(username, email, r) \in Account
           /\ NewAccount(username, email, r).email = Fold[email]
BY AuthAssumption DEF NewAccount, Account

LEMMA AccountSteps ==
    /\ {"email", "username", "create"} \subseteq Steps
    /\ \A step \in {"email", "username", "create"} : Local(step) = Account
BY DEF Steps, Local

LEMMA InitType == Init => TypeOK
BY AuthAssumption DEF Init, TypeOK, Steps, Local

LEMMA RegisterType ==
    ASSUME TypeOK, NEW p \in Reqs, NEW username \in Usernames, NEW email \in Emails,
           Register(p, username, email) \/ BootstrapAdmin(p, username, email)
    PROVE  TypeOK'
<1>1. "player" \in Roles /\ "admin" \in Roles
  BY DEF Roles
<1>2. CASE Register(p, username, email)
  <2>1. NewAccount(username, email, "player") \in Local("create") /\ "create" \in Steps
    BY <1>1, NewAccountType, AccountSteps
  <2>2. QED
    BY <1>2, <2>1, QuietType DEF Register
<1>3. CASE BootstrapAdmin(p, username, email)
  <2>1. NewAccount(username, email, "admin") \in Local("email") /\ "email" \in Steps
    BY <1>1, NewAccountType, AccountSteps
  <2>2. QED
    BY <1>3, <2>1, QuietType DEF BootstrapAdmin
<1>4. QED
  BY <1>2, <1>3

LEMMA CheckType ==
    ASSUME TypeOK, NEW p \in Reqs, CheckEmail(p) \/ CheckUsername(p)
    PROVE  TypeOK'
<1>1. CASE CheckEmail(p)
  <2>1. loc[p] \in Local("username") /\ "username" \in Steps
    BY <1>1, AccountSteps DEF TypeOK, CheckEmail, CheckExisting
  <2>2. QED
    BY <1>1, <2>1, QuietType DEF CheckEmail, CheckExisting
<1>2. CASE CheckUsername(p)
  <2>1. loc[p] \in Local("create") /\ "create" \in Steps
    BY <1>2, AccountSteps DEF TypeOK, CheckUsername, CheckExisting
  <2>2. QED
    BY <1>2, <2>1, QuietType DEF CheckUsername, CheckExisting
<1>3. QED
  BY <1>1, <1>2

\* What the INSERT does to the table.
LEMMA Inserted ==
    ASSUME TypeOK, NEW p \in Reqs, CreateUser(p)
    PROVE  /\ loc[p] \in Account /\ Len(users) \in Nat
           /\ users' \in Seq(Account) /\ Len(users') = Len(users) + 1
           /\ Len(users') <= MaxUsers
           /\ \A u \in 1..Len(users) : users'[u] = users[u]
           /\ users'[Len(users')] = loc[p]
<1>1. loc[p] \in Account
  BY AccountSteps DEF TypeOK, CreateUser
<1>2. users \in Seq(Account) /\ users' = Append(users, loc[p]) /\ Len(users) < MaxUsers
      /\ Len(users) \in Nat /\ MaxUsers \in Nat
  BY AuthAssumption DEF TypeOK, CreateUser
<1> DEFINE new == loc[p]
<1> HIDE DEF new
<1>3. new \in Account /\ users' = Append(users, new)
  BY <1>1, <1>2 DEF new
<1>4. /\ users' \in Seq(Account) /\ Len(users') = Len(users) + 1
      /\ \A u \in 1..Len(users) : users'[u] = users[u]
      /\ users'[Len(users) + 1] = new
  BY <1>2, <1>3
<1>5. QED
  BY <1>2, <1>3, <1>4 DEF new

LEMMA CreateType ==
    ASSUME TypeOK, NEW p \in Reqs, CreateUser(p)
    PROVE  TypeOK'
<1>1. /\ Len(users) \in Nat /\ Len(users') \in 1..MaxUsers /\ Len(users) <= Len(users')
      /\ Len(users') \in Nat /\ MaxUsers \in Nat
  BY Inserted, AuthAssumption
<1>2. TablesOK /\ ControlOK
  BY TypeParts
<1>3. TablesOK'
  <2>1. tokens' = tokens /\ \A tok \in tokens : tok.user \in Nat /\ tok.user <= Len(users)
    BY <1>2 DEF CreateUser, TablesOK, Token
  <2>2. users' \in Seq(Account) /\ Len(users') <= MaxUsers
    BY Inserted
  <2>3. QED
    BY <1>1, <1>2, <2>1, <2>2 DEF TablesOK
<1>4. ControlOK'
  <2>1. CASE loc[p].role = "player"
    <3> DEFINE l == [user |-> Len(users'), role |-> "player"]
    <3>1. l \in Local("sign") /\ l.user <= Len(users') /\ "sign" \in Steps
      BY <1>1 DEF Local, Claims, Roles, Steps
    <3>2. Goto(p, "sign", l)
      BY <2>1 DEF CreateUser
    <3> HIDE DEF l
    <3>3. QED
      BY <1>1, <1>2, <3>1, <3>2, MoveType
  <2>2. CASE loc[p].role # "player"
    <3>1. Return(p)
      BY <2>2 DEF CreateUser
    <3>2. QED
      BY <1>1, <1>2, <3>1, ReturnType
  <2>3. QED
    BY <2>1, <2>2
<1>5. QED
  BY <1>3, <1>4, TypeParts

LEMMA LoginType ==
    ASSUME TypeOK, NEW p \in Reqs, GetUser(p) \/ \E ident \in Idents : Login(p, ident)
    PROVE  TypeOK'
<1>1. ASSUME NEW ident \in Idents, Login(p, ident) PROVE TypeOK'
  <2>1. [ident |-> ident] \in Local("find") /\ "find" \in Steps
    BY DEF Local, Steps
  <2>2. Goto(p, "find", [ident |-> ident]) /\ UNCHANGED tables
    BY <1>1 DEF Login
  <2>3. QED
    BY <2>1, <2>2, QuietType
<1>2. CASE GetUser(p)
  <2>1. ASSUME NEW u \in Matching(loc[p].ident),
               Goto(p, "sign", [user |-> u, role |-> users[u].role])
        PROVE  TypeOK'
    <3> DEFINE l == [user |-> u, role |-> users[u].role]
    <3>1. u \in 1..Len(users) /\ users \in Seq(Account) /\ Len(users) \in 0..MaxUsers
      BY LenUsers, TypeParts DEF Matching, TablesOK
    <3>2. users[u] \in Account /\ u \in 1..MaxUsers /\ u <= Len(users)
      BY <3>1, AuthAssumption
    <3>3. l \in Local("sign") /\ l.user <= Len(users) /\ "sign" \in Steps
      BY <3>2 DEF Local, Claims, Account, Steps
    <3>4. Goto(p, "sign", l) /\ UNCHANGED tables
      BY <1>2, <2>1 DEF GetUser
    <3> HIDE DEF l
    <3>5. QED
      BY <3>3, <3>4, QuietType
  <2>2. QED
    BY <1>2, <2>1, QuietType DEF GetUser
<1>3. QED
  BY <1>1, <1>2

LEMMA IssueType ==
    ASSUME TypeOK, NEW p \in Reqs, IssueToken(p)
    PROVE  TypeOK'
<1>1. TablesOK /\ ControlOK /\ users' = users /\ Len(users) \in Nat
  BY TypeParts, LenUsers DEF IssueToken
<1>2. loc[p] \in Claims /\ loc[p].user <= Len(users)
  BY <1>1, ClaimsUser DEF ControlOK, IssueToken
<1>3. [user |-> loc[p].user, role |-> loc[p].role, left |-> TTL] \in Token
  BY <1>2, AuthAssumption DEF Claims, Token
<1>4. TablesOK'
  BY <1>1, <1>2, <1>3 DEF TablesOK, IssueToken
<1>5. ControlOK'
  BY <1>1, ReturnType DEF IssueToken
<1>6. QED
  BY <1>4, <1>5, TypeParts

\* What the UPDATE does to the table.
LEMMA Updated ==
    ASSUME TypeOK, NEW p \in Reqs, UpdateUser(p)
    PROVE  /\ users' \in Seq(Account) /\ Len(users') = Len(users)
           /\ \A u \in 1..Len(users) : users'[u].email = users[u].email
<1>1. loc[p] \in Update /\ users \in Seq(Account)
  BY DEF TypeOK, UpdateUser, Local
<1>2. CASE loc[p].user <= Len(users) /\ loc[p].role \in Roles
  <2> DEFINE v   == loc[p].user
             new == [users[v] EXCEPT !.role = loc[p].role, !.active = loc[p].active]
  <2>1. v \in 1..Len(users) /\ loc[p].active \in BOOLEAN
    BY <1>1, <1>2, AuthAssumption DEF Update
  <2>2. users[v] \in Account
    BY <1>1, <2>1
  <2>3. new \in Account /\ new.email = users[v].email
    BY <1>2, <2>1, <2>2 DEF Account
  <2>4. users' = [users EXCEPT ![v] = new]
    BY <1>1, <1>2, <2>1 DEF UpdateUser
  <2> HIDE DEF v, new
  <2>5. users' \in Seq(Account) /\ Len(users') = Len(users)
    BY <1>1, <2>1, <2>3, <2>4
  <2>6. \A u \in 1..Len(users) : users'[u] = IF u = v THEN new ELSE users[u]
    BY <1>1, <2>1, <2>4
  <2>7. QED
    BY <2>3, <2>5, <2>6
<1>3. CASE ~(loc[p].user <= Len(users) /\ loc[p].role \in Roles)
  BY <1>1, <1>3 DEF UpdateUser
<1>4. QED
  BY <1>2, <1>3

LEMMA UpdateType ==
    ASSUME TypeOK, NEW p \in Reqs, UpdateUser(p) \/ \E update \in Update : AdminUpdateUser(p, update)
    PROVE  TypeOK'
<1>1. ASSUME NEW update \in Update, AdminUpdateUser(p, update) PROVE TypeOK'
  <2>1. update \in Local("update") /\ "update" \in Steps
    BY DEF Local, Steps
  <2>2. QED
    BY <1>1, <2>1, QuietType DEF AdminUpdateUser
<1>2. CASE UpdateUser(p)
  <2>1. TablesOK /\ ControlOK /\ Len(users) \in Nat /\ tokens' = tokens /\ Return(p)
    BY <1>2, TypeParts, LenUsers DEF UpdateUser
  <2>2. users' \in Seq(Account) /\ Len(users') = Len(users)
    BY <1>2, Updated
  <2>3. TablesOK'
    BY <2>1, <2>2 DEF TablesOK
  <2>4. ControlOK'
    BY <2>1, <2>2, ReturnType
  <2>5. QED
    BY <2>3, <2>4, TypeParts
<1>3. QED
  BY <1>1, <1>2

LEMMA TickType == ASSUME TypeOK, Tick PROVE TypeOK'
<1>1. ASSUME NEW tok \in tokens, tok.left > 1
      PROVE  /\ [tok EXCEPT !.left = @ - 1] \in Token
             /\ [tok EXCEPT !.left = @ - 1].user <= Len(users)
  <2>1. tok \in Token /\ tok.user <= Len(users) /\ TTL \in Nat
    BY AuthAssumption DEF TypeOK
  <2>2. QED
    BY <1>1, <2>1 DEF Token
<1>2. TablesOK'
  BY <1>1, TypeParts DEF TablesOK, Tick
<1>3. ControlOK'
  BY TypeParts DEF ControlOK, Tick
<1>4. QED
  BY <1>2, <1>3, TypeParts

LEMMA ContinueType == ASSUME TypeOK, NEW p \in Reqs, Continue(p) PROVE TypeOK'
<1>1. CASE CreateRefused(p)
  BY <1>1, QuietType DEF CreateRefused
<1>2. QED
  BY <1>1, CheckType, CreateType, LoginType, IssueType, UpdateType DEF Continue

LEMMA StepType == TypeOK /\ [Next]_vars => TypeOK'
<1> SUFFICES ASSUME TypeOK, [Next]_vars PROVE TypeOK'
  OBVIOUS
<1>1. ASSUME NEW p \in Reqs, NEW username \in Usernames, NEW email \in Emails,
             Register(p, username, email) \/ BootstrapAdmin(p, username, email)
      PROVE  TypeOK'
  BY <1>1, RegisterType
<1>2. ASSUME NEW p \in Reqs, NEW ident \in Idents, Login(p, ident) PROVE TypeOK'
  BY <1>2, LoginType
<1>3. ASSUME NEW p \in Reqs, NEW update \in Update, AdminUpdateUser(p, update) PROVE TypeOK'
  BY <1>3, UpdateType
<1>4. ASSUME NEW p \in Reqs, Fails(p) PROVE TypeOK'
  BY <1>4, QuietType DEF Fails
<1>5. CASE UNCHANGED vars
  BY <1>5 DEF vars, TypeOK
<1>6. QED
  BY <1>1, <1>2, <1>3, <1>4, <1>5, ContinueType, TickType DEF Next

\* Every variable keeps its type: in particular the claims that IssueToken signs
\* and the tokens of Verify name an account that exists.
THEOREM TypeCorrect == Spec => []TypeOK
BY InitType, StepType, PTL DEF Spec

-----------------------------------------------------------------------------
(* E-mail addresses.                                                        *)

\* Why EmailsDistinct holds: whatever is stored, or about to be, is folded.
\* Without the second conjunct the first is lost at the INSERT, and without the
\* first the UNIQUE constraint says nothing of addresses that differ in case.
Folded ==
    /\ \A u \in 1..Len(users) : Fold[users[u].email] = users[u].email
    /\ \A p \in Reqs : pc[p] \in {"email", "username", "create"} =>
          Fold[loc[p].email] = loc[p].email

IInv == TypeOK /\ Folded /\ EmailsDistinct

LEMMA InitInv == Init => IInv
BY InitType DEF Init, IInv, Folded, EmailsDistinct

\* A step that adds no account keeps both, if it only passes on what it had.
LEMMA QuietFolded ==
    ASSUME IInv, NEW p \in Reqs, NEW step, NEW l, Goto(p, step, l),
           Len(users') = Len(users),
           \A u \in 1..Len(users) : users'[u].email = users[u].email,
           step \in {"email", "username", "create"} => Fold[l.email] = l.email
    PROVE  Folded' /\ EmailsDistinct'
<1>1. \A q \in Reqs : /\ pc'[q] = IF q = p THEN step ELSE pc[q]
                      /\ loc'[q] = IF q = p THEN l ELSE loc[q]
  BY DEF IInv, TypeOK, Goto
<1>2. QED
  BY <1>1 DEF IInv, Folded, EmailsDistinct

LEMMA ReturnFolded ==
    ASSUME IInv, NEW p \in Reqs, Return(p), Len(users') = Len(users),
           \A u \in 1..Len(users) : users'[u].email = users[u].email
    PROVE  Folded' /\ EmailsDistinct'
BY QuietFolded DEF Return

LEMMA RegisterFolded ==
    ASSUME IInv, NEW p \in Reqs, NEW username \in Usernames, NEW email \in Emails,
           Register(p, username, email) \/ BootstrapAdmin(p, username, email)
    PROVE  Folded' /\ EmailsDistinct'
<1>1. users' = users
  BY DEF Register, BootstrapAdmin, tables
<1>2. \/ Goto(p, "create", NewAccount(username, email, "player"))
      \/ Goto(p, "email", NewAccount(username, email, "admin"))
  BY DEF Register, BootstrapAdmin
<1>3. ASSUME NEW r \in {"player", "admin"}, NEW l, l = NewAccount(username, email, r)
      PROVE  Fold[l.email] = l.email
  BY <1>3, NewAccountType, AuthAssumption DEF Roles, Idents
<1>4. QED
  BY <1>1, <1>2, <1>3, QuietFolded

LEMMA CheckFolded ==
    ASSUME IInv, NEW p \in Reqs, CheckEmail(p) \/ CheckUsername(p)
    PROVE  Folded' /\ EmailsDistinct'
<1>1. users' = users /\ pc[p] \in {"email", "username", "create"}
  BY DEF CheckEmail, CheckUsername, CheckExisting, tables
<1>2. Fold[loc[p].email] = loc[p].email
  BY <1>1 DEF IInv, Folded
<1>3. Return(p) \/ \E step : Goto(p, step, loc[p])
  BY DEF CheckEmail, CheckUsername, CheckExisting
<1>4. QED
  BY <1>1, <1>2, <1>3, QuietFolded, ReturnFolded

LEMMA CreateFolded ==
    ASSUME IInv, NEW p \in Reqs, CreateUser(p)
    PROVE  Folded' /\ EmailsDistinct'
<1>1. TypeOK /\ Folded /\ EmailsDistinct /\ pc[p] = "create"
  BY DEF IInv, CreateUser
<1>2. /\ Len(users) \in Nat /\ Len(users') = Len(users) + 1
      /\ \A u \in 1..Len(users) : users'[u] = users[u]
      /\ users'[Len(users) + 1] = loc[p]
  BY <1>1, Inserted
<1>3. \A u \in 1..Len(users') : u \in 1..Len(users) \/ u = Len(users) + 1
  BY <1>2
<1>4. Fold[loc[p].email] = loc[p].email
  BY <1>1 DEF Folded
<1>5. \A u \in 1..Len(users) : Fold[users[u].email] # loc[p].email
  BY <1>1 DEF Folded, CreateUser, Taken
<1>6. \A u \in 1..Len(users') : Fold[users'[u].email] = users'[u].email
  BY <1>1, <1>2, <1>3, <1>4 DEF Folded
<1>7. EmailsDistinct'
  BY <1>1, <1>2, <1>3, <1>4, <1>5 DEF EmailsDistinct
<1>8. \E step, l : Goto(p, step, l) /\ step \in {"sign", "idle"}
  BY DEF CreateUser, Return
<1>9. \A q \in Reqs : pc'[q] \in {"email", "username", "create"} =>
                         pc'[q] = pc[q] /\ loc'[q] = loc[q]
  BY <1>1, <1>8 DEF TypeOK, Goto
<1>10. QED
  BY <1>1, <1>6, <1>7, <1>9 DEF Folded

LEMMA ContinueFolded ==
    ASSUME IInv, NEW p \in Reqs, Continue(p)
    PROVE  Folded' /\ EmailsDistinct'
<1>1. CASE CheckEmail(p) \/ CheckUsername(p)
  BY <1>1, CheckFolded
<1>2. CASE CreateUser(p)
  BY <1>2, CreateFolded
<1>3. CASE CreateRefused(p)
  BY <1>3, ReturnFolded DEF CreateRefused, tables
<1>4. CASE GetUser(p)
  <2>1. users' = users /\ (Return(p) \/ \E l : Goto(p, "sign", l))
    BY <1>4 DEF GetUser, tables
  <2>2. QED
    BY <2>1, QuietFolded, ReturnFolded
<1>5. CASE IssueToken(p)
  BY <1>5, ReturnFolded DEF IssueToken
<1>6. CASE UpdateUser(p)
  <2>1. TypeOK /\ Return(p)
    BY <1>6 DEF IInv, UpdateUser
  <2>2. QED
    BY <1>6, <2>1, Updated, ReturnFolded
<1>7. QED
  BY <1>1, <1>2, <1>3, <1>4, <1>5, <1>6 DEF Continue

LEMMA StepFolded == IInv /\ [Next]_vars => Folded' /\ EmailsDistinct'
<1> SUFFICES ASSUME IInv, [Next]_vars PROVE Folded' /\ EmailsDistinct'
  OBVIOUS
<1>1. ASSUME NEW p \in Reqs, NEW username \in Usernames, NEW email \in Emails,
             Register(p, username, email) \/ BootstrapAdmin(p, username, email)
      PROVE  Folded' /\ EmailsDistinct'
  BY <1>1, RegisterFolded
<1>2. ASSUME NEW p \in Reqs, NEW ident \in Idents, Login(p, ident)
      PROVE  Folded' /\ EmailsDistinct'
  BY <1>2, QuietFolded DEF Login, tables
<1>3. ASSUME NEW p \in Reqs, NEW update \in Update, AdminUpdateUser(p, update)
      PROVE  Folded' /\ EmailsDistinct'
  BY <1>3, QuietFolded DEF AdminUpdateUser, tables
<1>4. ASSUME NEW p \in Reqs, Fails(p) PROVE Folded' /\ EmailsDistinct'
  BY <1>4, ReturnFolded DEF Fails, tables
<1>5. CASE Tick \/ UNCHANGED vars
  BY <1>5 DEF Tick, vars, IInv, Folded, EmailsDistinct
<1>6. QED
  BY <1>1, <1>2, <1>3, <1>4, <1>5, ContinueFolded DEF Next

\* No two accounts have the same e-mail address up to case, although the UNIQUE
\* constraint of the users table compares with regard to case and the commands
\* that create accounts interleave in any way.
THEOREM EmailsStayDistinct == Spec => []EmailsDistinct
<1>1. IInv /\ [Next]_vars => IInv'
  BY StepType, StepFolded DEF IInv
<1>2. IInv => EmailsDistinct
  BY DEF IInv
<1>3. QED
  BY InitInv, <1>1, <1>2, PTL DEF Spec

=============================================================================
