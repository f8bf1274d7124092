----------------------------- MODULE AuthSession -----------------------------
(* Accounts and tokens: auth.Service with store.UserRepository, the command  *)
(* bootstrap-admin, and the administrator's UpdateUser.  A token carries the *)
(* role of its user from the moment the account was read, and is trusted     *)
(* until it expires, whatever becomes of the account.                        *)
(*                                                                           *)
(* A password is right or wrong.  A token is kept with the ticks it has left *)
(* and is gone when it has none.  last_login_at decides nothing, and whether *)
(* the contest or a limiter admits a request only withholds it.              *)
EXTENDS Naturals, Sequences, Permissions

CONSTANTS
    Usernames,  \* what people type as user name, trimmed
    Emails,     \* what people type as e-mail address, trimmed
    Fold,       \* Fold[text]: the text in lower case
    Given,      \* the roles that administrators name in an update
    Reqs,       \* request goroutines, and commands
    TTL,        \* ticks a token lives
    MaxUsers    \* bound: accounts ever created

Idents == Usernames \cup Emails

ASSUME AuthAssumption ==
    /\ Fold \in [Idents -> Idents] /\ \A text \in Idents : Fold[Fold[text]] = Fold[text]
    /\ \A text \in Emails : Fold[text] \in Emails
    /\ TTL \in Nat \ {0} /\ MaxUsers \in Nat

VARIABLES
    users,    \* the users table, in the order of the ids
    tokens,   \* the tokens that were handed out and have not expired
    pc,       \* pc[p]: the next step of goroutine p
    loc       \* loc[p]: its local variables

vars == <<users, tokens, pc, loc>>
tables == <<users, tokens>>

Account == [username : Usernames, email : Emails, role : Roles, active : BOOLEAN]
Claims  == [user : 1..MaxUsers, role : Roles]
Token   == [user : 1..MaxUsers, role : Roles, left : 1..TTL]
Update  == [user : 1..MaxUsers, role : Given, active : BOOLEAN]

Steps == {"idle", "email", "username", "create", "find", "sign", "update"}

NoLocals == [user |-> 0]

\* The locals of a goroutine before each step.
Local(step) ==
    CASE step \in {"email", "username", "create"} -> Account
      [] step = "find"   -> [ident : Idents]
      [] step = "sign"   -> Claims
      [] step = "update" -> Update
      [] OTHER           -> {NoLocals}

Init ==
    /\ users = <<>> /\ tokens = {}
    /\ pc = [p \in Reqs |-> "idle"]
    /\ loc = [p \in Reqs |-> NoLocals]

-----------------------------------------------------------------------------
Goto(p, step, locals) ==
    /\ pc' = [pc EXCEPT ![p] = step]
    /\ loc' = [loc EXCEPT ![p] = locals]

Return(p) == Goto(p, "idle", NoLocals)

\* GetUserByIdentifier compares both columns without regard to case.
Matching(ident) ==
    {u \in 1..Len(users) : Fold[ident] \in {Fold[users[u].username], Fold[users[u].email]}}

\* Fault: the address is stored as it was typed.
NewAccountAsTyped(username, email, r) ==
    [username |-> username, email |-> email, role |-> r, active |-> TRUE]

NewAccount(username, email, r) ==
    [username |-> username, email |-> Fold[email], role |-> r, active |-> TRUE]

\* handleRegister, when the phase of the contest and the limiter let it.
Register(p, username, email) ==
    /\ pc[p] = "idle"
    /\ Goto(p, "create", NewAccount(username, email, "player"))
    /\ UNCHANGED tables

BootstrapAdmin(p, username, email) ==
    /\ pc[p] = "idle"
    /\ Goto(p, "email", NewAccount(username, email, "admin"))
    /\ UNCHANGED tables

\* The command ends when one of its two lookups finds an account.
CheckExisting(p, step, ident, next) ==
    /\ pc[p] = step
    /\ IF Matching(ident) = {} THEN Goto(p, next, loc[p]) ELSE Return(p)
    /\ UNCHANGED tables

CheckEmail(p)    == CheckExisting(p, "email", loc[p].email, "username")
CheckUsername(p) == CheckExisting(p, "username", loc[p].username, "create")

\* The unique constraints compare with regard to case.
Taken(account) ==
    \E u \in 1..Len(users) :
       users[u].username = account.username \/ users[u].email = account.email

\* A player is signed in at once; the command ends.
CreateUser(p) ==
    /\ pc[p] = "create" /\ ~Taken(loc[p]) /\ Len(users) < MaxUsers
    /\ users' = Append(users, loc[p])
    /\ IF loc[p].role = "player"
       THEN Goto(p, "sign", [user |-> Len(users'), role |-> "player"]) ELSE Return(p)
    /\ UNCHANGED tokens

CreateRefused(p) ==
    /\ pc[p] = "create" /\ Taken(loc[p])
    /\ Return(p) /\ UNCHANGED tables

Login(p, ident) ==
    /\ pc[p] = "idle" /\ Goto(p, "find", [ident |-> ident])
    /\ UNCHANGED tables

\* Fault: Login forgets the status.
GetUserOfAnyStatus(p) ==
    /\ pc[p] = "find"
    /\ \/ \E u \in Matching(loc[p].ident) : Goto(p, "sign", [user |-> u, role |-> users[u].role])
       \/ Return(p)
    /\ UNCHANGED tables

\* LIMIT 1 picks one of the accounts that match; it must be active and the
\* password must be its own.
GetUser(p) ==
    /\ pc[p] = "find"
    /\ \/ \E u \in Matching(loc[p].ident) :
            users[u].active /\ Goto(p, "sign", [user |-> u, role |-> users[u].role])
       \/ Return(p)
    /\ UNCHANGED tables

\* issueToken, after UpdateLastLogin, whose error is ignored.
IssueToken(p) ==
    /\ pc[p] = "sign" /\ Return(p)
    /\ tokens' = tokens \cup {[user |-> loc[p].user, role |-> loc[p].role, left |-> TTL]}
    /\ UNCHANGED users

\* Verify, and requirePermission with the role of the token.
Authorized(permission) == \E tok \in tokens : permission \in Granted(tok.role)

AdminUpdateUser(p, update) ==
    /\ pc[p] = "idle" /\ Authorized("user:write")
    /\ Goto(p, "update", update)
    /\ UNCHANGED tables

\* Fault: the role is written without the join with roles.
UpdateUserAnyRole(p) ==
    /\ pc[p] = "update" /\ Return(p)
    /\ LET u == loc[p].user
       IN IF u <= Len(users)
          THEN users' = [users EXCEPT ![u].role = loc[p].role, ![u].active = loc[p].active]
          ELSE UNCHANGED users
    /\ UNCHANGED tokens

\* No row is updated when the user or the role does not exist.
UpdateUser(p) ==
    /\ pc[p] = "update" /\ Return(p)
    /\ LET u == loc[p].user
       IN IF u <= Len(users) /\ loc[p].role \in Roles
          THEN users' = [users EXCEPT ![u].role = loc[p].role, ![u].active = loc[p].active]
          ELSE UNCHANGED users
    /\ UNCHANGED tokens

-----------------------------------------------------------------------------
\* A statement fails, or the process dies: what was committed stays.
Fails(p) ==
    /\ pc[p] # "idle" /\ Return(p)
    /\ UNCHANGED tables

\* The token is refused from the second of its exp on.
Tick ==
    /\ tokens' = {[tok EXCEPT !.left = @ - 1] : tok \in {t \in tokens : t.left > 1}}
    /\ UNCHANGED <<users, pc, loc>>

Continue(p) ==
    \/ CheckEmail(p) \/ CheckUsername(p) \/ CreateUser(p) \/ CreateRefused(p)
    \/ GetUser(p) \/ IssueToken(p) \/ UpdateUser(p)

Next ==
    \/ \E p \in Reqs, username \in Usernames, email \in Emails :
          Register(p, username, email) \/ BootstrapAdmin(p, username, email)
    \/ \E p \in Reqs, ident \in Idents : Login(p, ident)
    \/ \E p \in Reqs, update \in Update : AdminUpdateUser(p, update)
    \/ \E p \in Reqs : Continue(p) \/ Fails(p)
    \/ Tick

Spec == Init /\ [][Next]_vars

\* Time passes, and a handler that has begun comes to its end.
FairSpec == Spec /\ WF_vars(Tick) /\ \A p \in Reqs : WF_vars(Continue(p) \/ Fails(p))

-----------------------------------------------------------------------------
\* Every variable has its type, a goroutine has the locals its next step reads,
\* and claims and tokens are of accounts that exist.
TypeOK ==
    /\ users \in Seq(Account) /\ Len(users) <= MaxUsers
    /\ tokens \subseteq Token /\ \A tok \in tokens : tok.user <= Len(users)
    /\ pc \in [Reqs -> Steps] /\ DOMAIN loc = Reqs
    /\ \A p \in Reqs :
         /\ loc[p] \in Local(pc[p])
         /\ pc[p] = "sign" => loc[p].user <= Len(users)

\* No two accounts have the same e-mail address up to case.  GetUserByIdentifier
\* ignores case and the UNIQUE constraint does not: it is the folding in each
\* command that creates accounts that keeps a login by e-mail address, and the
\* refusal of bootstrap-admin, about one account.
EmailsDistinct ==
    \A u, v \in 1..Len(users) : Fold[users[u].email] = Fold[users[v].email] => u = v

\* A change of role or status takes effect: once an account keeps a role, in the
\* end no valid token of it carries another, and once it stays disabled, no
\* token of it is valid.  Nothing revokes a token, and a login that read the
\* account earlier still hands one out: only expiry, and the check of the status
\* in each new login, bring this about.
UpdatesTakeEffect ==
    \A u \in 1..MaxUsers :
      /\ \A r \in Roles :
           <>[](u <= Len(users) /\ users[u].role = r)
              => <>[](\A tok \in tokens : tok.user = u => tok.role = r)
      /\ <>[](u <= Len(users) /\ ~users[u].active)
              => <>[](\A tok \in tokens : tok.user # u)

=============================================================================
