------------------------- MODULE ChallengeAdminProofs -------------------------
(* Authors write only what was theirs, only staff is bound to challenges,    *)
(* replacements of authors leave nobody whom nobody asked for, and the audit *)
(* log is true and complete: for any number of users, challenges, requests,  *)
(* commands and failures.                                                    *)
EXTENDS ChallengeAdmin, ChallengeTemplateProofs, SequenceTheorems, TLAPS

(* Types.                                                                    *)

Actions  == {"none", "create", "update", "authors", "user", "announcement", "contest", "import"}
RowOf(S) == {s.row : s \in S}
Statuses == {r.status : r \in RowOf(Specs)} \cup {"none"}

\* An audit entry.
Change == [action : Actions, chal : Chals \cup {"none"}, from : Statuses,
           to : Statuses \cup Roles, users : SUBSET Users]

\* The locals of a goroutine.
Local == [user : Users \cup {"none"}, role : Roles \cup {"none"}, entry : Change,
          check : SUBSET Users, spec : Specs \cup {NoSpec}, files : Nat, done : SUBSET Chals,
          bind : Seq(Users), old : SUBSET Users, new : SUBSET Users,
          asked : {file.asked : file \in Files} \cup Inputs \cup {NoSpec},
          owned : BOOLEAN, since : SUBSET Users]

Tables ==
    /\ role \in [Users -> Roles] /\ held \in [Users -> SUBSET Roles]
    /\ \A u \in Users : role[u] \in RolesOf[u] /\ role[u] \in held[u] /\ held[u] \subseteq RolesOf[u]
    /\ row \in [Chals -> RowOf(Specs) \cup {NoRow}]
    /\ config \in [Chals -> {s.config : s \in Specs} \cup {NoConfig}]
    /\ \A c \in Chals : config[c] # NoConfig => Exists(c)
    /\ authors \subseteq {c \in Chals : Exists(c)} \X Users
    /\ audit \subseteq Change /\ commits \subseteq Change
    /\ begun \in 0..MaxRequests /\ faults \in 0..MaxFaults
    /\ pc \in [Adms -> Steps] /\ loc \in [Adms -> Local]

-----------------------------------------------------------------------------
(* The inductive invariant.                                                  *)

\* The statements of each kind of request.
Runs(action, step) ==
    \/ action = "none"         /\ step = "idle"
    \/ action = "create"       /\ step \in {"create", "audit"}
    \/ action = "update"       /\ step \in {"read", "update", "lock", "commit", "audit"}
    \/ action = "authors"      /\ step \in {"check", "clear", "delete", "bind", "commit", "audit"}
    \/ action = "user"         /\ step \in {"user", "audit"}
    \/ action = "announcement" /\ step \in {"announce", "audit"}
    \/ action = "contest"      /\ step = "contest"
    \/ action = "import"       /\ step \in {"load", "upsert", "clear", "delete", "bind", "commit", "audit"}

\* The users that the replacement asks for.
AskedOf(l) == IF l.entry.action = "import" THEN Range(Resolved(l.spec.owners)) ELSE l.entry.users

\* What the locals are at each step: who asks, for which challenge, and what.
Shape(step, l) ==
    LET action == l.entry.action IN
    /\ Runs(action, step)
    /\ step = "idle" => l = NoLoc
    /\ step \notin {"idle", "user", "announce", "contest", "load", "audit"} => l.entry.chal \in Chals
    /\ action \in {"create", "update", "authors"} => l.entry.chal \in Chals
    /\ step \in {"create", "read", "update", "lock", "upsert"} => l.spec \in Specs
    /\ action = "import" /\ step \notin {"load", "audit"} => l.spec \in Specs
    /\ action = "update" /\ step # "audit" => l.spec \in Specs /\ l.spec.owners = <<>>
    /\ l.role = "author" => l.user \in Users
    /\ action \in {"authors", "import"} => l.role # "author"
    /\ action = "import" => l.entry.from = "none" /\ l.entry.to = "none" /\ l.entry.users = {}
    /\ step = "user" => \A u \in l.entry.users : l.entry.to \in RolesOf[u] \cap Roles
    /\ step \in {"clear", "delete", "bind"} /\ action = "authors" => l.check = {}
    /\ step \notin {"bind", "commit"} => l.new = {}
    /\ \/ action = "authors" /\ step # "audit"
       \/ action = "import" /\ step \in {"clear", "delete", "bind", "commit"}
       => l.new \cup Range(l.bind) \subseteq AskedOf(l)

\* The same but for the previous status.
Same(change, e) == [change EXCEPT !.from = e.from] = e

ImportEntry(c) == [NoChange EXCEPT !.action = "import", !.chal = c]

\* The step has the bindings that it replaces.
Replacing(step, l) ==
    \/ step \in {"delete", "bind"}
    \/ step = "commit" /\ (l.entry.action = "authors" \/ l.spec.owners # <<>>)

\* How the locals go with the tables.
Truthful(step, l) ==
    LET action == l.entry.action
        c      == l.entry.chal IN
    /\ action \in {"update", "authors"} => Exists(c)
    /\ step \in {"read", "update"} /\ <<c, l.user>> \in authors => l.owned
    /\ step \in {"lock", "commit"} /\ l.role = "author" => l.owned
    /\ step \in {"clear", "delete", "bind"} => \A u \in l.entry.users : held[u] \cap Staff # {}
    /\ step = "check" => \A u \in l.entry.users \ l.check : held[u] \cap Staff # {}
    /\ Replacing(step, l) => \A u \in Users : <<c, u>> \in authors => u \in l.old \cup l.since
    /\ action = "import" => \A d \in l.done : \E change \in commits : Same(change, ImportEntry(d))
    /\ action # "import" /\ step = "audit" => \E change \in commits : Same(change, l.entry)

IInv ==
    /\ Tables
    /\ \A p \in Adms : Shape(pc[p], loc[p]) /\ Truthful(pc[p], loc[p])
    /\ AuditIsTrue /\ ChangesAudited

-----------------------------------------------------------------------------
(* Types.                                                                    *)

LEMMA NoChangeTyped ==
    /\ NoChange \in Change /\ NoChange.action = "none" /\ NoChange.chal = "none"
    /\ NoChange.from = "none" /\ NoChange.to = "none" /\ NoChange.users = {}
  BY DEF NoChange, Change, Actions, Statuses

LEMMA EmptySequence == <<>> \in Seq(Users) /\ Range(<<>>) = {}
  BY DEF Range

LEMMA NoLocTyped ==
    /\ NoLoc \in Local
    /\ NoLoc.user = "none" /\ NoLoc.role = "none" /\ NoLoc.entry = NoChange /\ NoLoc.check = {}
    /\ NoLoc.spec = NoSpec /\ NoLoc.files = 0 /\ NoLoc.done = {} /\ NoLoc.bind = <<>>
    /\ NoLoc.old = {} /\ NoLoc.new = {} /\ NoLoc.asked = NoSpec /\ NoLoc.owned = FALSE
    /\ NoLoc.since = {}
  BY NoChangeTyped, EmptySequence DEF NoLoc, Local

LEMMA Fields ==
    ASSUME NEW l \in Local
    PROVE  /\ l.user \in Users \cup {"none"} /\ l.role \in Roles \cup {"none"} /\ l.entry \in Change
           /\ l.check \subseteq Users /\ l.spec \in Specs \cup {NoSpec} /\ l.files \in Nat
           /\ l.done \subseteq Chals /\ l.bind \in Seq(Users) /\ l.old \subseteq Users
           /\ l.new \subseteq Users /\ l.owned \in BOOLEAN /\ l.since \subseteq Users
           /\ l.asked \in {file.asked : file \in Files} \cup Inputs \cup {NoSpec}
           /\ l.entry.action \in Actions /\ l.entry.chal \in Chals \cup {"none"}
           /\ l.entry.from \in Statuses /\ l.entry.to \in Statuses \cup Roles
           /\ l.entry.users \subseteq Users
  BY DEF Local, Change

LEMMA StepTyped ==
    ASSUME NEW action, NEW step, Runs(action, step)
    PROVE  step \in Steps
  BY DEF Runs, Steps

LEMMA TypeOKHolds == IInv => TypeOK
  <1>. SUFFICES ASSUME IInv
                PROVE  TypeOK
    OBVIOUS
  <1>1. ASSUME NEW p \in Adms
        PROVE  DOMAIN loc[p] = DOMAIN NoLoc /\ (pc[p] = "idle" <=> loc[p] = NoLoc)
    <2>1. loc[p] \in Local /\ Shape(pc[p], loc[p])
      BY DEF IInv, Tables
    <2>2. DOMAIN loc[p] = DOMAIN NoLoc
      BY <2>1, NoLocTyped DEF Local
    <2>3. pc[p] = "idle" => loc[p] = NoLoc
      BY <2>1 DEF Shape
    <2>4. loc[p] = NoLoc => pc[p] = "idle"
      BY <2>1, NoLocTyped, NoChangeTyped DEF Shape, Runs
    <2>. QED  BY <2>2, <2>3, <2>4
  <1>2. \A e \in audit \cup commits : DOMAIN e = DOMAIN NoChange
    BY NoChangeTyped DEF IInv, Tables, Change
  <1>3. pc \in [Adms -> Steps]
    BY DEF IInv, Tables
  <1>. QED  BY <1>1, <1>2, <1>3 DEF IInv, Tables, TypeOK, RowOf

-----------------------------------------------------------------------------
(* The sequences of users to bind.                                           *)

LEMMA Dequeue ==
    ASSUME NEW s \in Seq(Users), s # <<>>
    PROVE  /\ Head(s) \in Users /\ Head(s) \in Range(s)
           /\ Tail(s) \in Seq(Users) /\ Range(Tail(s)) \subseteq Range(s)
  <1>1. /\ Head(s) \in Users /\ Tail(s) \in Seq(Users) /\ Len(s) \in Nat /\ Len(s) # 0
        /\ Len(Tail(s)) = Len(s) - 1 /\ Head(s) = s[1]
        /\ \A i \in 1..Len(Tail(s)) : Tail(s)[i] = s[i + 1]
    BY HeadTailProperties, EmptySeq
  <1>2. DOMAIN s = 1..Len(s) /\ DOMAIN Tail(s) = 1..Len(Tail(s))
    BY <1>1
  <1>3. Head(s) \in Range(s)
    BY <1>1, <1>2 DEF Range
  <1>4. Range(Tail(s)) \subseteq Range(s)
    BY <1>1, <1>2 DEF Range
  <1>. QED  BY <1>1, <1>3, <1>4

LEMMA ResolvedTyped ==
    ASSUME NEW refs
    PROVE  Resolved(refs) \in Seq(Users)
  <1>. DEFINE found(i) == IF i \in DOMAIN refs /\ refs[i] \in DOMAIN Accounts
                          THEN <<Accounts[refs[i]]>> ELSE <<>>
  <1>1. ASSUME NEW i
        PROVE  found(i) \in Seq(Users)
    <2>1. refs[i] \in DOMAIN Accounts => Accounts[refs[i]] \in Users
      BY AdminAssumption DEF Range
    <2>. QED  BY <2>1
  <1>. HIDE DEF found
  <1>2. found(1) \o found(2) \in Seq(Users)
    BY <1>1
  <1>3. Resolved(refs) = IF found(1) = found(2) THEN found(1) ELSE found(1) \o found(2)
    BY DEF Resolved, found
  <1>. QED  BY <1>1, <1>2, <1>3

LEMMA ListTyped ==
    ASSUME NEW list \in Lists
    PROVE  list \in Seq(Users) /\ Range(list) \subseteq Users
  <1>1. PICK n \in 0..Cardinality(Users) : list \in [1..n -> Users]
    BY DEF Lists
  <1>2. n \in Nat
    OBVIOUS
  <1>3. list \in Seq(Users)
    BY <1>1, <1>2
  <1>. QED  BY <1>1, <1>3 DEF Range

-----------------------------------------------------------------------------
(* Steps of one goroutine that leave the tables and the log alone.           *)

LEMMA TruthfulKept ==
    ASSUME NEW step, NEW l, Truthful(step, l), UNCHANGED <<row, authors, held, commits>>
    PROVE  Truthful(step, l)'
  BY DEF Truthful, Exists

LEMMA OtherAuditors ==
    ASSUME ChangesAudited, UNCHANGED <<audit, commits>>, faults' \in Nat, faults \in Nat,
           faults' = 0 => faults = 0,
           faults' = 0 => \A q \in Adms : pc[q] = "audit" => pc'[q] = "audit" /\ loc'[q] = loc[q]
    PROVE  ChangesAudited'
  BY DEF ChangesAudited, Audited

LEMMA QuietStep ==
    ASSUME IInv, NEW p \in Adms, NEW step, NEW l \in Local,
           pc' = [pc EXCEPT ![p] = step], loc' = [loc EXCEPT ![p] = l],
           UNCHANGED tables, UNCHANGED <<audit, commits>>,
           begun' \in 0..MaxRequests, faults' \in 0..MaxFaults, faults' = 0 => faults = 0,
           pc[p] = "audit" => faults' # 0,
           Shape(step, l), Truthful(step, l)
    PROVE  IInv'
  <1>1. step \in Steps
    BY StepTyped DEF Shape
  <1>2. Tables'
    BY <1>1 DEF IInv, Tables, tables, Exists
  <1>3. \A q \in Adms : IF q = p THEN pc'[q] = step /\ loc'[q] = l
                                 ELSE pc'[q] = pc[q] /\ loc'[q] = loc[q]
    BY DEF IInv, Tables
  <1>4. ASSUME NEW q \in Adms
        PROVE  (Shape(pc[q], loc[q]) /\ Truthful(pc[q], loc[q]))'
    <2>1. PICK s, m : s = pc'[q] /\ m = loc'[q]
      OBVIOUS
    <2>2. Shape(s, m) /\ Truthful(s, m)
      BY <1>3, <2>1 DEF IInv
    <2>3. Truthful(s, m)'
      BY <2>2, TruthfulKept DEF tables
    <2>. QED  BY <2>1, <2>2, <2>3
  <1>5. AuditIsTrue'
    BY DEF IInv, AuditIsTrue
  <1>6. faults' \in Nat /\ faults \in Nat
    BY AdminAssumption DEF IInv, Tables
  <1>7. ChangesAudited'
    BY <1>3, <1>6, OtherAuditors DEF IInv
  <1>. QED  BY <1>2, <1>4, <1>5, <1>7 DEF IInv

LEMMA Idle == Shape("idle", NoLoc) /\ Truthful("idle", NoLoc)
  <1>1. Shape("idle", NoLoc)
    BY NoLocTyped, NoChangeTyped DEF Shape, Runs
  <1>2. Truthful("idle", NoLoc)
    BY NoLocTyped, NoChangeTyped DEF Truthful, Replacing
  <1>. QED  BY <1>1, <1>2

LEMMA ReturnKeeps ==
    ASSUME IInv, NEW p \in Adms, Return(p), UNCHANGED tables, UNCHANGED <<audit, commits, begun>>,
           faults' \in 0..MaxFaults, faults' = 0 => faults = 0, pc[p] = "audit" => faults' # 0
    PROVE  IInv'
  <1>1. begun' \in 0..MaxRequests
    BY DEF IInv, Tables
  <1>2. NoLoc \in Local
    BY NoLocTyped
  <1>. QED  BY <1>1, <1>2, Idle, QuietStep DEF Return

\* A statement of p that finds nothing to change and answers.
LEMMA RefusalKeeps ==
    ASSUME IInv, NEW p \in Adms, Return(p), pc[p] # "audit", UNCHANGED tables, UNCHANGED log
    PROVE  IInv'
  <1>1. faults' \in 0..MaxFaults /\ faults' = faults
    BY DEF IInv, Tables, log
  <1>. QED  BY <1>1, ReturnKeeps DEF log

\* A statement of p that leaves the tables and the log alone.
LEMMA StatementKeeps ==
    ASSUME IInv, NEW p \in Adms, NEW step, NEW l \in Local, pc[p] # "audit",
           pc' = [pc EXCEPT ![p] = step], loc' = [loc EXCEPT ![p] = l],
           UNCHANGED tables, UNCHANGED log, Shape(step, l), Truthful(step, l)
    PROVE  IInv'
  <1>1. begun' \in 0..MaxRequests /\ faults' \in 0..MaxFaults /\ faults' = faults
    BY DEF IInv, Tables, log
  <1>. QED  BY <1>1, QuietStep DEF log

\* The same with its locals as they are.
LEMMA MoveKeeps ==
    ASSUME IInv, NEW p \in Adms, NEW step, pc[p] # "audit",
           pc' = [pc EXCEPT ![p] = step], UNCHANGED loc, UNCHANGED tables, UNCHANGED log,
           Shape(step, loc[p]), Truthful(step, loc[p])
    PROVE  IInv'
  <1>1. loc[p] \in Local /\ loc' = [loc EXCEPT ![p] = loc[p]]
    BY DEF IInv, Tables
  <1>. QED  BY <1>1, StatementKeeps

\* What is known of p.
LEMMA Known ==
    ASSUME IInv, NEW p \in Adms
    PROVE  /\ loc[p] \in Local /\ Shape(pc[p], loc[p]) /\ Truthful(pc[p], loc[p])
           /\ Chal(p) = loc[p].entry.chal /\ Action(p) = loc[p].entry.action
           /\ loc[p].entry \in Change
  BY Fields DEF IInv, Tables, Chal, Action

LEMMA UserRoles ==
    ASSUME IInv, NEW u \in Users, NEW r \in held[u]
    PROVE  r \in Roles /\ r \in RolesOf[u]
  BY DEF IInv, Tables

\* The locals l of a request of u that begins with local.
BeginsWith(l, local, u, r) ==
    /\ l.user = u /\ l.role = r /\ l.entry = local.entry /\ l.check = local.check
    /\ l.spec = local.spec /\ l.bind = local.bind /\ l.done = {} /\ l.new = {}
    /\ l.owned = (<<l.entry.chal, u>> \in authors)

\* The first step of a request.
LEMMA BeginKeeps ==
    ASSUME IInv, NEW p \in Adms, NEW u \in Users, NEW r \in held[u], NEW permission, NEW step,
           NEW local \in Local, begun < MaxRequests, Begin(p, u, r, permission, step, local),
           local.done = {} /\ local.new = {},
           \A l \in Local : BeginsWith(l, local, u, r) => Shape(step, l) /\ Truthful(step, l),
           local.spec \in Inputs \cup {NoSpec}
    PROVE  IInv'
  <1>0. (<<local.entry.chal, u>> \in authors) \in BOOLEAN
    OBVIOUS
  <1>1. PICK owned \in BOOLEAN : owned = (<<local.entry.chal, u>> \in authors)
    BY <1>0
  <1>. DEFINE l == [local EXCEPT !.user = u, !.role = r, !.asked = local.spec, !.owned = owned]
  <1>2. /\ l \in Local /\ l.user = u /\ l.role = r /\ l.entry = local.entry /\ l.check = local.check
        /\ l.spec = local.spec /\ l.bind = local.bind /\ l.done = {} /\ l.new = {}
        /\ l.owned = owned
    BY UserRoles DEF Local
  <1>3. /\ pc[p] = "idle" /\ pc' = [pc EXCEPT ![p] = step] /\ loc' = [loc EXCEPT ![p] = l]
        /\ UNCHANGED tables /\ UNCHANGED <<audit, commits, faults>> /\ begun' = begun + 1
    BY <1>1 DEF Begin, Goto
  <1>. HIDE DEF l
  <1>4. Shape(step, l) /\ Truthful(step, l)
    BY <1>1, <1>2 DEF BeginsWith
  <1>5. begun' \in 0..MaxRequests /\ faults' \in 0..MaxFaults
    BY <1>3, AdminAssumption DEF IInv, Tables
  <1>. QED  BY <1>2, <1>3, <1>4, <1>5, QuietStep

LEMMA InputTyped ==
    ASSUME NEW input \in Inputs
    PROVE  /\ input \in Specs /\ input.slug \in Chals /\ input.owners = <<>>
           /\ input.row \in RowOf(Specs) /\ input.row.status \in Statuses
  <1>1. input \in Specs /\ input.slug \in Chals /\ input.owners = <<>>
    BY AdminAssumption DEF Specs
  <1>2. input.row \in RowOf(Specs)
    BY <1>1 DEF RowOf
  <1>. QED  BY <1>1, <1>2 DEF Statuses

LEMMA RequestKeeps ==
    ASSUME IInv, NEW p \in Adms, NEW u \in Users, NEW r \in held[u], begun < MaxRequests,
           Begins(p, u, r) \/ ImportRequest(p, u, r)
    PROVE  IInv'
  <1>0. r \in Roles /\ Roles = {"player", "author", "ops", "admin"}
    BY UserRoles DEF Roles
  <1>1. ASSUME NEW input \in Inputs, NEW local \in Local, NEW step,
               local.spec = input, local.entry.chal = input.slug, local.done = {}, local.new = {},
               local.entry.users = {},
               \/ local.entry.action = "create" /\ step = "create"
               \/ local.entry.action = "update" /\ step = "read" /\ Exists(input.slug),
               Begin(p, u, r, "challenge:write", step, local)
        PROVE  IInv'
    <2>1. ASSUME NEW l \in Local, BeginsWith(l, local, u, r)
          PROVE  Shape(step, l) /\ Truthful(step, l)
      <3>1. Shape(step, l)
        BY <1>1, <2>1, InputTyped DEF BeginsWith, Shape, Runs
      <3>2. Truthful(step, l)
        BY <1>1, <2>1 DEF BeginsWith, Truthful, Replacing
      <3>. QED  BY <3>1, <3>2
    <2>. QED  BY <1>1, <2>1, BeginKeeps
  <1>2. ASSUME NEW c \in Chals, NEW list \in Lists, Exists(c), r = "admin",
               Begin(p, u, r, "challenge:write", "check",
                     [NoLoc EXCEPT !.check = Range(list), !.bind = list, !.entry = [NoChange EXCEPT
                        !.action = "authors", !.chal = c, !.users = Range(list)]])
        PROVE  IInv'
    <2>1. PICK e : e = [NoChange EXCEPT !.action = "authors", !.chal = c, !.users = Range(list)]
      OBVIOUS
    <2>2. e \in Change /\ e.action = "authors" /\ e.chal = c /\ e.users = Range(list)
      BY <2>1, ListTyped, NoChangeTyped DEF Change, Actions
    <2>3. PICK local : local = [NoLoc EXCEPT !.check = Range(list), !.bind = list, !.entry = e]
      OBVIOUS
    <2>4. /\ local \in Local /\ local.spec = NoSpec /\ local.entry = e /\ local.done = {}
          /\ local.new = {} /\ local.bind = list /\ local.check = Range(list)
      BY <2>2, <2>3, ListTyped, NoLocTyped DEF Local
    <2>5. ASSUME NEW l \in Local, BeginsWith(l, local, u, r)
          PROVE  Shape("check", l) /\ Truthful("check", l)
      <3>1. Shape("check", l)
        BY <1>2, <2>2, <2>4, <2>5 DEF BeginsWith, Shape, Runs, AskedOf
      <3>2. Truthful("check", l)
        BY <1>2, <2>2, <2>4, <2>5 DEF BeginsWith, Truthful, Replacing
      <3>. QED  BY <3>1, <3>2
    <2>6. Begin(p, u, r, "challenge:write", "check", local)
      BY <1>2, <2>1, <2>3
    <2>. QED  BY <2>4, <2>5, <2>6, BeginKeeps
  <1>3. ASSUME NEW other \in Users, NEW to \in RolesOf[other],
               Begin(p, u, r, "user:write", "user", [NoLoc EXCEPT !.entry = [NoChange EXCEPT
                     !.action = "user", !.to = to, !.users = {other}]])
        PROVE  IInv'
    <2>0. to \in Roles
      BY AdminAssumption
    <2>1. PICK e : e = [NoChange EXCEPT !.action = "user", !.to = to, !.users = {other}]
      OBVIOUS
    <2>2. e \in Change /\ e.action = "user" /\ e.to = to /\ e.users = {other}
      BY <2>0, <2>1, NoChangeTyped DEF Change, Actions
    <2>3. PICK local : local = [NoLoc EXCEPT !.entry = e]
      OBVIOUS
    <2>4. /\ local \in Local /\ local.spec = NoSpec /\ local.entry = e /\ local.done = {}
          /\ local.new = {}
      BY <2>2, <2>3, NoLocTyped DEF Local
    <2>5. ASSUME NEW l \in Local, BeginsWith(l, local, u, r)
          PROVE  Shape("user", l) /\ Truthful("user", l)
      <3>1. Shape("user", l)
        BY <2>0, <2>2, <2>4, <2>5 DEF BeginsWith, Shape, Runs
      <3>2. Truthful("user", l)
        BY <2>2, <2>4, <2>5 DEF BeginsWith, Truthful, Replacing
      <3>. QED  BY <3>1, <3>2
    <2>6. Begin(p, u, r, "user:write", "user", local)
      BY <1>3, <2>1, <2>3
    <2>. QED  BY <2>4, <2>5, <2>6, BeginKeeps
  <1>4. ASSUME NEW action, NEW step, NEW n \in Nat, NEW permission,
               \/ action = "announcement" /\ step = "announce"
               \/ action = "contest" /\ step = "contest"
               \/ action = "import" /\ step = "load" /\ r \in {"admin", "ops"},
               Begin(p, u, r, permission, step, [NoLoc EXCEPT !.entry.action = action])
               \/ Begin(p, u, r, permission, step,
                        [NoLoc EXCEPT !.files = n, !.entry.action = action])
        PROVE  IInv'
    <2>1. PICK e : e = [NoChange EXCEPT !.action = action]
      OBVIOUS
    <2>2. /\ e \in Change /\ e.action = action /\ e.from = "none" /\ e.to = "none" /\ e.users = {}
      BY <1>4, <2>1, NoChangeTyped DEF Change, Actions
    <2>3. PICK local : /\ local = [NoLoc EXCEPT !.entry = e]
                          \/ local = [NoLoc EXCEPT !.files = n, !.entry = e]
                       /\ Begin(p, u, r, permission, step, local)
      <3>1. /\ [NoLoc EXCEPT !.entry.action = action] = [NoLoc EXCEPT !.entry = e]
            /\ [NoLoc EXCEPT !.files = n, !.entry.action = action]
                  = [NoLoc EXCEPT !.files = n, !.entry = e]
        BY <2>1, NoLocTyped DEF Local
      <3>. QED  BY <1>4, <3>1
    <2>4. /\ local \in Local /\ local.spec = NoSpec /\ local.entry = e /\ local.done = {}
          /\ local.new = {}
      BY <2>2, <2>3, NoLocTyped DEF Local
    <2>5. ASSUME NEW l \in Local, BeginsWith(l, local, u, r)
          PROVE  Shape(step, l) /\ Truthful(step, l)
      <3>1. Shape(step, l)
        BY <1>4, <2>2, <2>4, <2>5 DEF BeginsWith, Shape, Runs
      <3>2. Truthful(step, l)
        BY <1>4, <2>2, <2>4, <2>5 DEF BeginsWith, Truthful, Replacing
      <3>. QED  BY <3>1, <3>2
    <2>. QED  BY <2>3, <2>4, <2>5, BeginKeeps
  <1>5. CASE \/ Begin(p, u, r, "announcement:write", "announce",
                   [NoLoc EXCEPT !.entry.action = "announcement"])
             \/ Begin(p, u, r, "contest:write", "contest", [NoLoc EXCEPT !.entry.action = "contest"])
    BY <1>4, <1>5
  <1>6. CASE ImportRequest(p, u, r)
    <2>1. PICK n \in 1..MaxFiles :
              Begin(p, u, r, "instance:write", "load",
                    [NoLoc EXCEPT !.files = n, !.entry.action = "import"])
      BY <1>6 DEF ImportRequest
    <2>2. n \in Nat
      BY AdminAssumption
    <2>3. r \in {"admin", "ops"}
      BY <1>6 DEF ImportRequest
    <2>. QED  BY <1>4, <2>1, <2>2, <2>3
  <1>7. CASE Begins(p, u, r)
    <2>1. ASSUME NEW input \in Inputs, NEW action \in {"create", "update"}
          PROVE  LET local == [NoLoc EXCEPT !.spec = input, !.entry = [NoChange EXCEPT
                                  !.action = action, !.chal = input.slug, !.to = input.row.status]]
                 IN /\ local \in Local /\ local.spec = input /\ local.done = {} /\ local.new = {}
                    /\ local.entry.action = action /\ local.entry.chal = input.slug
                    /\ local.entry.users = {}
      <3>1. PICK e : e = [NoChange EXCEPT !.action = action, !.chal = input.slug,
                                          !.to = input.row.status]
        OBVIOUS
      <3>2. e \in Change /\ e.action = action /\ e.chal = input.slug /\ e.users = {}
        BY <3>1, InputTyped, NoChangeTyped DEF Change, Actions
      <3>3. PICK local : local = [NoLoc EXCEPT !.spec = input, !.entry = e]
        OBVIOUS
      <3>4. /\ local \in Local /\ local.spec = input /\ local.entry = e /\ local.done = {}
            /\ local.new = {}
        BY <3>2, <3>3, InputTyped, NoLocTyped DEF Local
      <3>. QED  BY <3>1, <3>2, <3>3, <3>4
    <2>2. CASE \E input \in Inputs :
                  Begin(p, u, r, "challenge:write", "create",
                        [NoLoc EXCEPT !.spec = input, !.entry = [NoChange EXCEPT
                             !.action = "create", !.chal = input.slug, !.to = input.row.status]])
      <3>1. PICK input \in Inputs : Begin(p, u, r, "challenge:write", "create",
                        [NoLoc EXCEPT !.spec = input, !.entry = [NoChange EXCEPT
                             !.action = "create", !.chal = input.slug, !.to = input.row.status]])
        BY <2>2
      <3>2. PICK local : local = [NoLoc EXCEPT !.spec = input, !.entry = [NoChange EXCEPT
                             !.action = "create", !.chal = input.slug, !.to = input.row.status]]
        OBVIOUS
      <3>3. /\ local \in Local /\ local.spec = input /\ local.done = {} /\ local.new = {}
            /\ local.entry.action = "create" /\ local.entry.chal = input.slug
            /\ local.entry.users = {}
        BY <2>1, <3>2
      <3>4. Begin(p, u, r, "challenge:write", "create", local)
        BY <3>1, <3>2
      <3>. QED  BY <1>1, <3>3, <3>4
    <2>3. CASE \E input \in Inputs :
                  /\ Exists(input.slug)
                  /\ Begin(p, u, r, "challenge:write", "read",
                           [NoLoc EXCEPT !.spec = input, !.entry = [NoChange EXCEPT
                                !.action = "update", !.chal = input.slug, !.to = input.row.status]])
      <3>1. PICK input \in Inputs :
                  /\ Exists(input.slug)
                  /\ Begin(p, u, r, "challenge:write", "read",
                           [NoLoc EXCEPT !.spec = input, !.entry = [NoChange EXCEPT
                                !.action = "update", !.chal = input.slug, !.to = input.row.status]])
        BY <2>3
      <3>2. PICK local : local = [NoLoc EXCEPT !.spec = input, !.entry = [NoChange EXCEPT
                             !.action = "update", !.chal = input.slug, !.to = input.row.status]]
        OBVIOUS
      <3>3. /\ local \in Local /\ local.spec = input /\ local.done = {} /\ local.new = {}
            /\ local.entry.action = "update" /\ local.entry.chal = input.slug
            /\ local.entry.users = {}
        BY <2>1, <3>2
      <3>4. Begin(p, u, r, "challenge:write", "read", local)
        BY <3>1, <3>2
      <3>. QED  BY <1>1, <3>1, <3>3, <3>4
    <2>. QED  BY <1>2, <1>3, <1>5, <1>7, <2>2, <2>3 DEF Begins
  <1>. QED  BY <1>6, <1>7

LEMMA ImportCommandKeeps ==
    ASSUME IInv, NEW p \in Adms, ImportCommand(p)
    PROVE  IInv'
  <1>1. PICK n \in 1..MaxFiles : loc' = [loc EXCEPT ![p].files = n, ![p].entry.action = "import"]
    BY DEF ImportCommand
  <1>2. /\ pc[p] = "idle" /\ pc' = [pc EXCEPT ![p] = "load"] /\ begun < MaxRequests
        /\ begun' = begun + 1 /\ UNCHANGED <<audit, commits, faults>> /\ UNCHANGED tables
    BY DEF ImportCommand, Goto
  <1>3. loc[p] = NoLoc /\ loc \in [Adms -> Local]
    BY <1>2, Known DEF Shape, IInv, Tables
  <1>4. PICK l : l = loc'[p]
    OBVIOUS
  <1>5. loc' = [loc EXCEPT ![p] = l]
    BY <1>1, <1>3, <1>4
  <1>6. PICK e : e = [NoChange EXCEPT !.action = "import"]
    OBVIOUS
  <1>7. /\ e \in Change /\ e.action = "import" /\ e.from = "none" /\ e.to = "none" /\ e.users = {}
    BY <1>6, NoChangeTyped DEF Change, Actions
  <1>8. n \in Nat
    BY AdminAssumption
  <1>9. l = [NoLoc EXCEPT !.files = n, !.entry = e]
    BY <1>1, <1>3, <1>4, <1>6, NoLocTyped DEF Local
  <1>10. /\ l \in Local /\ l.entry = e /\ l.role = "none" /\ l.done = {} /\ l.new = {}
    BY <1>7, <1>8, <1>9, NoLocTyped DEF Local
  <1>11. Shape("load", l)
    BY <1>7, <1>10 DEF Shape, Runs
  <1>12. Truthful("load", l)
    BY <1>7, <1>10 DEF Truthful, Replacing
  <1>13. begun' \in 0..MaxRequests /\ faults' \in 0..MaxFaults
    BY <1>2, AdminAssumption DEF IInv, Tables
  <1>. QED  BY <1>2, <1>5, <1>10, <1>11, <1>12, <1>13, QuietStep

LEMMA GetChallengeKeeps ==
    ASSUME IInv, NEW p \in Adms, GetChallenge(p)
    PROVE  IInv'
  <1>0. pc[p] = "read" /\ UNCHANGED tables /\ UNCHANGED log
    BY DEF GetChallenge, Goto
  <1>1. CASE Return(p)
    BY <1>0, <1>1, RefusalKeeps
  <1>2. CASE /\ Goto(p, "read", "update")
             /\ loc' = [loc EXCEPT ![p].entry.from = row[Chal(p)].status]
    <2>1. /\ loc[p] \in Local /\ Shape("read", loc[p]) /\ Truthful("read", loc[p])
          /\ loc \in [Adms -> Local] /\ Chal(p) = loc[p].entry.chal
      BY <1>0, Known DEF IInv, Tables
    <2>2. PICK status : status = row[Chal(p)].status
      OBVIOUS
    <2>3. status \in Statuses
      <3>1. Chal(p) \in Chals /\ Exists(Chal(p))
        BY <2>1 DEF Shape, Truthful, Runs
      <3>. QED  BY <2>2, <3>1 DEF Exists, IInv, Tables, Statuses
    <2>4. PICK e : e = [loc[p].entry EXCEPT !.from = status]
      OBVIOUS
    <2>5. /\ e \in Change /\ e.action = loc[p].entry.action /\ e.chal = loc[p].entry.chal
          /\ e.users = loc[p].entry.users /\ e.to = loc[p].entry.to
      BY <2>1, <2>3, <2>4, Fields DEF Change
    <2>6. PICK l : l = [loc[p] EXCEPT !.entry = e]
      OBVIOUS
    <2>7. loc' = [loc EXCEPT ![p] = l]
      BY <1>2, <2>1, <2>2, <2>4, <2>6
    <2>8. /\ l \in Local /\ l.entry = e /\ l.user = loc[p].user /\ l.role = loc[p].role
          /\ l.spec = loc[p].spec /\ l.new = loc[p].new /\ l.done = loc[p].done
          /\ l.owned = loc[p].owned /\ l.bind = loc[p].bind /\ l.check = loc[p].check
      BY <2>1, <2>5, <2>6 DEF Local
    <2>9. Shape("update", l)
      BY <2>1, <2>5, <2>8 DEF Shape, Runs
    <2>10. Truthful("update", l)
      BY <2>1, <2>5, <2>8 DEF Truthful, Replacing, Shape, Runs
    <2>. QED  BY <1>0, <1>2, <2>7, <2>8, <2>9, <2>10, StatementKeeps DEF Goto
  <1>. QED  BY <1>1, <1>2 DEF GetChallenge

LEMMA UpdateChallengeKeeps ==
    ASSUME IInv, NEW p \in Adms, UpdateChallenge(p)
    PROVE  IInv'
  <1>0. pc[p] = "update" /\ UNCHANGED tables /\ UNCHANGED log
    BY DEF UpdateChallenge, Goto
  <1>1. CASE Return(p)
    BY <1>0, <1>1, RefusalKeeps
  <1>2. CASE Goto(p, "update", "lock") /\ Owned(p) /\ UNCHANGED loc
    <2>1. loc[p] \in Local /\ Shape("update", loc[p]) /\ Truthful("update", loc[p])
      BY <1>0, Known
    <2>2. Shape("lock", loc[p])
      BY <2>1 DEF Shape, Runs
    <2>3. Truthful("lock", loc[p])
      BY <1>2, <2>1 DEF Truthful, Replacing, Shape, Runs, Owned, RestrictToOwned, Chal
    <2>. QED  BY <1>0, <1>2, <2>2, <2>3, MoveKeeps DEF Goto
  <1>. QED  BY <1>1, <1>2 DEF UpdateChallenge

LEMMA LockChallengeKeeps ==
    ASSUME IInv, NEW p \in Adms, LockChallenge(p)
    PROVE  IInv'
  <1>0. /\ pc[p] = "lock" /\ pc' = [pc EXCEPT ![p] = "commit"] /\ UNCHANGED loc
        /\ UNCHANGED tables /\ UNCHANGED log
    BY DEF LockChallenge, Goto
  <1>1. loc[p] \in Local /\ Shape("lock", loc[p]) /\ Truthful("lock", loc[p])
    BY <1>0, Known
  <1>2. loc[p].entry.action = "update"
    BY <1>1 DEF Shape, Runs
  <1>3. Shape("commit", loc[p])
    BY <1>1, <1>2 DEF Shape, Runs
  <1>4. Truthful("commit", loc[p])
    BY <1>1, <1>2, <1>3 DEF Truthful, Replacing, Shape
  <1>. QED  BY <1>0, <1>3, <1>4, MoveKeeps

LEMMA CandidateKeeps ==
    ASSUME IInv, NEW p \in Adms, Candidate(p)
    PROVE  IInv'
  <1>0. pc[p] = "check" /\ UNCHANGED tables /\ UNCHANGED log
    BY DEF Candidate, Goto
  <1>1. /\ loc[p] \in Local /\ Shape("check", loc[p]) /\ Truthful("check", loc[p])
        /\ loc[p].entry.action = "authors"
    BY <1>0, Known DEF Shape, Runs
  <1>2. CASE Return(p)
    BY <1>0, <1>2, RefusalKeeps
  <1>3. CASE Goto(p, "check", "clear") /\ loc[p].check = {} /\ UNCHANGED loc
    <2>1. Shape("clear", loc[p])
      BY <1>1, <1>3 DEF Shape, Runs
    <2>2. Truthful("clear", loc[p])
      BY <1>1, <1>3 DEF Truthful, Replacing
    <2>. QED  BY <1>0, <1>3, <2>1, <2>2, MoveKeeps DEF Goto
  <1>4. ASSUME NEW u \in loc[p].check, role[u] \in Staff,
               loc' = [loc EXCEPT ![p].check = @ \ {u}], UNCHANGED pc
        PROVE  IInv'
    <2>1. PICK l : l = [loc[p] EXCEPT !.check = @ \ {u}]
      OBVIOUS
    <2>2. /\ l \in Local /\ l.entry = loc[p].entry /\ l.user = loc[p].user /\ l.role = loc[p].role
          /\ l.spec = loc[p].spec /\ l.new = loc[p].new /\ l.done = loc[p].done
          /\ l.owned = loc[p].owned /\ l.bind = loc[p].bind /\ l.check = loc[p].check \ {u}
      BY <1>1, <2>1 DEF Local
    <2>3. held[u] \cap Staff # {}
      BY <1>1, <1>4, Fields DEF IInv, Tables
    <2>4. Shape("check", l)
      BY <1>1, <2>2 DEF Shape, Runs, AskedOf
    <2>5. Truthful("check", l)
      BY <1>1, <2>2, <2>3 DEF Truthful, Replacing
    <2>6. pc' = [pc EXCEPT ![p] = "check"] /\ loc' = [loc EXCEPT ![p] = l]
      BY <1>0, <1>4, <2>1 DEF IInv, Tables
    <2>. QED  BY <1>0, <2>2, <2>4, <2>5, <2>6, StatementKeeps
  <1>. QED  BY <1>2, <1>3, <1>4 DEF Candidate

LEMMA ClearAuthorsKeeps ==
    ASSUME IInv, NEW p \in Adms, ClearAuthors(p)
    PROVE  IInv'
  <1>0. pc[p] = "clear" /\ pc' = [pc EXCEPT ![p] = "delete"] /\ UNCHANGED tables /\ UNCHANGED log
    BY DEF ClearAuthors, Goto
  <1>1. loc[p] \in Local /\ Shape("clear", loc[p]) /\ Truthful("clear", loc[p])
    BY <1>0, Known
  <1>2. PICK l : l = [loc[p] EXCEPT !.old = Bound(p)]
    OBVIOUS
  <1>3. /\ l \in Local /\ l.entry = loc[p].entry /\ l.user = loc[p].user /\ l.role = loc[p].role
        /\ l.spec = loc[p].spec /\ l.new = loc[p].new /\ l.done = loc[p].done
        /\ l.owned = loc[p].owned /\ l.bind = loc[p].bind /\ l.check = loc[p].check
        /\ l.old = {u \in Users : <<l.entry.chal, u>> \in authors}
    BY <1>1, <1>2 DEF Local, Bound, Chal
  <1>4. Shape("delete", l)
    BY <1>1, <1>3 DEF Shape, Runs, AskedOf
  <1>5. Truthful("delete", l)
    BY <1>1, <1>3 DEF Truthful, Replacing
  <1>6. loc' = [loc EXCEPT ![p] = l]
    BY <1>2 DEF ClearAuthors
  <1>. QED  BY <1>0, <1>3, <1>4, <1>5, <1>6, StatementKeeps

LEMMA DeleteAuthorsKeeps ==
    ASSUME IInv, NEW p \in Adms, DeleteAuthors(p)
    PROVE  IInv'
  <1>0. /\ pc[p] = "delete" /\ pc' = [pc EXCEPT ![p] = "bind"] /\ UNCHANGED loc
        /\ UNCHANGED tables /\ UNCHANGED log
    BY DEF DeleteAuthors, Goto
  <1>1. loc[p] \in Local /\ Shape("delete", loc[p]) /\ Truthful("delete", loc[p])
    BY <1>0, Known
  <1>2. Shape("bind", loc[p])
    BY <1>1 DEF Shape, Runs
  <1>3. Truthful("bind", loc[p])
    BY <1>1 DEF Truthful, Replacing
  <1>. QED  BY <1>0, <1>2, <1>3, MoveKeeps

LEMMA BindAuthorKeeps ==
    ASSUME IInv, NEW p \in Adms, BindAuthor(p)
    PROVE  IInv'
  <1>. DEFINE u == Head(loc[p].bind)
              conflict == <<Chal(p), u>> \in authors /\ u \notin loc[p].old
  <1>0. pc[p] = "bind" /\ UNCHANGED tables /\ UNCHANGED log /\ UNCHANGED pc /\ loc[p].bind # <<>>
    BY DEF BindAuthor
  <1>1. loc[p] \in Local /\ Shape("bind", loc[p]) /\ Truthful("bind", loc[p])
    BY <1>0, Known
  <1>2. PICK bind, new : bind = Tail(loc[p].bind)
                         /\ new = IF conflict THEN loc[p].new ELSE loc[p].new \cup {u}
    OBVIOUS
  <1>3. /\ bind \in Seq(Users) /\ new \subseteq Users
        /\ new \cup Range(bind) \subseteq loc[p].new \cup Range(loc[p].bind)
    BY <1>0, <1>1, <1>2, Fields, Dequeue
  <1>4. PICK l : l = [loc[p] EXCEPT !.bind = bind, !.new = new]
    OBVIOUS
  <1>5. /\ l \in Local /\ l.entry = loc[p].entry /\ l.user = loc[p].user /\ l.role = loc[p].role
        /\ l.spec = loc[p].spec /\ l.new = new /\ l.done = loc[p].done
        /\ l.owned = loc[p].owned /\ l.bind = bind /\ l.check = loc[p].check
        /\ l.old = loc[p].old /\ l.since = loc[p].since
    BY <1>1, <1>3, <1>4 DEF Local
  <1>6. Shape("bind", l)
    BY <1>1, <1>3, <1>5 DEF Shape, Runs, AskedOf
  <1>7. Truthful("bind", l)
    BY <1>1, <1>5 DEF Truthful, Replacing
  <1>8. pc' = [pc EXCEPT ![p] = "bind"] /\ loc' = [loc EXCEPT ![p] = l]
    BY <1>0, <1>2, <1>4 DEF IInv, Tables, BindAuthor
  <1>. QED  BY <1>0, <1>5, <1>6, <1>7, <1>8, StatementKeeps

LEMMA AuthorsBoundKeeps ==
    ASSUME IInv, NEW p \in Adms, AuthorsBound(p)
    PROVE  IInv'
  <1>0. /\ pc[p] = "bind" /\ pc' = [pc EXCEPT ![p] = "commit"] /\ UNCHANGED loc
        /\ UNCHANGED tables /\ UNCHANGED log
    BY DEF AuthorsBound, Goto
  <1>1. loc[p] \in Local /\ Shape("bind", loc[p]) /\ Truthful("bind", loc[p])
    BY <1>0, Known
  <1>2. loc[p].entry.action \in {"authors", "import"}
    BY <1>1 DEF Shape, Runs
  <1>3. Shape("commit", loc[p])
    BY <1>1, <1>2 DEF Shape, Runs
  <1>4. Truthful("commit", loc[p])
    BY <1>1, <1>2 DEF Truthful, Replacing, Shape
  <1>. QED  BY <1>0, <1>3, <1>4, MoveKeeps

-----------------------------------------------------------------------------
(* Imports, failures and the death of the process.                           *)

LEMMA FileTyped ==
    ASSUME NEW file \in Files, file.spec # NoSpec
    PROVE  file.spec \in Specs /\ file.spec.slug \in Chals
  <1>1. PICK text \in Texts : file = [spec  |-> LoadSpecFile(text),
                                      asked |-> IF LoadSpecFile(text) = NoSpec THEN NoSpec
                                                                               ELSE Declared(text)]
    BY DEF Files
  <1>2. file.spec = LoadSpecFile(text)
    BY <1>1
  <1>3. file.spec.slug \in Chals
    BY <1>2, AdminAssumption
  <1>. QED  BY <1>3 DEF Specs

LEMMA ImportFileKeeps ==
    ASSUME IInv, NEW p \in Adms, ImportFile(p)
    PROVE  IInv'
  <1>0. pc[p] = "load" /\ UNCHANGED tables /\ UNCHANGED log /\ loc[p].files > 0
    BY DEF ImportFile
  <1>1. /\ loc[p] \in Local /\ Shape("load", loc[p]) /\ Truthful("load", loc[p])
        /\ loc[p].entry.action = "import" /\ loc \in [Adms -> Local]
    BY <1>0, Known DEF Shape, Runs, IInv, Tables
  <1>2. CASE Return(p)
    BY <1>0, <1>2, RefusalKeeps
  <1>3. ASSUME NEW file \in Files, file.spec # NoSpec, Goto(p, "load", "upsert"),
               loc' = [loc EXCEPT ![p].files = @ - 1, ![p].entry.chal = file.spec.slug,
                                  ![p].spec = file.spec, ![p].asked = file.asked]
        PROVE  IInv'
    <2>1. PICK spec, asked, c : spec = file.spec /\ asked = file.asked /\ c = file.spec.slug
      OBVIOUS
    <2>2. spec \in Specs /\ c \in Chals /\ asked \in {f.asked : f \in Files}
      BY <1>3, <2>1, FileTyped
    <2>3. PICK e : e = [loc[p].entry EXCEPT !.chal = c]
      OBVIOUS
    <2>4. /\ e \in Change /\ e.action = "import" /\ e.chal = c /\ e.from = loc[p].entry.from
          /\ e.to = loc[p].entry.to /\ e.users = loc[p].entry.users
      BY <1>1, <2>2, <2>3, Fields DEF Change
    <2>5. PICK l : l = [loc[p] EXCEPT !.files = @ - 1, !.entry = e, !.spec = spec, !.asked = asked]
      OBVIOUS
    <2>6. loc' = [loc EXCEPT ![p] = l]
      BY <1>1, <1>3, <2>1, <2>3, <2>5
    <2>7. /\ l.entry = e /\ l.spec = spec /\ l.asked = asked /\ l.files = loc[p].files - 1
          /\ l.user = loc[p].user /\ l.role = loc[p].role /\ l.new = loc[p].new
          /\ l.done = loc[p].done /\ l.check = loc[p].check
      BY <1>1, <2>5 DEF Local
    <2>8. loc[p].files - 1 \in Nat
      BY <1>0, <1>1, Fields
    <2>9. l \in Local
      BY <1>1, <2>2, <2>4, <2>5, <2>8 DEF Local
    <2>10. Shape("upsert", l)
      BY <1>1, <2>2, <2>4, <2>7 DEF Shape, Runs
    <2>11. Truthful("upsert", l)
      BY <1>1, <2>4, <2>7 DEF Truthful, Replacing
    <2>. QED  BY <1>0, <1>3, <2>6, <2>9, <2>10, <2>11, StatementKeeps DEF Goto
  <1>. QED  BY <1>2, <1>3 DEF ImportFile

LEMMA UpsertChallengeKeeps ==
    ASSUME IInv, NEW p \in Adms, UpsertChallenge(p)
    PROVE  IInv'
  <1>. DEFINE owners == loc[p].spec.owners
  <1>0. pc[p] = "upsert" /\ UNCHANGED tables /\ UNCHANGED log
    BY DEF UpsertChallenge, Goto
  <1>1. /\ loc[p] \in Local /\ Shape("upsert", loc[p]) /\ Truthful("upsert", loc[p])
        /\ loc[p].entry.action = "import"
    BY <1>0, Known DEF Shape, Runs
  <1>2. PICK step : step = IF owners = <<>> THEN "commit" ELSE "clear"
    OBVIOUS
  <1>3. PICK bind : bind = Resolved(owners)
    OBVIOUS
  <1>4. PICK l : l = [loc[p] EXCEPT !.bind = bind]
    OBVIOUS
  <1>5. /\ l \in Local /\ l.entry = loc[p].entry /\ l.user = loc[p].user /\ l.role = loc[p].role
        /\ l.spec = loc[p].spec /\ l.new = loc[p].new /\ l.done = loc[p].done
        /\ l.owned = loc[p].owned /\ l.bind = bind /\ l.check = loc[p].check
    BY <1>1, <1>3, <1>4, ResolvedTyped DEF Local
  <1>6. Range(l.bind) = AskedOf(l)
    BY <1>1, <1>3, <1>5 DEF AskedOf
  <1>7. Shape(step, l)
    BY <1>1, <1>2, <1>5, <1>6 DEF Shape, Runs
  <1>8. Truthful(step, l)
    BY <1>1, <1>2, <1>5 DEF Truthful, Replacing, Shape
  <1>9. pc' = [pc EXCEPT ![p] = step] /\ loc' = [loc EXCEPT ![p] = l]
    BY <1>2, <1>3, <1>4 DEF UpsertChallenge, Goto
  <1>. QED  BY <1>0, <1>5, <1>7, <1>8, <1>9, StatementKeeps

LEMMA ImportDoneKeeps ==
    ASSUME IInv, NEW p \in Adms, ImportDone(p)
    PROVE  IInv'
  <1>0. pc[p] = "load" /\ UNCHANGED tables /\ UNCHANGED log
    BY DEF ImportDone
  <1>1. CASE Return(p)
    BY <1>0, <1>1, RefusalKeeps
  <1>2. CASE Goto(p, "load", "audit") /\ UNCHANGED loc
    <2>1. /\ loc[p] \in Local /\ Shape("load", loc[p]) /\ Truthful("load", loc[p])
          /\ loc[p].entry.action = "import"
      BY <1>0, Known DEF Shape, Runs
    <2>2. Shape("audit", loc[p])
      BY <2>1 DEF Shape, Runs
    <2>3. Truthful("audit", loc[p])
      BY <2>1 DEF Truthful, Replacing
    <2>. QED  BY <1>0, <1>2, <2>2, <2>3, MoveKeeps DEF Goto
  <1>. QED  BY <1>1, <1>2 DEF ImportDone

LEMMA FailsKeeps ==
    ASSUME IInv, NEW p \in Adms, Fails(p)
    PROVE  IInv'
  <1>1. faults \in 0..MaxFaults /\ faults' = faults + 1 /\ faults < MaxFaults
    BY DEF Fails, IInv, Tables
  <1>2. faults' \in 0..MaxFaults /\ faults' # 0
    BY <1>1, AdminAssumption
  <1>. QED  BY <1>2, ReturnKeeps DEF Fails

LEMMA DeadlockDetectedKeeps ==
    ASSUME IInv, NEW p \in Adms, DeadlockDetected(p)
    PROVE  IInv'
  <1>1. WaitsFor(p) # {}
    BY DEF DeadlockDetected, Deadlocked
  <1>2. pc[p] # "audit"
    BY <1>1 DEF WaitsFor
  <1>. QED  BY <1>2, RefusalKeeps DEF DeadlockDetected

LEMMA CrashKeeps ==
    ASSUME IInv, Crash
    PROVE  IInv'
  <1>0. /\ UNCHANGED tables /\ UNCHANGED <<audit, commits, begun>>
        /\ faults' = faults + 1 /\ faults < MaxFaults
    BY DEF Crash
  <1>1. /\ pc' \in [Adms -> Steps] /\ loc' \in [Adms -> Local]
        /\ \A q \in Adms : \/ pc'[q] = "idle" /\ loc'[q] = NoLoc
                           \/ pc'[q] = pc[q] /\ loc'[q] = loc[q]
    BY NoLocTyped DEF Crash, IInv, Tables, Steps
  <1>2. faults' \in 0..MaxFaults /\ faults' # 0
    BY <1>0, AdminAssumption DEF IInv, Tables
  <1>3. Tables'
    BY <1>0, <1>1, <1>2 DEF IInv, Tables, tables, Exists
  <1>4. ASSUME NEW q \in Adms
        PROVE  (Shape(pc[q], loc[q]) /\ Truthful(pc[q], loc[q]))'
    <2>1. PICK s, m : s = pc'[q] /\ m = loc'[q]
      OBVIOUS
    <2>2. Shape(s, m) /\ Truthful(s, m)
      BY <1>1, <2>1, Idle DEF IInv
    <2>3. Truthful(s, m)'
      BY <1>0, <2>2, TruthfulKept DEF tables
    <2>. QED  BY <2>1, <2>2, <2>3
  <1>5. AuditIsTrue' /\ ChangesAudited'
    BY <1>0, <1>2 DEF IInv, AuditIsTrue, ChangesAudited
  <1>. QED  BY <1>3, <1>4, <1>5 DEF IInv

-----------------------------------------------------------------------------
(* Commits.                                                                  *)

LEMMA SpecTyped ==
    ASSUME NEW spec \in Specs
    PROVE  spec.row \in RowOf(Specs) /\ spec.row # NoRow
  <1>1. CASE spec \in Inputs
    BY <1>1, AdminAssumption DEF RowOf
  <1>2. ASSUME NEW text \in Texts, spec = LoadSpecFile(text)
        PROVE  spec.row \in RowOf(Specs) /\ spec.row # NoRow
    BY <1>2, AdminAssumption DEF RowOf, Specs
  <1>3. spec \in Inputs \/ \E text \in Texts : spec = LoadSpecFile(text)
    BY DEF Specs, Files
  <1>. QED  BY <1>1, <1>2, <1>3

LEMMA SameFlip ==
    ASSUME NEW change \in Change, NEW e \in Change, Same(change, e)
    PROVE  /\ [e EXCEPT !.from = change.from] = change /\ e.action = change.action
           /\ change.users = e.users
  BY DEF Same, Change

LEMMA SameExcept ==
    ASSUME NEW e \in Change, NEW from \in Statuses
    PROVE  [e EXCEPT !.from = from] \in Change /\ Same([e EXCEPT !.from = from], e) /\ Same(e, e)
  BY DEF Same, Change

\* The tables with c stored.
LEMMA StoreTyped ==
    ASSUME IInv, NEW c \in Chals, NEW spec \in Specs, Store(c, spec)
    PROVE  /\ row' \in [Chals -> RowOf(Specs) \cup {NoRow}]
           /\ config' \in [Chals -> {s.config : s \in Specs} \cup {NoConfig}]
           /\ \A d \in Chals : config'[d] # NoConfig => row'[d] # NoRow
           /\ \A d \in Chals : Exists(d) => row'[d] # NoRow
           /\ row'[c] # NoRow
  <1>1. /\ row \in [Chals -> RowOf(Specs) \cup {NoRow}]
        /\ config \in [Chals -> {s.config : s \in Specs} \cup {NoConfig}]
        /\ \A d \in Chals : config[d] # NoConfig => row[d] # NoRow
    BY DEF IInv, Tables, Exists
  <1>2. PICK r \in RowOf(Specs) : r = spec.row /\ r # NoRow
    BY SpecTyped
  <1>3. PICK k \in {s.config : s \in Specs} \cup {NoConfig} :
            k = IF spec.config = NoConfig THEN config[c] ELSE spec.config
    BY <1>1
  <1>4. row' = [row EXCEPT ![c] = r] /\ config' = [config EXCEPT ![c] = k]
    BY <1>2, <1>3 DEF Store
  <1>5. /\ row' \in [Chals -> RowOf(Specs) \cup {NoRow}]
        /\ config' \in [Chals -> {s.config : s \in Specs} \cup {NoConfig}]
    BY <1>1, <1>4
  <1>6. ASSUME NEW d \in Chals
        PROVE  /\ row'[d] = IF d = c THEN r ELSE row[d]
               /\ config'[d] = IF d = c THEN k ELSE config[d]
    BY <1>1, <1>4
  <1>. QED  BY <1>1, <1>2, <1>5, <1>6 DEF Exists

\* The locals of the goroutines that do not commit.
LEMMA OthersKept ==
    ASSUME IInv, NEW p \in Adms, NEW q \in Adms \ {p}, NEW change \in Change,
           NEW old \in SUBSET Users, NEW new \in SUBSET Users, Chal(p) \in Chals,
           Commit(p, change, old, new), \A d \in Chals : Exists(d) => Exists(d)'
    PROVE  /\ loc'[q] \in Local /\ loc'[q].entry = loc[q].entry /\ pc'[q] = pc[q]
           /\ (Shape(pc[q], loc[q]) /\ Truthful(pc[q], loc[q]))'
  <1>1. PICK c \in Chals : c = Chal(p)
    OBVIOUS
  <1>2. PICK s, l : s = pc[q] /\ l = loc[q]
    OBVIOUS
  <1>3. /\ l \in Local /\ Shape(s, l) /\ Truthful(s, l) /\ Chal(q) = l.entry.chal
        /\ Action(q) = l.entry.action /\ l.entry \in Change
    BY <1>2, Known
  <1>4. PICK bound : bound = (authors \ ({c} \X old)) \cup ({c} \X new) /\ authors' = bound
    BY <1>1 DEF Commit
  <1>5. (l.owned \/ <<l.entry.chal, l.user>> \in bound) \in BOOLEAN
    OBVIOUS
  <1>6. PICK owned \in BOOLEAN : owned = (l.owned \/ <<l.entry.chal, l.user>> \in bound)
    BY <1>5
  <1>7. PICK o, n : /\ o = IF l.entry.chal = c THEN l.old \ old ELSE l.old
                    /\ n = IF l.entry.chal = c /\ Replaces(q) THEN l.since \cup new ELSE l.since
    OBVIOUS
  <1>8. o \subseteq Users /\ n \subseteq Users
    BY <1>3, <1>7, Fields
  <1>9. PICK m : m = [l EXCEPT !.owned = owned, !.old = o, !.since = n]
    OBVIOUS
  <1>10. /\ m \in Local /\ m.user = l.user /\ m.role = l.role /\ m.entry = l.entry
         /\ m.check = l.check /\ m.spec = l.spec /\ m.files = l.files /\ m.done = l.done
         /\ m.bind = l.bind /\ m.new = l.new /\ m.asked = l.asked /\ m.owned = owned
         /\ m.old = o /\ m.since = n
    BY <1>3, <1>8, <1>9 DEF Local
  <1>11. loc'[q] = m
    <2>1. loc'[q] = [l EXCEPT !.owned = @ \/ <<Chal(q), l.user>> \in bound,
                              !.old = IF Chal(q) = c THEN @ \ old ELSE @,
                              !.since = IF Chal(q) = c /\ Replaces(q) THEN @ \cup new ELSE @]
      BY <1>1, <1>2, <1>4 DEF Commit
    <2>. QED  BY <1>3, <1>6, <1>7, <1>9, <2>1 DEF Local
  <1>12. pc'[q] = s
    BY <1>2 DEF Commit, IInv, Tables
  <1>13. s = "idle" => m = l
    <2>1. SUFFICES ASSUME s = "idle"
                   PROVE  m = l
      OBVIOUS
    <2>2. l = NoLoc
      BY <1>3, <2>1 DEF Shape
    <2>3. l.user = "none" /\ l.old = {} /\ l.since = {} /\ l.owned = FALSE
      BY <2>2, NoLocTyped
    <2>4. <<l.entry.chal, l.user>> \notin bound
      <3>1. bound \subseteq Chals \X Users
        BY <1>4 DEF IInv, Tables
      <3>. QED  BY <2>3, <3>1, AdminAssumption
    <2>5. ~Replaces(q)
      BY <1>2, <2>1 DEF Replaces
    <2>6. owned = l.owned /\ o = l.old /\ n = l.since
      BY <1>6, <1>7, <2>3, <2>4, <2>5
    <2>7. m = [l EXCEPT !.owned = l.owned, !.old = l.old, !.since = l.since]
      BY <1>9, <2>6
    <2>. QED  BY <1>3, <2>7 DEF Local
  <1>14. Shape(s, m)
    BY <1>3, <1>10, <1>13 DEF Shape, AskedOf
  <1>15. Replaces(q) <=> Replacing(s, l)
    BY <1>2, <1>3 DEF Replaces, Replacing
  <1>16. Truthful(s, m)'
    <2>1. UNCHANGED held /\ commits \subseteq commits'
      BY DEF Commit
    <2>2. l.entry.action \in {"update", "authors"} => Exists(l.entry.chal)'
      <3>1. l.entry.action \in {"update", "authors"} => l.entry.chal \in Chals /\ Exists(l.entry.chal)
        BY <1>3 DEF Truthful, Shape
      <3>. QED  BY <3>1
    <2>3. Replacing(s, m) => \A u \in Users : <<m.entry.chal, u>> \in bound => u \in m.old \cup m.since
      <3>1. SUFFICES ASSUME Replacing(s, l), NEW u \in Users, <<l.entry.chal, u>> \in bound
                     PROVE  u \in o \cup n
        BY <1>10 DEF Replacing
      <3>2. <<l.entry.chal, u>> \in authors => u \in l.old \cup l.since
        BY <1>3, <3>1 DEF Truthful
      <3>. QED  BY <1>4, <1>7, <1>15, <3>1, <3>2
    <2>4. /\ s \in {"read", "update"} /\ <<m.entry.chal, m.user>> \in bound => m.owned
          /\ s \in {"lock", "commit"} /\ m.role = "author" => m.owned
      BY <1>3, <1>6, <1>10 DEF Truthful
    <2>. QED  BY <1>3, <1>4, <1>10, <2>1, <2>2, <2>3, <2>4 DEF Truthful
  <1>. QED  BY <1>2, <1>10, <1>11, <1>12, <1>14, <1>16

\* The locals of the goroutine that commits.
LEMMA RestKept ==
    ASSUME IInv, NEW p \in Adms, NEW change \in Change, NEW old, NEW new, Chal(p) \in Chals,
           Commit(p, change, old, new), Action(p) \in {"create", "update", "authors", "import"},
           IF Action(p) = "import" THEN Same(change, ImportEntry(Chal(p)))
                                   ELSE Same(change, loc[p].entry) /\ row'[Chal(p)] # NoRow
    PROVE  /\ loc'[p] \in Local /\ pc'[p] = IF Action(p) = "import" THEN "load" ELSE "audit"
           /\ Action(p) # "import" => loc'[p].entry = loc[p].entry
           /\ (Shape(pc[p], loc[p]) /\ Truthful(pc[p], loc[p]))'
  <1>1. PICK l, c, s : /\ l = loc[p] /\ c = Chal(p)
                       /\ s = IF Action(p) = "import" THEN "load" ELSE "audit"
    OBVIOUS
  <1>2. /\ l \in Local /\ Shape(pc[p], l) /\ Truthful(pc[p], l) /\ c = l.entry.chal /\ c \in Chals
        /\ Action(p) = l.entry.action /\ l.entry \in Change
    BY <1>1, Known
  <1>3. PICK done : done = l.done \cup IF Action(p) = "import" THEN {c} ELSE {}
    OBVIOUS
  <1>4. PICK e : e = IF Action(p) = "import" THEN [NoChange EXCEPT !.action = "import"] ELSE l.entry
    OBVIOUS
  <1>5. /\ done \subseteq Chals
        /\ e \in Change /\ e.action = l.entry.action
        /\ Action(p) # "import" => e = l.entry
        /\ Action(p) = "import" => e.from = "none" /\ e.to = "none" /\ e.users = {}
    BY <1>2, <1>3, <1>4, Fields, NoChangeTyped DEF Change, Actions
  <1>6. PICK m : m = [NoLoc EXCEPT !.user = l.user, !.role = l.role, !.files = l.files,
                                   !.done = done, !.entry = e]
    OBVIOUS
  <1>7. /\ m \in Local /\ m.user = l.user /\ m.role = l.role /\ m.done = done /\ m.entry = e
        /\ m.new = {}
    BY <1>2, <1>5, <1>6, Fields, NoLocTyped DEF Local
  <1>8. loc'[p] = m
    BY <1>1, <1>3, <1>4, <1>6 DEF Commit, Rest
  <1>9. pc'[p] = s
    BY <1>1 DEF Commit, IInv, Tables
  <1>10. Shape(s, m)
    BY <1>1, <1>2, <1>5, <1>7 DEF Shape, Runs
  <1>11. commits' = commits \cup {change}
    BY DEF Commit
  <1>12. CASE Action(p) = "import"
    <2>1. \A d \in m.done : \E x \in commits \cup {change} : Same(x, ImportEntry(d))
      BY <1>1, <1>2, <1>3, <1>7, <1>12 DEF Truthful
    <2>2. Truthful(s, m)'
      BY <1>1, <1>2, <1>5, <1>7, <1>11, <1>12, <2>1 DEF Truthful, Replacing
    <2>. QED  BY <1>7, <1>8, <1>9, <1>10, <1>12, <2>2, <1>1
  <1>13. CASE Action(p) # "import"
    <2>1. Same(change, m.entry) /\ m.entry = l.entry /\ change \in commits'
      BY <1>1, <1>5, <1>7, <1>11, <1>13
    <2>2. Exists(m.entry.chal)'
      BY <1>1, <1>2, <1>13, <2>1 DEF Exists
    <2>3. Truthful(s, m)'
      BY <1>1, <1>2, <1>5, <1>7, <1>13, <2>1, <2>2 DEF Truthful, Replacing
    <2>. QED  BY <1>1, <1>7, <1>8, <1>9, <1>10, <1>13, <2>1, <2>3
  <1>. QED  BY <1>12, <1>13

LEMMA CommitKeeps ==
    ASSUME IInv, NEW p \in Adms, NEW change \in Change, NEW old \in SUBSET Users,
           NEW new \in SUBSET Users, Commit(p, change, old, new),
           pc[p] # "audit", Chal(p) \in Chals,
           Action(p) \in {"create", "update", "authors", "import"},
           IF Action(p) = "import" THEN Same(change, ImportEntry(Chal(p)))
                                   ELSE Same(change, loc[p].entry),
           \/ \E spec \in Specs : Store(Chal(p), spec)
           \/ UNCHANGED <<row, config>> /\ Exists(Chal(p))
    PROVE  IInv'
  <1>1. /\ row' \in [Chals -> RowOf(Specs) \cup {NoRow}]
        /\ config' \in [Chals -> {s.config : s \in Specs} \cup {NoConfig}]
        /\ \A d \in Chals : config'[d] # NoConfig => row'[d] # NoRow
        /\ \A d \in Chals : Exists(d) => row'[d] # NoRow
        /\ row'[Chal(p)] # NoRow
    <2>1. CASE \E spec \in Specs : Store(Chal(p), spec)
      BY <2>1, StoreTyped
    <2>2. CASE UNCHANGED <<row, config>> /\ Exists(Chal(p))
      BY <2>2 DEF IInv, Tables, Exists
    <2>. QED  BY <2>1, <2>2
  <1>2. PICK c \in Chals : c = Chal(p)
    OBVIOUS
  <1>3. /\ UNCHANGED <<role, held, audit, begun, faults>> /\ commits' = commits \cup {change}
        /\ authors' = (authors \ ({c} \X old)) \cup ({c} \X new)
        /\ loc' = [q \in Adms |-> loc'[q]] /\ DOMAIN pc' = Adms
    BY <1>2 DEF Commit, IInv, Tables
  <1>4. \A d \in Chals : Exists(d) => Exists(d)'
    BY <1>1 DEF Exists
  <1>6. /\ loc'[p] \in Local /\ pc'[p] = IF Action(p) = "import" THEN "load" ELSE "audit"
        /\ Action(p) # "import" => loc'[p].entry = loc[p].entry
        /\ (Shape(pc[p], loc[p]) /\ Truthful(pc[p], loc[p]))'
    BY <1>1, RestKept
  <1>7. ASSUME NEW q \in Adms \ {p}
        PROVE  /\ loc'[q] \in Local /\ loc'[q].entry = loc[q].entry /\ pc'[q] = pc[q]
               /\ (Shape(pc[q], loc[q]) /\ Truthful(pc[q], loc[q]))'
    BY <1>4, OthersKept
  <1>8. pc' \in [Adms -> Steps] /\ loc' \in [Adms -> Local]
    <2>1. \A q \in Adms : loc'[q] \in Local
      BY <1>6, <1>7
    <2>2. pc' \in [Adms -> Steps]
      BY DEF Commit, IInv, Tables, Steps
    <2>. QED  BY <1>3, <2>1, <2>2
  <1>9. authors' \subseteq {d \in Chals : row'[d] # NoRow} \X Users
    <2>1. authors \subseteq {d \in Chals : row'[d] # NoRow} \X Users
      BY <1>1 DEF IInv, Tables
    <2>. QED  BY <1>1, <1>2, <1>3, <2>1
  <1>10. Tables'
    BY <1>1, <1>3, <1>8, <1>9 DEF IInv, Tables, Exists
  <1>11. AuditIsTrue'
    BY <1>3 DEF IInv, AuditIsTrue
  <1>12. ChangesAudited'
    <2>1. SUFFICES ASSUME faults = 0, NEW x \in commits \cup {change},
                          x.action \notin {"contest", "import"}
                   PROVE  Audited(x)'
      BY <1>3 DEF ChangesAudited
    <2>2. CASE x \in commits
      <3>1. Audited(x)
        BY <2>1, <2>2 DEF IInv, ChangesAudited
      <3>2. CASE \E e \in audit : [e EXCEPT !.from = x.from] = x
        BY <1>3, <3>2 DEF Audited
      <3>3. ASSUME NEW q \in Adms, pc[q] = "audit", [loc[q].entry EXCEPT !.from = x.from] = x
            PROVE  Audited(x)'
        <4>1. pc'[q] = "audit" /\ loc'[q].entry = loc[q].entry
          BY <1>7, <3>3
        <4>. QED  BY <3>3, <4>1 DEF Audited
      <3>. QED  BY <3>1, <3>2, <3>3 DEF Audited
    <2>3. CASE x = change
      <3>1. Action(p) # "import"
        <4>1. Action(p) = "import" => change.action = "import"
          <5>1. ImportEntry(Chal(p)) \in Change /\ ImportEntry(Chal(p)).action = "import"
            BY NoChangeTyped DEF ImportEntry, Change, Actions
          <5>. QED  BY <5>1, SameFlip
        <4>. QED  BY <2>1, <2>3, <4>1
      <3>2. loc[p].entry \in Change
        BY Known
      <3>3. [loc[p].entry EXCEPT !.from = x.from] = x
        BY <2>3, <3>1, <3>2, SameFlip
      <3>4. pc'[p] = "audit" /\ loc'[p].entry = loc[p].entry
        BY <1>6, <3>1
      <3>. QED  BY <3>3, <3>4 DEF Audited
    <2>. QED  BY <2>2, <2>3
  <1>13. \A q \in Adms : (Shape(pc[q], loc[q]) /\ Truthful(pc[q], loc[q]))'
    BY <1>6, <1>7
  <1>. QED  BY <1>10, <1>11, <1>12, <1>13 DEF IInv

LEMMA CreateChallengeKeeps ==
    ASSUME IInv, NEW p \in Adms, CreateChallenge(p)
    PROVE  IInv'
  <1>0. pc[p] = "create"
    BY DEF CreateChallenge
  <1>1. /\ loc[p] \in Local /\ Shape("create", loc[p]) /\ Action(p) = "create"
        /\ loc[p].entry \in Change /\ Chal(p) \in Chals /\ loc[p].spec \in Specs
    BY <1>0, Known DEF Shape, Runs
  <1>2. CASE Return(p) /\ UNCHANGED tables /\ UNCHANGED log
    BY <1>0, <1>2, RefusalKeeps
  <1>3. CASE /\ Store(Chal(p), loc[p].spec)
             /\ Commit(p, loc[p].entry, {}, IF RestrictToOwned(loc[p].role) THEN {loc[p].user} ELSE {})
    <2>1. PICK new : new = IF RestrictToOwned(loc[p].role) THEN {loc[p].user} ELSE {}
      OBVIOUS
    <2>2. new \in SUBSET Users
      BY <1>1, <2>1 DEF RestrictToOwned, Shape
    <2>3. Same(loc[p].entry, loc[p].entry)
      BY <1>1 DEF Same, Change
    <2>4. Commit(p, loc[p].entry, {}, new)
      BY <1>3, <2>1
    <2>. QED  BY <1>0, <1>1, <1>3, <2>2, <2>3, <2>4, CommitKeeps
  <1>. QED  BY <1>2, <1>3 DEF CreateChallenge

LEMMA CommitChallengeKeeps ==
    ASSUME IInv, NEW p \in Adms, CommitChallenge(p)
    PROVE  IInv'
  <1>0. pc[p] = "commit" /\ Action(p) = "update" /\ Store(Chal(p), loc[p].spec)
    BY DEF CommitChallenge
  <1>1. /\ loc[p] \in Local /\ Shape("commit", loc[p]) /\ Truthful("commit", loc[p])
        /\ loc[p].entry \in Change /\ Chal(p) \in Chals /\ loc[p].spec \in Specs
        /\ Exists(Chal(p))
    BY <1>0, Known DEF Shape, Truthful
  <1>2. PICK status : status = row[Chal(p)].status
    OBVIOUS
  <1>3. status \in Statuses
    BY <1>1, <1>2 DEF Exists, IInv, Tables, Statuses
  <1>4. PICK change : change = [loc[p].entry EXCEPT !.from = status]
    OBVIOUS
  <1>5. change \in Change /\ Same(change, loc[p].entry)
    BY <1>1, <1>3, <1>4, SameExcept
  <1>6. Commit(p, change, {}, {})
    BY <1>2, <1>4 DEF CommitChallenge
  <1>. QED  BY <1>0, <1>1, <1>5, <1>6, CommitKeeps

LEMMA CommitAuthorsKeeps ==
    ASSUME IInv, NEW p \in Adms, CommitAuthors(p)
    PROVE  IInv'
  <1>0. /\ pc[p] = "commit" /\ Action(p) = "authors" /\ UNCHANGED <<row, config>>
        /\ Commit(p, loc[p].entry, loc[p].old, loc[p].new)
    BY DEF CommitAuthors
  <1>1. /\ loc[p] \in Local /\ Shape("commit", loc[p]) /\ Truthful("commit", loc[p])
        /\ loc[p].entry \in Change /\ Chal(p) \in Chals /\ Exists(Chal(p))
    BY <1>0, Known DEF Shape, Truthful
  <1>2. loc[p].old \in SUBSET Users /\ loc[p].new \in SUBSET Users
    BY <1>1, Fields
  <1>3. Same(loc[p].entry, loc[p].entry)
    BY <1>1 DEF Same, Change
  <1>. QED  BY <1>0, <1>1, <1>2, <1>3, CommitKeeps

LEMMA ImportEntries ==
    ASSUME NEW e \in Change, e.action = "import", e.from = "none", e.to = "none", e.users = {},
           NEW c \in Chals
    PROVE  /\ [e EXCEPT !.chal = c] = ImportEntry(c) /\ ImportEntry(c) \in Change
           /\ ImportEntry(c).action = "import" /\ Same(ImportEntry(c), ImportEntry(c))
  <1>1. ImportEntry(c) \in Change
    BY DEF ImportEntry, Change, NoChange, Actions, Statuses
  <1>2. [e EXCEPT !.chal = c] = ImportEntry(c)
    <2>1. [e EXCEPT !.chal = c] = [NoChange EXCEPT !.action = "import", !.chal = c]
      BY NoChangeTyped DEF Change
    <2>. QED  BY <2>1 DEF ImportEntry
  <1>3. ImportEntry(c).action = "import"
    BY NoChangeTyped DEF ImportEntry, Change
  <1>4. Same(ImportEntry(c), ImportEntry(c))
    BY <1>1 DEF Same, Change
  <1>. QED  BY <1>1, <1>2, <1>3, <1>4

LEMMA CommitImportKeeps ==
    ASSUME IInv, NEW p \in Adms, CommitImport(p)
    PROVE  IInv'
  <1>0. pc[p] = "commit" /\ Action(p) = "import" /\ Store(Chal(p), loc[p].spec)
    BY DEF CommitImport
  <1>1. /\ loc[p] \in Local /\ Shape("commit", loc[p]) /\ loc[p].entry \in Change
        /\ Chal(p) \in Chals /\ loc[p].spec \in Specs /\ loc[p].entry.action = "import"
    BY <1>0, Known DEF Shape
  <1>2. loc[p].old \in SUBSET Users /\ loc[p].new \in SUBSET Users
    BY <1>1, Fields
  <1>3. PICK change : change = [loc[p].entry EXCEPT !.chal = Chal(p)]
    OBVIOUS
  <1>4. change \in Change /\ Same(change, ImportEntry(Chal(p)))
    BY <1>1, <1>3, ImportEntries DEF Shape
  <1>5. Commit(p, change, loc[p].old, loc[p].new)
    BY <1>3 DEF CommitImport
  <1>. QED  BY <1>0, <1>1, <1>2, <1>4, <1>5, CommitKeeps

-----------------------------------------------------------------------------
(* Users, announcements, the contest and the audit log.                      *)

\* A change whose audit entry is written next.
LEMMA ChangeKeeps ==
    ASSUME IInv, NEW p \in Adms, pc[p] \in {"user", "announce"}, pc' = [pc EXCEPT ![p] = "audit"],
           UNCHANGED <<row, config, authors, audit, begun, faults, loc>>,
           commits' = commits \cup {loc[p].entry},
           role' \in [Users -> Roles], held' \in [Users -> SUBSET Roles],
           \A u \in Users : /\ role'[u] \in RolesOf[u] /\ role'[u] \in held'[u]
                            /\ held'[u] \subseteq RolesOf[u] /\ held[u] \subseteq held'[u]
    PROVE  IInv'
  <1>1. /\ loc[p] \in Local /\ Shape(pc[p], loc[p]) /\ Truthful(pc[p], loc[p])
        /\ loc[p].entry \in Change /\ loc[p].entry.action \in {"user", "announcement"}
    BY Known DEF Shape, Runs
  <1>2. Tables'
    BY <1>1 DEF IInv, Tables, Exists, Steps
  <1>3. pc'[p] = "audit" /\ \A q \in Adms \ {p} : pc'[q] = pc[q]
    BY DEF IInv, Tables
  <1>4. ASSUME NEW s, NEW l \in Local, Truthful(s, l)
        PROVE  Truthful(s, l)'
    <2>1. l.entry.users \subseteq Users
      BY Fields
    <2>. QED  BY <1>4, <2>1 DEF Truthful, Exists
  <1>5. ASSUME NEW q \in Adms
        PROVE  (Shape(pc[q], loc[q]) /\ Truthful(pc[q], loc[q]))'
    <2>1. PICK s, l : s = pc'[q] /\ l = loc[q]
      OBVIOUS
    <2>2. CASE q # p
      <3>1. l \in Local /\ Shape(s, l) /\ Truthful(s, l)
        BY <1>3, <2>1, <2>2, Known
      <3>. QED  BY <1>4, <2>1, <3>1
    <2>3. CASE q = p
      <3>1. Shape("audit", l)
        BY <1>1, <2>1, <2>3 DEF Shape, Runs
      <3>2. Same(l.entry, l.entry) /\ l.entry \in commits'
        BY <1>1, <2>1, <2>3 DEF Same, Change
      <3>3. Truthful("audit", l)'
        BY <1>1, <2>1, <2>3, <3>2 DEF Truthful, Replacing
      <3>. QED  BY <1>3, <2>1, <2>3, <3>1, <3>3
    <2>. QED  BY <2>2, <2>3
  <1>6. AuditIsTrue'
    BY DEF IInv, AuditIsTrue
  <1>7. ChangesAudited'
    <2>1. SUFFICES ASSUME faults = 0, NEW x \in commits \cup {loc[p].entry},
                          x.action \notin {"contest", "import"}
                   PROVE  Audited(x)'
      BY DEF ChangesAudited
    <2>2. CASE x \in commits
      <3>1. Audited(x)
        BY <2>1, <2>2 DEF IInv, ChangesAudited
      <3>. QED  BY <1>3, <3>1 DEF Audited
    <2>3. CASE x = loc[p].entry
      <3>1. [loc[p].entry EXCEPT !.from = x.from] = x
        BY <1>1, <2>3 DEF Change
      <3>. QED  BY <1>3, <3>1 DEF Audited
    <2>. QED  BY <2>2, <2>3
  <1>. QED  BY <1>2, <1>5, <1>6, <1>7 DEF IInv

LEMMA UpdateUserKeeps ==
    ASSUME IInv, NEW p \in Adms, UpdateUser(p)
    PROVE  IInv'
  <1>0. pc[p] = "user"
    BY DEF UpdateUser
  <1>1. /\ loc[p] \in Local /\ Shape("user", loc[p])
    BY <1>0, Known
  <1>2. PICK to : to = loc[p].entry.to
    OBVIOUS
  <1>3. PICK u \in loc[p].entry.users : /\ role' = [role EXCEPT ![u] = to]
                                        /\ held' = [held EXCEPT ![u] = @ \cup {to}]
    BY <1>2 DEF UpdateUser
  <1>4. u \in Users /\ to \in RolesOf[u] /\ to \in Roles
    BY <1>1, <1>2, <1>3, Fields DEF Shape
  <1>5. role' \in [Users -> Roles] /\ held' \in [Users -> SUBSET Roles]
    BY <1>3, <1>4 DEF IInv, Tables
  <1>6. ASSUME NEW v \in Users
        PROVE  /\ role'[v] \in RolesOf[v] /\ role'[v] \in held'[v]
               /\ held'[v] \subseteq RolesOf[v] /\ held[v] \subseteq held'[v]
    BY <1>3, <1>4 DEF IInv, Tables
  <1>. QED  BY <1>0, <1>5, <1>6, ChangeKeeps DEF UpdateUser

LEMMA AnnounceKeeps ==
    ASSUME IInv, NEW p \in Adms, Announce(p)
    PROVE  IInv'
  <1>1. /\ role' \in [Users -> Roles] /\ held' \in [Users -> SUBSET Roles]
        /\ \A u \in Users : /\ role'[u] \in RolesOf[u] /\ role'[u] \in held'[u]
                            /\ held'[u] \subseteq RolesOf[u] /\ held[u] \subseteq held'[u]
    BY DEF Announce, tables, IInv, Tables
  <1>. QED  BY <1>1, ChangeKeeps DEF Announce, Goto, tables

\* The last statement of a request that changes the log.
LEMMA LastStatementKeeps ==
    ASSUME IInv, NEW p \in Adms, Return(p), UNCHANGED tables, UNCHANGED <<begun, faults>>,
           commits \subseteq commits', commits' \subseteq Change, audit' \subseteq Change,
           AuditIsTrue', ChangesAudited'
    PROVE  IInv'
  <1>1. /\ pc' \in [Adms -> Steps] /\ loc' \in [Adms -> Local]
        /\ \A q \in Adms : \/ pc'[q] = "idle" /\ loc'[q] = NoLoc
                           \/ pc'[q] = pc[q] /\ loc'[q] = loc[q]
    BY NoLocTyped DEF Return, IInv, Tables, Steps
  <1>2. Tables'
    BY <1>1 DEF IInv, Tables, tables, Exists
  <1>3. ASSUME NEW q \in Adms
        PROVE  (Shape(pc[q], loc[q]) /\ Truthful(pc[q], loc[q]))'
    <2>1. PICK s, l : s = pc'[q] /\ l = loc'[q]
      OBVIOUS
    <2>2. Shape(s, l) /\ Truthful(s, l)
      BY <1>1, <2>1, Idle DEF IInv
    <2>3. Truthful(s, l)'
      BY <2>2 DEF Truthful, Exists, tables
    <2>. QED  BY <2>1, <2>2, <2>3
  <1>. QED  BY <1>2, <1>3 DEF IInv

LEMMA UpdateContestKeeps ==
    ASSUME IInv, NEW p \in Adms, UpdateContest(p)
    PROVE  IInv'
  <1>0. /\ pc[p] = "contest" /\ Return(p) /\ UNCHANGED tables /\ UNCHANGED <<audit, begun, faults>>
        /\ commits' = commits \cup {loc[p].entry}
    BY DEF UpdateContest
  <1>1. loc[p].entry \in Change /\ loc[p].entry.action = "contest"
    BY <1>0, Known DEF Shape, Runs
  <1>2. AuditIsTrue'
    BY <1>0 DEF IInv, AuditIsTrue
  <1>3. ChangesAudited'
    <2>1. SUFFICES ASSUME faults = 0, NEW x \in commits, x.action \notin {"contest", "import"}
                   PROVE  Audited(x)'
      BY <1>0, <1>1 DEF ChangesAudited
    <2>2. Audited(x)
      BY <2>1 DEF IInv, ChangesAudited
    <2>3. \A q \in Adms : pc[q] = "audit" => pc'[q] = "audit" /\ loc'[q] = loc[q]
      BY <1>0 DEF Return, IInv, Tables
    <2>. QED  BY <1>0, <2>2, <2>3 DEF Audited
  <1>4. commits' \subseteq Change /\ audit' \subseteq Change
    BY <1>0, <1>1 DEF IInv, Tables
  <1>. QED  BY <1>0, <1>2, <1>3, <1>4, LastStatementKeeps

LEMMA CreateAuditLogKeeps ==
    ASSUME IInv, NEW p \in Adms, CreateAuditLog(p)
    PROVE  IInv'
  <1>0. /\ pc[p] = "audit" /\ Return(p) /\ UNCHANGED tables /\ UNCHANGED <<commits, begun, faults>>
        /\ audit' = audit \cup AuditEntries(p)
    BY DEF CreateAuditLog
  <1>1. /\ loc[p] \in Local /\ Shape("audit", loc[p]) /\ Truthful("audit", loc[p])
        /\ loc[p].entry \in Change /\ loc[p].done \subseteq Chals
        /\ Action(p) = loc[p].entry.action
    BY <1>0, Known, Fields
  <1>2. ASSUME NEW e \in AuditEntries(p)
        PROVE  e \in Change /\ \E change \in commits : Same(change, e)
    <2>1. CASE Action(p) = "import"
      <3>1. PICK d \in loc[p].done : e = [loc[p].entry EXCEPT !.chal = d]
        BY <2>1 DEF AuditEntries
      <3>2. e = ImportEntry(d) /\ ImportEntry(d) \in Change
        BY <1>1, <2>1, <3>1, ImportEntries DEF Shape
      <3>. QED  BY <1>1, <2>1, <3>2 DEF Truthful
    <2>2. CASE Action(p) # "import"
      <3>1. e = loc[p].entry
        BY <2>2 DEF AuditEntries
      <3>. QED  BY <1>1, <2>2, <3>1 DEF Truthful
    <2>. QED  BY <2>1, <2>2
  <1>3. AuditIsTrue'
    <2>1. ASSUME NEW e \in audit'
          PROVE  \E change \in commits : [change EXCEPT !.from = e.from] = e
      BY <1>0, <1>2, <2>1 DEF IInv, AuditIsTrue, Same
    <2>. QED  BY <1>0, <2>1 DEF AuditIsTrue
  <1>4. ChangesAudited'
    <2>1. SUFFICES ASSUME faults = 0, NEW x \in commits, x.action \notin {"contest", "import"}
                   PROVE  Audited(x)'
      BY <1>0 DEF ChangesAudited
    <2>2. Audited(x)
      BY <2>1 DEF IInv, ChangesAudited
    <2>3. CASE \E e \in audit : [e EXCEPT !.from = x.from] = x
      BY <1>0, <2>3 DEF Audited
    <2>4. ASSUME NEW q \in Adms \ {p}, pc[q] = "audit", [loc[q].entry EXCEPT !.from = x.from] = x
          PROVE  Audited(x)'
      <3>1. pc'[q] = "audit" /\ loc'[q] = loc[q]
        BY <1>0, <2>4 DEF Return, IInv, Tables
      <3>. QED  BY <2>4, <3>1 DEF Audited
    <2>5. CASE [loc[p].entry EXCEPT !.from = x.from] = x
      <3>1. x \in Change
        BY DEF IInv, Tables
      <3>2. loc[p].entry.action = x.action
        BY <1>1, <2>5, <3>1 DEF Change
      <3>3. loc[p].entry \in audit'
        BY <1>0, <1>1, <2>1, <3>2 DEF AuditEntries
      <3>. QED  BY <2>5, <3>3 DEF Audited
    <2>. QED  BY <2>2, <2>3, <2>4, <2>5 DEF Audited
  <1>5. commits' \subseteq Change /\ audit' \subseteq Change
    BY <1>0, <1>2 DEF IInv, Tables
  <1>. QED  BY <1>0, <1>3, <1>4, <1>5, LastStatementKeeps

-----------------------------------------------------------------------------
(* The theorems.                                                             *)

LEMMA InitIInv == Init => IInv
  <1>. SUFFICES ASSUME Init
                PROVE  IInv
    OBVIOUS
  <1>1. role \in [Users -> Roles] /\ \A u \in Users : role[u] \in RolesOf[u]
    BY DEF Init
  <1>2. held \in [Users -> SUBSET Roles] /\ \A u \in Users : held[u] = {role[u]}
    BY <1>1 DEF Init
  <1>3. row \in [Chals -> RowOf(Specs) \cup {NoRow}]
    <2>1. \A s \in Inputs : s.row \in RowOf(Specs)
      BY InputTyped
    <2>. QED  BY <2>1 DEF Init
  <1>4. config \in [Chals -> {s.config : s \in Specs} \cup {NoConfig}]
        /\ \A c \in Chals : config[c] = NoConfig
    BY DEF Init
  <1>5. /\ authors \subseteq {c \in Chals : Exists(c)} \X Users
        /\ audit = {} /\ commits = {} /\ begun = 0 /\ faults = 0
    BY DEF Init
  <1>6. /\ pc \in [Adms -> Steps] /\ loc \in [Adms -> Local]
        /\ \A p \in Adms : pc[p] = "idle" /\ loc[p] = NoLoc
    BY NoLocTyped DEF Init, Steps
  <1>7. Tables
    BY <1>1, <1>2, <1>3, <1>4, <1>5, <1>6, AdminAssumption DEF Tables
  <1>. QED  BY <1>5, <1>6, <1>7, Idle DEF IInv, AuditIsTrue, ChangesAudited

LEMMA ContinueKeeps ==
    ASSUME IInv, NEW p \in Adms, Continue(p)
    PROVE  IInv'
  BY CreateChallengeKeeps, GetChallengeKeeps, UpdateChallengeKeeps, LockChallengeKeeps,
     CommitChallengeKeeps, CandidateKeeps, ClearAuthorsKeeps, DeleteAuthorsKeeps, BindAuthorKeeps,
     AuthorsBoundKeeps, CommitAuthorsKeeps, ImportFileKeeps, UpsertChallengeKeeps,
     CommitImportKeeps, ImportDoneKeeps, UpdateUserKeeps, AnnounceKeeps, UpdateContestKeeps,
     CreateAuditLogKeeps, DeadlockDetectedKeeps
  DEF Continue

LEMMA StutterKeeps == IInv /\ UNCHANGED vars => IInv'
  <1>. SUFFICES ASSUME IInv, UNCHANGED vars
                PROVE  IInv'
    OBVIOUS
  <1>1. Tables'
    BY DEF IInv, Tables, vars, Exists
  <1>2. ASSUME NEW q \in Adms
        PROVE  (Shape(pc[q], loc[q]) /\ Truthful(pc[q], loc[q]))'
    <2>1. PICK s, l : s = pc'[q] /\ l = loc'[q]
      OBVIOUS
    <2>2. Shape(s, l) /\ Truthful(s, l)
      BY <2>1 DEF IInv, vars
    <2>3. Truthful(s, l)'
      BY <2>2, TruthfulKept DEF vars
    <2>. QED  BY <2>1, <2>2, <2>3
  <1>3. AuditIsTrue' /\ ChangesAudited'
    BY DEF IInv, vars, AuditIsTrue, ChangesAudited, Audited
  <1>. QED  BY <1>1, <1>2, <1>3 DEF IInv

LEMMA NextKeeps == IInv /\ [Next]_vars => IInv'
  <1>1. ASSUME IInv, Next
        PROVE  IInv'
    <2>1. ASSUME NEW p \in Adms, begun < MaxRequests,
                 \E u \in Users : \E r \in held[u] : Begins(p, u, r) \/ ImportRequest(p, u, r)
          PROVE  IInv'
      BY <1>1, <2>1, RequestKeeps
    <2>. QED
      BY <1>1, <2>1, ImportCommandKeeps, ContinueKeeps, FailsKeeps, CrashKeeps DEF Next
  <1>. QED  BY <1>1, StutterKeeps

\* The inductive invariant: what the goroutines have in their locals at each statement agrees
\* with the tables, whatever the others commit in between.
THEOREM Invariance == Spec => []IInv
  BY InitIInv, NextKeeps, PTL DEF Spec

\* Every reachable state is well typed, and a goroutine without a request has no locals.
THEOREM Typed == Spec => []TypeOK
  BY Invariance, TypeOKHolds, PTL

\* An author writes a challenge only if it was bound to the author at some time during the
\* request: the UPDATE asks again for what GetChallenge was told.
THEOREM WritesOwned == Spec => []AuthorsWriteOwned
  <1>1. IInv => AuthorsWriteOwned
    BY DEF IInv, Truthful, AuthorsWriteOwned, RestrictToOwned
  <1>. QED  BY <1>1, Invariance, PTL

\* SetChallengeAuthors binds only users that were staff at some time, although the roles are
\* read before the transaction.
THEOREM StaffBound == Spec => []AuthorsAreStaff
  <1>1. IInv => AuthorsAreStaff
    BY DEF IInv, Truthful, AuthorsAreStaff
  <1>. QED  BY <1>1, Invariance, PTL

\* What CreateAuditLog writes has been committed.
THEOREM AuditTrue == Spec => []AuditIsTrue
  BY Invariance, PTL DEF IInv

\* Without failures, every change of a challenge, of authors, of users and of announcements
\* through the API has its audit entry, or a goroutine that is about to write it.  Changes of
\* the contest and imports are left out: the code falls short of docs/requirements.md:59 there.
THEOREM ChangesLogged == Spec => []ChangesAudited
  BY Invariance, PTL DEF IInv

-----------------------------------------------------------------------------
(* Replacements of the authors.                                              *)

\* A goroutine's own statements move nobody else.
LEMMA OwnSteps ==
    ASSUME IInv, NEW p \in Adms, NEW q \in Adms \ {p}, Continue(q) \/ Fails(q) \/ ImportCommand(q)
    PROVE  pc'[p] = pc[p]
  <1>1. DOMAIN pc = Adms
    BY DEF IInv, Tables
  <1>2. \A s : pc' = [pc EXCEPT ![q] = s] => pc'[p] = pc[p]
    BY <1>1
  <1>3. ASSUME CreateChallenge(q) \/ GetChallenge(q) \/ UpdateChallenge(q) \/ LockChallenge(q)
               \/ CommitChallenge(q) \/ Candidate(q) \/ ClearAuthors(q) \/ DeleteAuthors(q)
               \/ BindAuthor(q) \/ AuthorsBound(q) \/ CommitAuthors(q)
        PROVE  pc'[p] = pc[p]
    BY <1>2, <1>3 DEF CreateChallenge, GetChallenge, UpdateChallenge, LockChallenge,
       CommitChallenge, Candidate, ClearAuthors, DeleteAuthors, BindAuthor, AuthorsBound,
       CommitAuthors, Goto, Return, Commit
  <1>4. ASSUME ImportFile(q) \/ UpsertChallenge(q) \/ CommitImport(q) \/ ImportDone(q)
               \/ UpdateUser(q) \/ Announce(q) \/ UpdateContest(q) \/ CreateAuditLog(q)
               \/ DeadlockDetected(q) \/ Fails(q) \/ ImportCommand(q)
        PROVE  pc'[p] = pc[p]
    BY <1>2, <1>4 DEF ImportFile, UpsertChallenge, CommitImport, ImportDone, UpdateUser, Announce,
       UpdateContest, CreateAuditLog, DeadlockDetected, Fails, ImportCommand, Goto, Return, Commit
  <1>. QED  BY <1>3, <1>4 DEF Continue

\* A transaction that replaces the authors ends well only by its COMMIT.
LEMMA EndsByCommit ==
    ASSUME IInv, Next, NEW p \in Adms, pc[p] = "commit", pc'[p] \in {"load", "audit"}
    PROVE  CommitChallenge(p) \/ CommitAuthors(p) \/ CommitImport(p)
  <1>0. DOMAIN pc = Adms
    BY DEF IInv, Tables
  <1>1. ASSUME NEW q \in Adms, pc[q] = "idle", NEW u, NEW r, Begins(q, u, r) \/ ImportRequest(q, u, r)
        PROVE  FALSE
    <2>1. \E s : pc' = [pc EXCEPT ![q] = s]
      BY <1>1 DEF Begins, ImportRequest, Begin, Goto
    <2>. QED  BY <1>0, <1>1, <2>1
  <1>2. ~Crash
    BY <1>0 DEF Crash
  <1>3. ~Return(p)
    BY <1>0 DEF Return
  <1>4. PICK q \in Adms : Continue(q) \/ Fails(q) \/ ImportCommand(q)
    BY <1>1, <1>2 DEF Next
  <1>5. q = p
    BY <1>4, OwnSteps
  <1>6. Continue(p)
    BY <1>3, <1>4, <1>5 DEF Fails, ImportCommand, Goto
  <1>. QED
    BY <1>3, <1>6 DEF Continue, CreateChallenge, GetChallenge, UpdateChallenge, LockChallenge,
       Candidate, ClearAuthors, DeleteAuthors, BindAuthor, AuthorsBound, ImportFile,
       UpsertChallenge, ImportDone, UpdateUser, Announce, UpdateContest, CreateAuditLog,
       DeadlockDetected, Goto

\* SetChallengeAuthors leaves no binding that neither it nor a transaction that committed since
\* its DELETE began has asked for, however many of them replace the authors of one challenge.
THEOREM AskedForKept == Spec => AuthorsAskedFor
  <1>. DEFINE Step == \A p \in Adms : (pc[p] = "commit" /\ Replaces(p) /\ pc'[p] \in {"load", "audit"})
                        => {u \in Users : <<Chal(p), u>> \in authors'} \subseteq Asked(p) \cup loc[p].since
  <1>1. ASSUME IInv, Next
        PROVE  Step
    <2>1. SUFFICES ASSUME NEW p \in Adms, pc[p] = "commit", Replaces(p), pc'[p] \in {"load", "audit"},
                          NEW u \in Users, <<Chal(p), u>> \in authors'
                   PROVE  u \in Asked(p) \cup loc[p].since
      OBVIOUS
    <2>2. /\ loc[p] \in Local /\ Shape("commit", loc[p]) /\ Truthful("commit", loc[p])
          /\ Chal(p) = loc[p].entry.chal /\ Action(p) = loc[p].entry.action
      BY <1>1, <2>1, Known
    <2>3. Action(p) \in {"authors", "import"}
      BY <2>1, <2>2 DEF Replaces, Shape, Runs
    <2>4. \E change : Commit(p, change, loc[p].old, loc[p].new)
      <3>1. ~CommitChallenge(p)
        BY <2>3 DEF CommitChallenge
      <3>2. CommitAuthors(p) \/ CommitImport(p)
        BY <1>1, <2>1, <3>1, EndsByCommit
      <3>. QED  BY <3>2 DEF CommitAuthors, CommitImport
    <2>5. PICK c : c = Chal(p)
      OBVIOUS
    <2>6. \/ <<c, u>> \in authors /\ u \notin loc[p].old
          \/ u \in loc[p].new
      <3>1. authors' = (authors \ ({c} \X loc[p].old)) \cup ({c} \X loc[p].new)
        BY <2>4, <2>5 DEF Commit
      <3>2. <<c, u>> \in authors'
        BY <2>1, <2>5
      <3>. QED  BY <3>1, <3>2
    <2>7. <<c, u>> \in authors => u \in loc[p].old \cup loc[p].since
      BY <2>1, <2>2, <2>5 DEF Truthful, Replacing, Replaces
    <2>8. loc[p].new \subseteq Asked(p)
      BY <2>2, <2>3 DEF Shape, Asked, AskedOf
    <2>. QED  BY <2>6, <2>7, <2>8
  <1>2. UNCHANGED vars => Step
    BY DEF vars
  <1>3. IInv /\ [Next]_vars => [Step]_vars
    BY <1>1, <1>2
  <1>. QED  BY <1>3, Invariance, PTL DEF Spec, AuthorsAskedFor

-----------------------------------------------------------------------------
(* What is written to a challenge.                                           *)

\* A goroutine writes what its request or its template asked for.
Faithful == \A p \in Adms : loc[p].spec = loc[p].asked

\* The importer reads in a file what it declares.
LEMMA FileFaithful ==
    ASSUME NEW file \in Files
    PROVE  file.spec = file.asked
  <1>1. PICK text \in Texts :
           file = [spec  |-> LoadSpecFile(text),
                   asked |-> IF LoadSpecFile(text) = NoSpec THEN NoSpec ELSE Declared(text)]
    BY DEF Files
  <1>2. text \in Seq(Line)
    BY AdminAssumption
  <1>3. LoadSpecFile(text) # NoSpec => LoadSpecFile(text) = Declared(text)
    BY <1>2, LoadedAsDeclared
  <1>. QED  BY <1>1, <1>3

\* The locals m are as l in what is to be written, or both of its fields agree.
SpecKept(l, m) == (m.spec = l.spec /\ m.asked = l.asked) \/ m.spec = m.asked

LEMMA LocalSpecs ==
    ASSUME NEW l \in Local
    PROVE  /\ \A x : /\ SpecKept(l, [l EXCEPT !.entry.from = x])
                     /\ SpecKept(l, [l EXCEPT !.check = x])
                     /\ SpecKept(l, [l EXCEPT !.old = x])
                     /\ SpecKept(l, [l EXCEPT !.bind = x])
           /\ \A x, y : SpecKept(l, [l EXCEPT !.bind = x, !.new = y])
  BY DEF Local, SpecKept

LEMMA ReturnSpec == SpecKept(NoLoc, NoLoc) /\ \A l : SpecKept(l, NoLoc)
  BY NoLocTyped DEF SpecKept

\* A commit of p: its locals are reset, those of the others keep what they write.
LEMMA CommitSpec ==
    ASSUME IInv, NEW p \in Adms, NEW change, NEW old, NEW new, Commit(p, change, old, new),
           NEW q \in Adms
    PROVE  SpecKept(loc[q], loc'[q])
  <1>1. loc[q] \in Local
    BY DEF IInv, Tables
  <1>2. CASE q = p
    <2>1. loc'[p] = Rest(p)
      BY DEF Commit
    <2>2. Rest(p).spec = NoSpec /\ Rest(p).asked = NoSpec
      BY NoLocTyped DEF Rest, Local
    <2>. QED  BY <1>2, <2>1, <2>2 DEF SpecKept
  <1>3. CASE q # p
    <2>1. PICK x, y, z : loc'[q] = [loc[q] EXCEPT !.owned = x, !.old = y, !.since = z]
      BY <1>3 DEF Commit
    <2>2. loc'[q].spec = loc[q].spec /\ loc'[q].asked = loc[q].asked
      BY <1>1, <2>1 DEF Local
    <2>. QED  BY <2>2 DEF SpecKept
  <1>. QED  BY <1>2, <1>3


\* A statement changes what a goroutine writes only together with what it asked for.
LEMMA StepSpec ==
    ASSUME IInv, NEW p \in Adms, Continue(p) \/ Fails(p) \/ ImportCommand(p), NEW q \in Adms
    PROVE  SpecKept(loc[q], loc'[q])
  <1>0. loc \in [Adms -> Local] /\ loc[p] \in Local
    BY DEF IInv, Tables
  <1>1. CASE UNCHANGED loc
    BY <1>1 DEF SpecKept
  <1>2. CASE Return(p)
    BY <1>0, <1>2, ReturnSpec DEF Return, SpecKept
  <1>3. ASSUME NEW l, SpecKept(loc[p], l), loc' = [loc EXCEPT ![p] = l]
        PROVE  SpecKept(loc[q], loc'[q])
    BY <1>0, <1>3 DEF SpecKept
  <1>4. ASSUME CreateChallenge(p) \/ CommitChallenge(p) \/ CommitAuthors(p) \/ CommitImport(p)
        PROVE  SpecKept(loc[q], loc'[q])
    BY <1>2, <1>4, CommitSpec DEF CreateChallenge, CommitChallenge, CommitAuthors, CommitImport
  <1>5. ASSUME GetChallenge(p)
        PROVE  SpecKept(loc[q], loc'[q])
    <2>1. loc' = [loc EXCEPT ![p] = [loc[p] EXCEPT !.entry.from = row[Chal(p)].status]] \/ Return(p)
      BY <1>5 DEF GetChallenge
    <2>. QED  BY <1>0, <1>2, <1>3, <2>1, LocalSpecs
  <1>6. ASSUME Candidate(p)
        PROVE  SpecKept(loc[q], loc'[q])
    <2>1. \/ UNCHANGED loc \/ Return(p)
          \/ \E u : loc' = [loc EXCEPT ![p] = [loc[p] EXCEPT !.check = loc[p].check \ {u}]]
      BY <1>6 DEF Candidate
    <2>. QED  BY <1>0, <1>1, <1>2, <1>3, <2>1, LocalSpecs
  <1>7. ASSUME ClearAuthors(p)
        PROVE  SpecKept(loc[q], loc'[q])
    <2>1. loc' = [loc EXCEPT ![p] = [loc[p] EXCEPT !.old = Bound(p)]]
      BY <1>7 DEF ClearAuthors
    <2>. QED  BY <1>0, <1>3, <2>1, LocalSpecs
  <1>8. ASSUME BindAuthor(p)
        PROVE  SpecKept(loc[q], loc'[q])
    <2>1. \E x, y : loc' = [loc EXCEPT ![p] = [loc[p] EXCEPT !.bind = x, !.new = y]]
      BY <1>8 DEF BindAuthor
    <2>. QED  BY <1>0, <1>3, <2>1, LocalSpecs
  <1>9. ASSUME UpsertChallenge(p)
        PROVE  SpecKept(loc[q], loc'[q])
    <2>1. loc' = [loc EXCEPT ![p] = [loc[p] EXCEPT !.bind = Resolved(loc[p].spec.owners)]]
      BY <1>9 DEF UpsertChallenge
    <2>. QED  BY <1>0, <1>3, <2>1, LocalSpecs
  <1>10. ASSUME ImportFile(p)
         PROVE  SpecKept(loc[q], loc'[q])
    <2>1. ASSUME NEW file \in Files,
                 loc' = [loc EXCEPT ![p].files = @ - 1, ![p].entry.chal = file.spec.slug,
                                    ![p].spec = file.spec, ![p].asked = file.asked]
          PROVE  SpecKept(loc[q], loc'[q])
      <3>1. file.spec = file.asked
        BY <2>1, FileFaithful
      <3>2. loc'[p].spec = file.spec /\ loc'[p].asked = file.asked
        BY <1>0, <2>1 DEF Local
      <3>3. q # p => loc'[q] = loc[q]
        BY <1>0, <2>1
      <3>. QED  BY <3>1, <3>2, <3>3 DEF SpecKept
    <2>. QED  BY <1>2, <1>10, <2>1 DEF ImportFile
  <1>11. ASSUME ImportCommand(p)
         PROVE  SpecKept(loc[q], loc'[q])
    <2>1. PICK n : loc' = [loc EXCEPT ![p].files = n, ![p].entry.action = "import"]
      BY <1>11 DEF ImportCommand
    <2>2. loc'[p].spec = loc[p].spec /\ loc'[p].asked = loc[p].asked
      BY <1>0, <2>1 DEF Local
    <2>3. q # p => loc'[q] = loc[q]
      BY <1>0, <2>1
    <2>. QED  BY <2>2, <2>3 DEF SpecKept
  <1>12. ASSUME \/ UpdateChallenge(p) \/ LockChallenge(p) \/ DeleteAuthors(p) \/ AuthorsBound(p)
                \/ ImportDone(p) \/ UpdateUser(p) \/ Announce(p) \/ UpdateContest(p)
                \/ CreateAuditLog(p) \/ DeadlockDetected(p) \/ Fails(p)
         PROVE  UNCHANGED loc \/ Return(p)
    BY <1>12 DEF UpdateChallenge, LockChallenge, DeleteAuthors, AuthorsBound, ImportDone,
       UpdateUser, Announce, UpdateContest, CreateAuditLog, DeadlockDetected, Fails
  <1>. QED
    BY <1>1, <1>2, <1>4, <1>5, <1>6, <1>7, <1>8, <1>9, <1>10, <1>11, <1>12 DEF Continue

LEMMA FaithfulKept == IInv /\ Faithful /\ [Next]_vars => Faithful'
  <1>1. ASSUME IInv, Faithful, NEW q \in Adms, SpecKept(loc[q], loc'[q])
        PROVE  loc'[q].spec = loc'[q].asked
    BY <1>1 DEF Faithful, SpecKept
  <1>2. ASSUME IInv, NEW p \in Adms, NEW u, NEW r, Begins(p, u, r) \/ ImportRequest(p, u, r),
               NEW q \in Adms
        PROVE  SpecKept(loc[q], loc'[q])
    <2>1. ASSUME NEW local, NEW permission, NEW step, Begin(p, u, r, permission, step, local),
                 DOMAIN local = DOMAIN NoLoc
          PROVE  SpecKept(loc[q], loc'[q])
      <3>1. loc' = [loc EXCEPT ![p] = [local EXCEPT !.user = u, !.role = r, !.asked = local.spec,
                                                    !.owned = <<local.entry.chal, u>> \in authors]]
        BY <2>1 DEF Begin
      <3>. QED  BY <1>2, <2>1, <3>1 DEF IInv, Tables, SpecKept, NoLoc
    <2>. QED  BY <1>2, <2>1 DEF Begins, ImportRequest, NoLoc
  <1>3. ASSUME IInv, Crash, NEW q \in Adms
        PROVE  SpecKept(loc[q], loc'[q])
    BY <1>3, ReturnSpec DEF Crash, SpecKept
  <1>4. ASSUME IInv, Next, NEW q \in Adms
        PROVE  SpecKept(loc[q], loc'[q])
    BY <1>2, <1>3, <1>4, StepSpec DEF Next
  <1>5. ASSUME UNCHANGED vars, Faithful
        PROVE  Faithful'
    BY <1>5 DEF vars, Faithful
  <1>. QED  BY <1>1, <1>4, <1>5 DEF Faithful

\* The tables of challenges are written by the commits of three operations only.
LEMMA Writers ==
    ASSUME IInv, Next, UNCHANGED <<row, config>> => FALSE
    PROVE  \E p \in Adms : CreateChallenge(p) \/ CommitChallenge(p) \/ CommitImport(p)
  <1>1. ASSUME NEW p, NEW u, NEW r, Begins(p, u, r) \/ ImportRequest(p, u, r)
        PROVE  UNCHANGED <<row, config>>
    BY <1>1 DEF Begins, ImportRequest, Begin, tables
  <1>2. ASSUME NEW p \in Adms, Continue(p)
        PROVE  CreateChallenge(p) \/ CommitChallenge(p) \/ CommitImport(p)
    BY <1>2 DEF Continue, GetChallenge, UpdateChallenge, LockChallenge, Candidate, ClearAuthors,
       DeleteAuthors, BindAuthor, AuthorsBound, CommitAuthors, ImportFile, UpsertChallenge,
       ImportDone, UpdateUser, Announce, UpdateContest, CreateAuditLog, DeadlockDetected, tables
  <1>3. ASSUME NEW p, Fails(p) \/ ImportCommand(p) \/ Crash
        PROVE  UNCHANGED <<row, config>>
    BY <1>3 DEF Fails, ImportCommand, Crash, tables
  <1>. QED  BY <1>1, <1>2, <1>3 DEF Next

\* A challenge and its runtime configuration are stored together, as one request asked or as one
\* template declares them; a request without a configuration leaves the stored one.
THEOREM WrittenWhole == Spec => WritesAreWhole
  <1>. DEFINE Written(c, p) == /\ Chal(p) = c /\ loc[p].asked # NoSpec
                               /\ loc[p].spec = loc[p].asked
                               /\ row'[c] = loc[p].asked.row
                               /\ config'[c] = IF loc[p].asked.config = NoConfig
                                               THEN config[c] ELSE loc[p].asked.config
              Step == \A c \in Chals : (row'[c] # row[c] \/ config'[c] # config[c])
                                         => \E p \in Adms : Written(c, p)
  <1>1. ASSUME IInv, Faithful, Next
        PROVE  Step
    <2>1. SUFFICES ASSUME NEW c \in Chals, row'[c] # row[c] \/ config'[c] # config[c]
                   PROVE  \E p \in Adms : Written(c, p)
      OBVIOUS
    <2>2. PICK p \in Adms : CreateChallenge(p) \/ CommitChallenge(p) \/ CommitImport(p)
      BY <1>1, <2>1, Writers
    <2>3. /\ Shape(pc[p], loc[p]) /\ Chal(p) = loc[p].entry.chal
          /\ Action(p) = loc[p].entry.action
      BY <1>1, Known
    <2>4. loc[p].spec \in Specs
      BY <2>2, <2>3 DEF Shape, CreateChallenge, CommitChallenge, CommitImport
    <2>5. loc[p].spec = loc[p].asked /\ loc[p].asked # NoSpec
      BY <1>1, <2>4 DEF Faithful, Specs
    <2>6. Store(Chal(p), loc[p].spec)
      BY <2>1, <2>2 DEF CreateChallenge, CommitChallenge, CommitImport, tables
    <2>7. row \in [Chals -> RowOf(Specs) \cup {NoRow}] /\ DOMAIN config = Chals
      BY <1>1 DEF IInv, Tables
    <2>8. Chal(p) = c
      BY <2>1, <2>6, <2>7 DEF Store
    <2>9. /\ row'[c] = loc[p].spec.row
          /\ config'[c] = IF loc[p].spec.config = NoConfig THEN config[c] ELSE loc[p].spec.config
      BY <2>6, <2>7, <2>8 DEF Store
    <2>. QED  BY <2>5, <2>8, <2>9
  <1>2. UNCHANGED vars => Step
    BY DEF vars
  <1>3. IInv /\ Faithful /\ [Next]_vars => [Step]_vars
    BY <1>1, <1>2
  <1>4. Init => Faithful
    BY NoLocTyped DEF Init, Faithful
  <1>. QED  BY <1>3, <1>4, FaithfulKept, Invariance, PTL DEF Spec, WritesAreWhole

===============================================================================
