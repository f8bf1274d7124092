--------------------------- MODULE InstanceRuntime ---------------------------
(***************************************************************************)
(* The life cycle of dynamic challenge instances: runtime.Service with its *)
(* global mutex, the challenge_instances table it writes through           *)
(* store.RuntimeRepository, the containers it drives through               *)
(* runtime.DockerManager, the background sweeper and reconciler started by *)
(* app.Server, and admin.Service.TerminateInstance, which touches the same *)
(* rows and containers WITHOUT taking the mutex.                           *)
(*                                                                         *)
(* One action is one database statement or one Docker request (taking the  *)
(* mutex is folded into the first call made under it), so every            *)
(* interleaving of a mutex holder with administrators, the clock,          *)
(* containers that exit by themselves and a crash of the API process is a  *)
(* behaviour.  A call that the code rejects before it changes anything     *)
(* leaves no trace and is a guard here.  Replies, logging, access URLs and *)
(* audit entries are left out, and so is GetInstance, which only reads.    *)
(* The status 'creating' of the schema is never written by the code.       *)
(***************************************************************************)
EXTENDS Integers, FiniteSets

CONSTANTS
    Users,       \* user ids
    Chals,       \* challenge ids
    Reqs,        \* request goroutines that call runtime.Service
    Admins,      \* request goroutines that call admin.Service.TerminateInstance
    Bg,          \* the goroutine of Server.StartBackground
    NoProc,      \* nobody holds the mutex
    NoKey,       \* no (user, challenge) pair
    Configs,     \* the runtime configurations an administrator may save
    MaxTTL,      \* an upper bound of their time to live
    PortMin,     \* INSTANCE_PORT_MIN; 0 lets Docker choose the port
    PortMax,     \* INSTANCE_PORT_MAX
    DockerPorts, \* the ports Docker chooses from when no range is configured
    Faults,      \* the failures that may happen, see FaultKinds
    Stuck,       \* containers that Docker never manages to stop
    MaxRows,     \* bound: rows ever inserted
    MaxConts,    \* bound: containers ever created
    MaxTime,     \* bound: the clock
    MaxCrashes   \* bound: crashes of the API process

FaultKinds ==
    {"db",        \* a database call returns an error and has no effect
     "insert",    \* CreateInstance fails
     "lost",      \* CreateInstance commits and its reply is lost
     "create",    \* Docker refuses to create the container
     "created",   \* Docker creates it and the reply is lost
     "start",     \* the start request fails
     "foreign",   \* another program on the host holds the port
     "remove",    \* the deferred removal fails as well
     "inspect",   \* the inspect request after a start fails
     "stop",      \* a stop request fails, with or without effect
     "exit"}      \* a container exits by itself

Keys    == Users \X Chals
RowIds  == 1..MaxRows
ContIds == 1..MaxConts
Procs   == Reqs \cup Admins \cup {Bg}
Config  == [published : BOOLEAN, dynamic : BOOLEAN, runtime : BOOLEAN,
            ttl : Nat, maxRenew : Nat, maxActive : Nat, cooldown : Nat]

ASSUME ProcAssumption ==
    /\ NoProc \notin Procs /\ NoKey \notin Keys
    /\ Bg \notin Reqs \cup Admins /\ Reqs \cap Admins = {}

ASSUME ConfigAssumption ==
    /\ Configs # {} /\ Configs \subseteq Config
    /\ MaxTTL \in Nat /\ \A g \in Configs : g.ttl <= MaxTTL

ASSUME BoundAssumption ==
    /\ {PortMin, PortMax, MaxRows, MaxConts, MaxTime, MaxCrashes} \subseteq Nat
    /\ DockerPorts \subseteq Nat /\ Stuck \subseteq ContIds
    /\ Faults \subseteq FaultKinds

VARIABLES
    now,     \* the clock, read by Service.now and Postgres alike
    cfg,     \* cfg[ch]: the saved configuration of challenge ch
    rows,    \* the challenge_instances table
    nrows,   \* rows inserted so far (BIGSERIAL)
    conts,   \* the containers labelled ctf.platform=recruit that Docker knows
    nconts,  \* containers created so far
    mu,      \* the holder of Service.mu
    pc,      \* pc[p]: the next call of goroutine p
    loc,     \* loc[p]: its local variables
    crashes  \* crashes so far

vars == <<now, cfg, rows, nrows, conts, nconts, mu, pc, loc, crashes>>

Row  == [status : {"none", "running", "terminated"}, key : Keys \cup {NoKey},
         cont : 0..MaxConts, port : Nat, renew : Nat, started : Nat, expires : Nat]
Cont == [state : {"none", "created", "running", "gone"},
         key : Keys \cup {NoKey}, port : Nat]
Loc  == [key : Keys \cup {NoKey}, cfg : Configs, row : 0..MaxRows,
         cont : 0..MaxConts, port : Nat, expires : Nat, used : SUBSET Nat,
         todo : SUBSET RowIds, extra : SUBSET ContIds]

NoRow  == [status |-> "none", key |-> NoKey, cont |-> 0, port |-> 0,
           renew |-> 0, started |-> 0, expires |-> 0]
NoCont == [state |-> "none", key |-> NoKey, port |-> 0]
NoLoc  == [key |-> NoKey, cfg |-> CHOOSE g \in Configs : TRUE, row |-> 0,
           cont |-> 0, port |-> 0, expires |-> 0, used |-> {}, todo |-> {},
           extra |-> {}]

StartSteps == {"active", "capacity", "cooldown", "ports", "create", "start",
               "inspect", "insert", "undo"}
ReqSteps   == StartSteps \cup {"renew", "renewUpdate",
                               "delete", "deleteStop", "deleteTerminate"}
AdminSteps == {"adminStop", "adminTerminate"}
BgSteps    == {"sweep", "sweepTerminate", "managed", "check",
               "checkTerminate", "extra"}
Steps      == {"idle", "recon"} \cup ReqSteps \cup AdminSteps \cup BgSteps

\* The steps at which a goroutine has a container, and those at which it has
\* a row.
ContSteps == {"start", "inspect", "insert", "undo"}
RowSteps  == {"renewUpdate", "deleteStop", "deleteTerminate", "sweepTerminate",
              "checkTerminate", "adminStop", "adminTerminate"}

TypeOK ==
    /\ now \in Nat /\ nrows \in 0..MaxRows /\ nconts \in 0..MaxConts
    /\ crashes \in Nat
    /\ cfg \in [Chals -> Configs]
    /\ rows \in [RowIds -> Row]
    /\ conts \in [ContIds -> Cont]
    /\ mu \in Procs \cup {NoProc}
    /\ pc \in [Procs -> Steps]
    /\ loc \in [Procs -> Loc]
    /\ \A p \in Procs : /\ pc[p] \in ContSteps => loc[p].cont \in ContIds
                        /\ pc[p] \in RowSteps => loc[p].row \in RowIds

\* A freshly started API process: StartBackground begins with a Reconcile.
Init ==
    /\ now = 0 /\ nrows = 0 /\ nconts = 0 /\ crashes = 0 /\ mu = NoProc
    /\ cfg \in [Chals -> Configs]
    /\ rows = [r \in RowIds |-> NoRow]
    /\ conts = [c \in ContIds |-> NoCont]
    /\ pc = [p \in Procs |-> IF p = Bg THEN "recon" ELSE "idle"]
    /\ loc = [p \in Procs |-> NoLoc]

-----------------------------------------------------------------------------
(* The table, as the statements of RuntimeRepository read and write it.    *)

Running(r) == rows[r].status = "running"

ActiveOf(k) == {r \in RowIds : Running(r) /\ rows[r].key = k}

CountActive(ch) == Cardinality({r \in RowIds : Running(r) /\ rows[r].key[2] = ch})

ActivePorts == {rows[r].port : r \in {q \in RowIds : Running(q) /\ rows[q].port > 0}}

\* Fault: only active instances count for the cooldown.
OnCooldownActive(k, cooldown) ==
    \E r \in ActiveOf(k) : rows[r].started + cooldown > now

\* GetLatestInstance orders by started_at; a user on cooldown has some row
\* of the key, whatever its status, that started less than cooldown ago.
OnCooldown(k, cooldown) ==
    \E r \in RowIds : /\ rows[r].status # "none" /\ rows[r].key = k
                      /\ rows[r].started + cooldown > now

Expired == {r \in RowIds : Running(r) /\ rows[r].expires <= now}

\* UPDATE ... SET status = 'terminated' WHERE id = r, whatever the status.
TerminateRow(r) == rows' = [rows EXCEPT ![r].status = "terminated"]

(* Docker, as DockerManager uses it.  Containers are created with          *)
(* AutoRemove, so a container that stops is gone; "removing" counts as     *)
(* gone.  Stopping a container that never started answers 304, which Stop  *)
(* accepts, and leaves it there.                                           *)

PortBusy(port) == \E c \in ContIds : conts[c].state = "running" /\ conts[c].port = port

Stopped(c) == [conts EXCEPT ![c].state = IF @ = "running" THEN "gone" ELSE @]

StopOk(c) == c \notin Stuck /\ conts' = Stopped(c)

StopFails(c) == \/ c \in Stuck /\ UNCHANGED conts
                \/ "stop" \in Faults /\ conts' \in {conts, Stopped(c)}

Exists(c) == conts[c].state \in {"created", "running"}

-----------------------------------------------------------------------------
(* The mutex and the control flow of a goroutine.                          *)

\* Fault: the method forgets to wait for the mutex.
LockNoWait(p) == mu' = p

Lock(p) == mu = NoProc /\ mu' = p

Goto(p, from, to) == pc[p] = from /\ pc' = [pc EXCEPT ![p] = to]

Set(p, l) == loc' = [loc EXCEPT ![p] = l]

\* The deferred Unlock, and the end of the handler.
Return(p) ==
    /\ pc' = [pc EXCEPT ![p] = "idle"]
    /\ Set(p, NoLoc)
    /\ mu' = IF mu = p THEN NoProc ELSE mu

\* Lock, then GetChallengeConfig: unpublished and static challenges are
\* rejected, and so is one without a runtime configuration if it is needed.
Enter(p, k, needsRuntime, first) ==
    /\ Lock(p) /\ Goto(p, "idle", first)
    /\ LET g == cfg[k[2]] IN
         /\ g.published /\ g.dynamic /\ (needsRuntime => g.runtime)
         /\ Set(p, [NoLoc EXCEPT !.key = k, !.cfg = g])
    /\ UNCHANGED <<now, cfg, rows, nrows, conts, nconts, crashes>>

-----------------------------------------------------------------------------
(* StartInstance                                                           *)

StartInstance(p, k) ==
    nrows < MaxRows /\ nconts < MaxConts /\ Enter(p, k, TRUE, "active")

\* GetActiveInstance: an existing instance is the answer, expired or not.
StartActive(p) ==
    /\ IF ActiveOf(loc[p].key) # {}
         THEN pc[p] = "active" /\ Return(p)
         ELSE Goto(p, "active", "capacity") /\ UNCHANGED <<loc, mu>>
    /\ UNCHANGED <<now, cfg, rows, nrows, conts, nconts, crashes>>

\* Fault: one instance too many.
AtCapacityOffByOne(p) ==
    LET max == loc[p].cfg.maxActive
    IN  max > 0 /\ CountActive(loc[p].key[2]) > max

AtCapacity(p) ==
    LET max == loc[p].cfg.maxActive
    IN  max > 0 /\ CountActive(loc[p].key[2]) >= max

StartCapacity(p) ==
    /\ IF AtCapacity(p)
         THEN pc[p] = "capacity" /\ Return(p)
         ELSE Goto(p, "capacity", "cooldown") /\ UNCHANGED <<loc, mu>>
    /\ UNCHANGED <<now, cfg, rows, nrows, conts, nconts, crashes>>

StartCooldown(p) ==
    /\ IF loc[p].cfg.cooldown > 0 /\ OnCooldown(loc[p].key, loc[p].cfg.cooldown)
         THEN pc[p] = "cooldown" /\ Return(p)
         ELSE Goto(p, "cooldown", "ports") /\ UNCHANGED <<loc, mu>>
    /\ UNCHANGED <<now, cfg, rows, nrows, conts, nconts, crashes>>

\* startContainer tries the ports of the range in ascending order, except
\* those of active rows and those that failed to bind.
RangeConfigured == PortMin > 0 /\ PortMax > 0 /\ PortMin <= PortMax

FreePorts(p) == (PortMin..PortMax) \ loc[p].used

\* Fault: only the ports that fail to bind are skipped.
IgnoreActivePorts(p) ==
    /\ Goto(p, "ports", "create")
    /\ Set(p, [loc[p] EXCEPT !.used = {}])
    /\ UNCHANGED <<now, cfg, rows, nrows, conts, nconts, mu, crashes>>

ListActiveHostPorts(p) ==
    /\ Goto(p, "ports", "create")
    /\ Set(p, [loc[p] EXCEPT !.used = IF RangeConfigured THEN ActivePorts ELSE {}])
    /\ UNCHANGED <<now, cfg, rows, nrows, conts, nconts, mu, crashes>>

\* POST /containers/create for the lowest free port (0: Docker chooses).
NewContainer(p) ==
    /\ nconts < MaxConts
    /\ nconts' = nconts + 1
    /\ conts' = [conts EXCEPT ![nconts + 1] =
                   [state |-> "created", key |-> loc[p].key, port |-> 0]]

PortChoices(p) ==
    IF RangeConfigured THEN {q \in FreePorts(p) : \A s \in FreePorts(p) : q <= s}
                       ELSE {0}

CreateContainer(p) ==
    /\ Goto(p, "create", "start")
    /\ NewContainer(p)
    /\ \E port \in PortChoices(p) :
         Set(p, [loc[p] EXCEPT !.cont = nconts + 1, !.port = port])
    /\ UNCHANGED <<now, cfg, rows, nrows, mu, crashes>>

\* ErrInstancePortExhausted, a refused creation, or one whose reply is lost:
\* the code does not learn the id of the container and cannot remove it.
CreateFails(p) ==
    /\ pc[p] = "create" /\ Return(p)
    /\ \/ /\ \/ PortChoices(p) = {}
             \/ "create" \in Faults
             \/ nconts = MaxConts
          /\ UNCHANGED <<conts, nconts>>
       \/ "created" \in Faults /\ NewContainer(p)
    /\ UNCHANGED <<now, cfg, rows, nrows, crashes>>

\* POST /containers/{id}/start binds the requested port, or one Docker picks.
Started(p) ==
    {[conts EXCEPT ![loc[p].cont] = [@ EXCEPT !.state = "running", !.port = port]] :
        port \in {q \in IF loc[p].port > 0 THEN {loc[p].port} ELSE DockerPorts :
                    ~PortBusy(q)}}

StartContainer(p) ==
    /\ Goto(p, "start", "inspect")
    /\ conts' \in Started(p)
    /\ UNCHANGED <<now, cfg, rows, nrows, nconts, mu, loc, crashes>>

\* The deferred removal after a start that failed; it may fail too, and then
\* the container stays as the start left it.
Removed(p, cs) ==
    conts' \in {[cs EXCEPT ![loc[p].cont].state = "gone"]}
               \cup IF "remove" \in Faults THEN {cs} ELSE {}

\* Fault: the loop does not continue after a port that failed to bind.
PortTakenNoContinue(p) ==
    /\ Goto(p, "start", "inspect")
    /\ loc[p].port > 0 /\ PortBusy(loc[p].port)
    /\ Removed(p, conts)
    /\ Set(p, [loc[p] EXCEPT !.used = @ \cup {loc[p].port}, !.cont = 0, !.port = 0])
    /\ UNCHANGED <<now, cfg, rows, nrows, nconts, mu, crashes>>

\* isPortBindError: the port counts as used and the loop goes on.
StartPortTaken(p) ==
    /\ Goto(p, "start", "create")
    /\ loc[p].port > 0 /\ (PortBusy(loc[p].port) \/ "foreign" \in Faults)
    /\ Removed(p, conts)
    /\ Set(p, [loc[p] EXCEPT !.used = @ \cup {loc[p].port}, !.cont = 0, !.port = 0])
    /\ UNCHANGED <<now, cfg, rows, nrows, nconts, mu, crashes>>

\* Any other failure, of a request that did or did not start the container.
StartFails(p) ==
    /\ pc[p] = "start" /\ Return(p)
    /\ "start" \in Faults \/ (loc[p].port = 0 /\ Started(p) = {})
    /\ \E cs \in Started(p) \cup {conts} : Removed(p, cs)
    /\ UNCHANGED <<now, cfg, rows, nrows, nconts, crashes>>

\* GET /containers/{id}/json: the published port becomes the row's.
InspectContainer(p) ==
    /\ Goto(p, "inspect", "insert")
    /\ conts[loc[p].cont].state = "running"
    /\ Set(p, [loc[p] EXCEPT !.port = conts[loc[p].cont].port])
    /\ UNCHANGED <<now, cfg, rows, nrows, conts, nconts, mu, crashes>>

\* The container was started, so the deferred removal does nothing.
InspectFails(p) ==
    /\ pc[p] = "inspect" /\ Return(p)
    /\ conts[loc[p].cont].state = "gone" \/ "inspect" \in Faults
    /\ UNCHANGED <<now, cfg, rows, nrows, conts, nconts, crashes>>

NewRow(p) ==
    [status |-> "running", key |-> loc[p].key, cont |-> loc[p].cont,
     port |-> loc[p].port, renew |-> 0, started |-> now,
     expires |-> now + loc[p].cfg.ttl]

InsertRow(p) ==
    /\ nrows < MaxRows
    /\ nrows' = nrows + 1
    /\ rows' = [rows EXCEPT ![nrows + 1] = NewRow(p)]

\* The partial unique index on (challenge_id, user_id).
UniqueViolation(p) == ActiveOf(loc[p].key) # {}

CreateInstance(p) ==
    /\ pc[p] = "insert" /\ Return(p)
    /\ ~UniqueViolation(p) /\ InsertRow(p)
    /\ UNCHANGED <<now, cfg, conts, nconts, crashes>>

\* Fault: the INSERT is retried instead of undone.
CreateInstanceRetries(p) ==
    /\ Goto(p, "insert", "insert")
    /\ \/ "insert" \in Faults /\ UNCHANGED <<rows, nrows>>
       \/ "lost" \in Faults /\ ~UniqueViolation(p) /\ InsertRow(p)
    /\ UNCHANGED <<now, cfg, conts, nconts, mu, loc, crashes>>

CreateInstanceFails(p) ==
    /\ Goto(p, "insert", "undo")
    /\ \/ /\ UniqueViolation(p) \/ "insert" \in Faults
          /\ UNCHANGED <<rows, nrows>>
       \/ "lost" \in Faults /\ ~UniqueViolation(p) /\ InsertRow(p)
    /\ UNCHANGED <<now, cfg, conts, nconts, mu, loc, crashes>>

\* Stop with a background context, its error ignored.  The lookup that
\* follows only chooses the reply.
UndoStart(p) ==
    /\ pc[p] = "undo" /\ Return(p)
    /\ StopOk(loc[p].cont) \/ StopFails(loc[p].cont)
    /\ UNCHANGED <<now, cfg, rows, nrows, nconts, crashes>>

-----------------------------------------------------------------------------
(* RenewInstance                                                           *)

RenewInstance(p, k) == Enter(p, k, TRUE, "renew")

Later(a, b) == IF a < b THEN b ELSE a

\* GetActiveInstance, the renew limit and the new expiry; the row is written
\* by the next call.
RenewDecide(p) ==
    /\ \/ \E r \in ActiveOf(loc[p].key) :
            /\ rows[r].renew < loc[p].cfg.maxRenew
            /\ Goto(p, "renew", "renewUpdate")
            /\ Set(p, [loc[p] EXCEPT !.row = r,
                         !.expires = Later(rows[r].expires, now) + loc[p].cfg.ttl])
            /\ UNCHANGED mu
       \/ /\ \A r \in ActiveOf(loc[p].key) : rows[r].renew >= loc[p].cfg.maxRenew
          /\ pc[p] = "renew" /\ Return(p)
    /\ UNCHANGED <<now, cfg, rows, nrows, conts, nconts, crashes>>

\* Fault: the UPDATE does not look at the status.
RenewedAnyway(p) ==
    [rows EXCEPT ![loc[p].row].renew = @ + 1, ![loc[p].row].expires = loc[p].expires]

\* UPDATE ... WHERE id = row AND status IN ('creating', 'running').
RenewedRows(p) ==
    LET r == loc[p].row
    IN  IF Running(r) THEN [rows EXCEPT ![r].renew = @ + 1, ![r].expires = loc[p].expires]
                      ELSE rows

RenewUpdate(p) ==
    /\ pc[p] = "renewUpdate" /\ Return(p)
    /\ rows' = RenewedRows(p)
    /\ UNCHANGED <<now, cfg, nrows, conts, nconts, crashes>>

-----------------------------------------------------------------------------
(* DeleteInstance                                                          *)

DeleteInstance(p, k) == Enter(p, k, FALSE, "delete")

DeleteFind(p) ==
    /\ \/ \E r \in ActiveOf(loc[p].key) :
            /\ Goto(p, "delete", "deleteStop")
            /\ Set(p, [loc[p] EXCEPT !.row = r]) /\ UNCHANGED mu
       \/ ActiveOf(loc[p].key) = {} /\ pc[p] = "delete" /\ Return(p)
    /\ UNCHANGED <<now, cfg, rows, nrows, conts, nconts, crashes>>

\* Fault: the error of Stop is ignored.
DeleteStopIgnored(p) ==
    /\ Goto(p, "deleteStop", "deleteTerminate")
    /\ StopOk(rows[loc[p].row].cont) \/ StopFails(rows[loc[p].row].cont)
    /\ UNCHANGED <<now, cfg, rows, nrows, nconts, mu, loc, crashes>>

\* An error of Stop ends the call and keeps the row.
DeleteStop(p) ==
    /\ \/ /\ Goto(p, "deleteStop", "deleteTerminate")
          /\ StopOk(rows[loc[p].row].cont) /\ UNCHANGED <<loc, mu>>
       \/ pc[p] = "deleteStop" /\ StopFails(rows[loc[p].row].cont) /\ Return(p)
    /\ UNCHANGED <<now, cfg, rows, nrows, nconts, crashes>>

DeleteTerminate(p) ==
    /\ pc[p] = "deleteTerminate" /\ Return(p)
    /\ TerminateRow(loc[p].row)
    /\ UNCHANGED <<now, cfg, nrows, conts, nconts, crashes>>

-----------------------------------------------------------------------------
(* The background goroutine: Reconcile once, then SweepExpired and, if the *)
(* sweep succeeded, Reconcile on every tick.  "idle" waits for the ticker, *)
(* "recon" for the mutex of Reconcile.                                     *)

\* Fault: instances of a challenge that is not published are not swept.
SweepPublished ==
    /\ Lock(Bg) /\ Goto(Bg, "idle", "sweep")
    /\ Set(Bg, [NoLoc EXCEPT !.todo = {r \in Expired : cfg[rows[r].key[2]].published}])
    /\ UNCHANGED <<now, cfg, rows, nrows, conts, nconts, crashes>>

SweepExpired ==
    /\ Lock(Bg) /\ Goto(Bg, "idle", "sweep")
    /\ Set(Bg, [NoLoc EXCEPT !.todo = Expired])
    /\ UNCHANGED <<now, cfg, rows, nrows, conts, nconts, crashes>>

\* Expired rows are visited in the order of expires_at.
NextExpired(r) ==
    r \in loc[Bg].todo /\ \A q \in loc[Bg].todo : rows[r].expires <= rows[q].expires

SweepStop(r) ==
    /\ NextExpired(r) /\ StopOk(rows[r].cont)
    /\ Goto(Bg, "sweep", "sweepTerminate")
    /\ Set(Bg, [loc[Bg] EXCEPT !.row = r])
    /\ UNCHANGED <<now, cfg, rows, nrows, nconts, mu, crashes>>

\* The first error ends the sweep, and StartBackground skips the Reconcile.
SweepStopFails(r) ==
    /\ pc[Bg] = "sweep" /\ NextExpired(r) /\ StopFails(rows[r].cont) /\ Return(Bg)
    /\ UNCHANGED <<now, cfg, rows, nrows, nconts, crashes>>

SweepTerminate ==
    /\ Goto(Bg, "sweepTerminate", "sweep")
    /\ TerminateRow(loc[Bg].row)
    /\ Set(Bg, [loc[Bg] EXCEPT !.todo = @ \ {loc[Bg].row}, !.row = 0])
    /\ UNCHANGED <<now, cfg, nrows, conts, nconts, mu, crashes>>

SweepDone ==
    /\ Goto(Bg, "sweep", "recon") /\ loc[Bg].todo = {}
    /\ mu' = NoProc /\ Set(Bg, NoLoc)
    /\ UNCHANGED <<now, cfg, rows, nrows, conts, nconts, crashes>>

\* Lock, then ListActiveInstances.
Reconcile ==
    /\ Lock(Bg) /\ Goto(Bg, "recon", "managed")
    /\ Set(Bg, [NoLoc EXCEPT !.todo = {r \in RowIds : Running(r)}])
    /\ UNCHANGED <<now, cfg, rows, nrows, conts, nconts, crashes>>

\* managedByKey keeps one container of every (challenge, user) that has any:
\* the one Docker lists last.
OnePerKey(cs) ==
    {m \in SUBSET cs :
        \A c \in cs : \E d \in m : /\ conts[d].key = conts[c].key
                                   /\ \A e \in m : conts[e].key = conts[c].key => e = d}

\* Fault: without active rows there is nothing to reconcile.
ListManagedIfActive ==
    /\ Goto(Bg, "managed", "check")
    /\ \E m \in OnePerKey({c \in ContIds : Exists(c) /\ loc[Bg].todo # {}}) :
         Set(Bg, [loc[Bg] EXCEPT !.extra = m])
    /\ UNCHANGED <<now, cfg, rows, nrows, conts, nconts, mu, crashes>>

ListManagedContainers ==
    /\ Goto(Bg, "managed", "check")
    /\ \E m \in OnePerKey({c \in ContIds : Exists(c)}) :
         Set(Bg, [loc[Bg] EXCEPT !.extra = m])
    /\ UNCHANGED <<now, cfg, rows, nrows, conts, nconts, mu, crashes>>

\* The rows are visited in id order.  Whether or not the container of a row
\* exists, the key of the row leaves the map.
NextActive(r) == r \in loc[Bg].todo /\ \A q \in loc[Bg].todo : r <= q

Visited(r) ==
    [loc[Bg] EXCEPT !.todo = @ \ {r},
                    !.extra = {c \in @ : conts[c].key # rows[r].key}]

\* Fault: the row of a container that is gone is skipped.
CheckSkips(r) ==
    /\ NextActive(r) /\ Goto(Bg, "check", "check") /\ Set(Bg, Visited(r))
    /\ UNCHANGED <<now, cfg, rows, nrows, conts, nconts, mu, crashes>>

CheckExists(r) ==
    /\ NextActive(r)
    /\ IF Exists(rows[r].cont)
         THEN /\ Goto(Bg, "check", "check") /\ Set(Bg, Visited(r))
         ELSE /\ Goto(Bg, "check", "checkTerminate")
              /\ Set(Bg, [Visited(r) EXCEPT !.row = r])
    /\ UNCHANGED <<now, cfg, rows, nrows, conts, nconts, mu, crashes>>

CheckTerminate ==
    /\ Goto(Bg, "checkTerminate", "check")
    /\ TerminateRow(loc[Bg].row)
    /\ Set(Bg, [loc[Bg] EXCEPT !.row = 0])
    /\ UNCHANGED <<now, cfg, nrows, conts, nconts, mu, crashes>>

CheckDone ==
    /\ Goto(Bg, "check", "extra") /\ loc[Bg].todo = {}
    /\ UNCHANGED <<now, cfg, rows, nrows, conts, nconts, mu, loc, crashes>>

\* The containers left in the map have no active row.
StopExtra(c) ==
    /\ Goto(Bg, "extra", "extra") /\ c \in loc[Bg].extra /\ StopOk(c)
    /\ Set(Bg, [loc[Bg] EXCEPT !.extra = @ \ {c}])
    /\ UNCHANGED <<now, cfg, rows, nrows, nconts, mu, crashes>>

StopExtraFails(c) ==
    /\ pc[Bg] = "extra" /\ c \in loc[Bg].extra /\ StopFails(c) /\ Return(Bg)
    /\ UNCHANGED <<now, cfg, rows, nrows, nconts, crashes>>

ReconcileDone ==
    /\ pc[Bg] = "extra" /\ loc[Bg].extra = {} /\ Return(Bg)
    /\ UNCHANGED <<now, cfg, rows, nrows, conts, nconts, crashes>>

-----------------------------------------------------------------------------
(* admin.Service.TerminateInstance: no mutex.                              *)

AdminRead(a, r) ==
    /\ rows[r].status # "none"
    /\ Goto(a, "idle", IF Running(r) THEN "adminStop" ELSE "adminTerminate")
    /\ Set(a, [NoLoc EXCEPT !.row = r])
    /\ UNCHANGED <<now, cfg, rows, nrows, conts, nconts, mu, crashes>>

AdminStop(a) ==
    /\ \/ /\ Goto(a, "adminStop", "adminTerminate")
          /\ StopOk(rows[loc[a].row].cont) /\ UNCHANGED <<loc, mu>>
       \/ pc[a] = "adminStop" /\ StopFails(rows[loc[a].row].cont) /\ Return(a)
    /\ UNCHANGED <<now, cfg, rows, nrows, nconts, crashes>>

AdminTerminate(a) ==
    /\ pc[a] = "adminTerminate" /\ Return(a)
    /\ TerminateRow(loc[a].row)
    /\ UNCHANGED <<now, cfg, nrows, conts, nconts, crashes>>

-----------------------------------------------------------------------------
(* Failures and the environment.                                           *)

\* A database call, or the read of Docker that precedes any change, returns
\* an error: the operation returns it.
CallFails(p) ==
    /\ "db" \in Faults
    /\ pc[p] \in {"active", "capacity", "cooldown", "ports", "renew", "renewUpdate",
                  "delete", "deleteTerminate", "sweepTerminate", "recon", "managed",
                  "check", "checkTerminate", "adminTerminate"}
    /\ pc[p] = "check" => loc[p].todo # {}
    /\ Return(p)
    /\ UNCHANGED <<now, cfg, rows, nrows, conts, nconts, crashes>>

\* The API process dies and is started again; the table and Docker stay.
Crash ==
    /\ crashes < MaxCrashes /\ crashes' = crashes + 1
    /\ mu' = NoProc
    /\ pc' = [p \in Procs |-> IF p = Bg THEN "recon" ELSE "idle"]
    /\ loc' = [p \in Procs |-> NoLoc]
    /\ UNCHANGED <<now, cfg, rows, nrows, conts, nconts>>

Tick == /\ now < MaxTime /\ now' = now + 1
        /\ UNCHANGED <<cfg, rows, nrows, conts, nconts, mu, pc, loc, crashes>>

\* An administrator saves another runtime configuration.
UpdateConfig(ch, g) ==
    /\ cfg[ch] # g /\ cfg' = [cfg EXCEPT ![ch] = g]
    /\ UNCHANGED <<now, rows, nrows, conts, nconts, mu, pc, loc, crashes>>

ContainerExits(c) ==
    /\ "exit" \in Faults /\ conts[c].state = "running"
    /\ conts' = Stopped(c)
    /\ UNCHANGED <<now, cfg, rows, nrows, nconts, mu, pc, loc, crashes>>

-----------------------------------------------------------------------------

Request(p) ==
    \/ \E k \in Keys : StartInstance(p, k) \/ RenewInstance(p, k) \/ DeleteInstance(p, k)

Continue(p) ==
    \/ StartActive(p) \/ StartCapacity(p) \/ StartCooldown(p)
    \/ ListActiveHostPorts(p) \/ CreateContainer(p) \/ CreateFails(p)
    \/ StartContainer(p) \/ StartPortTaken(p) \/ StartFails(p)
    \/ InspectContainer(p) \/ InspectFails(p)
    \/ CreateInstance(p) \/ CreateInstanceFails(p) \/ UndoStart(p)
    \/ RenewDecide(p) \/ RenewUpdate(p)
    \/ DeleteFind(p) \/ DeleteStop(p) \/ DeleteTerminate(p)

Administrate(a) ==
    \/ \E r \in RowIds : AdminRead(a, r)
    \/ AdminStop(a) \/ AdminTerminate(a)

Background ==
    \/ SweepExpired \/ SweepTerminate \/ SweepDone
    \/ \E r \in RowIds : SweepStop(r) \/ SweepStopFails(r) \/ CheckExists(r)
    \/ Reconcile \/ ListManagedContainers \/ CheckTerminate \/ CheckDone
    \/ \E c \in ContIds : StopExtra(c) \/ StopExtraFails(c)
    \/ ReconcileDone

Environment ==
    \/ Tick \/ Crash
    \/ \E ch \in Chals, g \in Configs : UpdateConfig(ch, g)
    \/ \E c \in ContIds : ContainerExits(c)
    \/ \E p \in Procs : CallFails(p)

Next ==
    \/ \E p \in Reqs : Request(p) \/ Continue(p)
    \/ \E a \in Admins : Administrate(a)
    \/ Background
    \/ Environment

Spec == Init /\ [][Next]_vars

\* Handlers run to their end: every call has an answer (Docker's client times
\* out after 15 s).  The background goroutine gets the mutex (a Go mutex hands
\* over to the longest waiter after 1 ms), and a call that it repeats on every
\* tick does not fail for ever: strong fairness of each call that succeeds.
Fairness ==
    /\ \A p \in Reqs : WF_vars(Continue(p))
    /\ SF_vars(SweepExpired) /\ SF_vars(SweepTerminate)
    /\ SF_vars(\E r \in RowIds : SweepStop(r))
    /\ SF_vars(Reconcile) /\ SF_vars(ListManagedContainers)
    /\ SF_vars(\E r \in RowIds : CheckExists(r)) /\ SF_vars(CheckTerminate)
    /\ SF_vars(\E c \in ContIds : StopExtra(c))
    /\ WF_vars(Background)

FairSpec == Spec /\ Fairness

-----------------------------------------------------------------------------
(* Safety                                                                  *)

\* A row is marked terminated only once its container is gone, whoever ends
\* it: owner, sweeper, reconciler or an administrator racing any of them.
\* (Stop before TerminateInstance in DeleteInstance, SweepExpired and
\* admin.TerminateInstance; TerminateInstance after !Exists in Reconcile.)
StoppedBeforeTerminated ==
    \A r \in RowIds : rows[r].status = "terminated" => conts[rows[r].cont].state = "gone"

\* Two active rows never publish the same host port, even after the container
\* of one of them has died and freed it: the second player would be sent to
\* the container of the first.  (ListActiveHostPorts under the mutex.)
DistinctActivePorts ==
    RangeConfigured =>
        \A r, q \in RowIds : Running(r) /\ Running(q) /\ r # q => rows[r].port # rows[q].port

\* Between the look for an active instance and the INSERT nobody else
\* inserts one: the unique index never has to refuse a row, so the mutex
\* alone keeps one active instance for each user and challenge.
InsertNeverConflicts ==
    \A p \in Reqs : pc[p] = "insert" => ~UniqueViolation(p)

\* A container is recorded by at most one row, under the user and challenge
\* it is labelled with.
ContainersOwnedOnce ==
    \A r \in RowIds : rows[r].status # "none" =>
        /\ rows[r].cont \in ContIds /\ conts[rows[r].cont].key = rows[r].key
        /\ \A q \in RowIds : rows[q].status # "none" /\ rows[q].cont = rows[r].cont => q = r

-----------------------------------------------------------------------------
(* What a step may never do                                                *)

Inserted(r) == rows[r].status = "none" /\ rows'[r].status # "none"

\* When a row is inserted, the challenge is below the limit of active
\* instances that the request read, although the count was taken several
\* calls earlier.
CapacityRespected ==
    [][\A r \in RowIds : Inserted(r) =>
         \E p \in Reqs : /\ pc[p] = "insert" /\ loc[p].key = rows'[r].key
                         /\ \/ loc[p].cfg.maxActive = 0
                            \/ CountActive(loc[p].key[2]) < loc[p].cfg.maxActive]_vars

\* Two rows of one user and challenge are at least the cooldown apart that
\* the later request read.
CooldownRespected ==
    [][\A r \in RowIds : Inserted(r) =>
         \E p \in Reqs : /\ pc[p] = "insert" /\ loc[p].key = rows'[r].key
                         /\ \A q \in RowIds :
                              rows[q].status # "none" /\ rows[q].key = rows'[r].key =>
                                 rows[q].started + loc[p].cfg.cooldown <= rows'[r].started]_vars

\* A renewal is counted against the limit the request read: no two requests
\* spend the same remaining renewal.
RenewalsWithinLimit ==
    [][\A r \in RowIds : rows'[r].renew > rows[r].renew =>
         \E p \in Reqs : /\ pc[p] = "renewUpdate" /\ loc[p].row = r
                         /\ rows'[r].renew <= loc[p].cfg.maxRenew]_vars

-----------------------------------------------------------------------------
(* The lease that a row stands for                                          *)

Lease ==
    INSTANCE InstanceLease WITH
        Ids    <- RowIds,
        Boxes  <- ContIds,
        time   <- now,
        up     <- {c \in ContIds : Exists(c)},
        leases <- [r \in RowIds |->
                     [state   |-> CASE rows[r].status = "none" -> "none"
                                    [] Running(r)              -> "open"
                                    [] OTHER                   -> "ended",
                      key     |-> rows[r].key,
                      box     |-> rows[r].cont,
                      until   |-> rows[r].expires,
                      renewed |-> rows[r].renew]]

\* Whatever interleaves, an instance is a lease: granted to one user at a time
\* on a container of its own, never shortened, lengthened by at most one time
\* to live from the later of its end and now for each renewal that is counted
\* (RenewInstance), ended once its container is gone, and untouched after that
\* by a renewal that read it while it was active.
ImplementsLease == Lease!LeaseSpec

-----------------------------------------------------------------------------
(* Liveness                                                                *)

\* An expired instance is terminated by the sweeper, unless it is renewed.
ExpiredReclaimed ==
    \A r \in RowIds : r \in Expired ~> ~(r \in Expired)

\* An active row whose container is gone (it exited, it was stopped when the
\* reply of its INSERT was lost, or a crash or an error came between Stop and
\* the UPDATE) does not stay: Reconcile terminates it.
DeadRowTerminated ==
    \A r \in RowIds : Running(r) /\ conts[rows[r].cont].state = "gone" ~> ~Running(r)

Owned(c) ==
    \/ \E r \in RowIds : Running(r) /\ rows[r].cont = c
    \/ \E p \in Reqs : pc[p] \in {"start", "inspect", "insert", "undo"} /\ loc[p].cont = c

Orphan(c) == conts[c].state = "running" /\ ~Owned(c)

\* A running container that no row and no request accounts for (a failed
\* inspect, removal or stop, a crash before the INSERT) is stopped, unless
\* managedByKey hides it: its user and challenge have an active instance, or
\* a container that was created and never started, which Stop cannot remove.
OrphanReclaimed ==
    \A c \in ContIds :
        Orphan(c) ~> \/ conts[c].state = "gone"
                     \/ ActiveOf(conts[c].key) # {}
                     \/ \E d \in ContIds : /\ conts[d].state = "created"
                                            /\ conts[d].key = conts[c].key

-----------------------------------------------------------------------------
(* What the documentation says of the background jobs, and the code does   *)
(* not keep.                                                               *)

\* docs/requirements.md:67: an expired instance is reclaimed by the background
\* job.  Here for instances whose own container can be stopped: the sweep
\* ends at the first container that cannot.
ExpiredAlwaysReclaimed ==
    \A r \in RowIds : r \in Expired /\ rows[r].cont \notin Stuck ~> ~(r \in Expired)

=============================================================================
