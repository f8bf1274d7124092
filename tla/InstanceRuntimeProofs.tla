------------------------ MODULE InstanceRuntimeProofs ------------------------
(* Theorems about InstanceRuntime, for any number of users, challenges,      *)
(* goroutines, rows and containers, and for every failure: its types; rows,  *)
(* containers and host ports stay consistent; the limits that a request read *)
(* hold when its row is written; and an instance is a lease.                 *)
EXTENDS InstanceRuntime, FiniteSetTheorems, TLAPS

-----------------------------------------------------------------------------
(* Types.                                                                    *)

LEMMA NoLocType == NoLoc \in Loc
BY ConfigAssumption, BoundAssumption DEF NoLoc, Loc

(* What an action does to the control state keeps its type.                *)

Control == <<mu, pc, loc>>

ControlOK ==
    /\ mu \in Procs \cup {NoProc}
    /\ pc \in [Procs -> Steps]
    /\ loc \in [Procs -> Loc]
    /\ \A p \in Procs : /\ pc[p] \in ContSteps => loc[p].cont \in ContIds
                        /\ pc[p] \in RowSteps => loc[p].row \in RowIds

DataOK ==
    /\ now \in Nat /\ nrows \in 0..MaxRows /\ nconts \in 0..MaxConts
    /\ crashes \in Nat
    /\ cfg \in [Chals -> Configs]
    /\ rows \in [RowIds -> Row]
    /\ conts \in [ContIds -> Cont]

LEMMA TypeParts == /\ TypeOK <=> ControlOK /\ DataOK
                   /\ TypeOK' <=> ControlOK' /\ DataOK'
BY DEF TypeOK, ControlOK, DataOK

LEMMA ReturnType ==
    ASSUME ControlOK, NEW p \in Procs, Return(p)
    PROVE  ControlOK'
BY NoLocType DEF ControlOK, Return, Set, Steps, ContSteps, RowSteps

LEMMA GotoSetType ==
    ASSUME ControlOK, NEW p \in Procs, NEW from, NEW to \in Steps, NEW l \in Loc,
           Goto(p, from, to), Set(p, l), mu' \in {mu, p, NoProc},
           to \in ContSteps => l.cont \in ContIds,
           to \in RowSteps => l.row \in RowIds
    PROVE  ControlOK'
BY DEF ControlOK, Goto, Set

LEMMA GotoType ==
    ASSUME ControlOK, NEW p \in Procs, NEW from, NEW to \in Steps,
           Goto(p, from, to), loc' = loc, mu' \in {mu, p, NoProc},
           to \in ContSteps => loc[p].cont \in ContIds,
           to \in RowSteps => loc[p].row \in RowIds
    PROVE  ControlOK'
BY DEF ControlOK, Goto

LEMMA StoppedType ==
    ASSUME DataOK, NEW c
    PROVE  Stopped(c) \in [ContIds -> Cont]
BY DEF DataOK, Stopped, Cont

LEMMA StopType ==
    ASSUME DataOK, NEW c, StopOk(c) \/ StopFails(c)
    PROVE  conts' \in [ContIds -> Cont]
BY StoppedType DEF DataOK, StopOk, StopFails

LEMMA TerminateType ==
    ASSUME DataOK, NEW r, TerminateRow(r)
    PROVE  rows' \in [RowIds -> Row]
BY DEF DataOK, TerminateRow, Row

LEMMA EnterType ==
    ASSUME TypeOK, NEW p \in Procs, NEW k \in Keys, NEW b,
           NEW s \in Steps \ (ContSteps \cup RowSteps), Enter(p, k, b, s)
    PROVE  TypeOK'
<1>1. cfg[k[2]] \in Configs
  BY DEF TypeOK, Keys
<1>2. [NoLoc EXCEPT !.key = k, !.cfg = cfg[k[2]]] \in Loc
  BY <1>1, NoLocType DEF Loc
<1> DEFINE l == [NoLoc EXCEPT !.key = k, !.cfg = cfg[k[2]]]
<1>3. Goto(p, "idle", s) /\ mu' = p /\ Set(p, l) /\ l \in Loc
  BY <1>2 DEF Enter, Lock
<1> HIDE DEF l
<1>4. ControlOK'
  <2>1. s \in Steps /\ s \notin ContSteps /\ s \notin RowSteps
    OBVIOUS
  <2>2. ControlOK /\ mu' \in {mu, p, NoProc}
    BY <1>3, TypeParts
  <2>3. QED
    BY <1>3, <2>1, <2>2, GotoSetType
<1>5. DataOK'
  BY TypeParts DEF DataOK, Enter
<1>6. QED
  BY <1>4, <1>5, TypeParts

LEMMA PortsAreNats == TypeOK => ActivePorts \subseteq Nat
BY DEF TypeOK, ActivePorts, Row

LEMMA NewContainerType ==
    ASSUME TypeOK, NEW p \in Procs, NewContainer(p)
    PROVE  /\ conts' \in [ContIds -> Cont] /\ nconts' \in 0..MaxConts
           /\ nconts + 1 \in ContIds
<1>1. [state |-> "created", key |-> loc[p].key, port |-> 0] \in Cont
  BY DEF TypeOK, Loc, Cont
<1>2. nconts \in 0..MaxConts /\ nconts < MaxConts /\ MaxConts \in Nat
  BY BoundAssumption DEF TypeOK, NewContainer
<1>3. conts' \in [ContIds -> Cont]
  BY <1>1 DEF NewContainer, TypeOK
<1>4. QED
  BY <1>2, <1>3 DEF NewContainer, ContIds

LEMMA InsertRowType ==
    ASSUME TypeOK, NEW p \in Procs, pc[p] = "insert", InsertRow(p)
    PROVE  rows' \in [RowIds -> Row] /\ nrows' \in 0..MaxRows
<1>1. loc[p].cfg.ttl \in Nat /\ loc[p] \in Loc /\ now \in Nat
  BY ConfigAssumption DEF TypeOK, Loc, Config
<1>2. NewRow(p) \in Row
  <2>1. now + loc[p].cfg.ttl \in Nat
    BY <1>1
  <2>2. /\ loc[p].key \in Keys \cup {NoKey} /\ loc[p].cont \in 0..MaxConts
        /\ loc[p].port \in Nat
    BY <1>1 DEF Loc
  <2>3. QED
    BY <1>1, <2>1, <2>2 DEF NewRow, Row
<1>3. nrows \in 0..MaxRows /\ nrows < MaxRows /\ MaxRows \in Nat
  BY BoundAssumption DEF TypeOK, InsertRow
<1>4. rows' \in [RowIds -> Row]
  BY <1>2 DEF InsertRow, TypeOK
<1>5. QED
  BY <1>3, <1>4 DEF InsertRow

LEMMA StartedType ==
    ASSUME TypeOK, NEW p \in Procs, NEW cs \in Started(p)
    PROVE  cs \in [ContIds -> Cont]
<1>1. ASSUME NEW q \in Nat, NEW c
      PROVE  [conts EXCEPT ![c] = [@ EXCEPT !.state = "running", !.port = q]]
               \in [ContIds -> Cont]
  BY DEF TypeOK, Cont
<1>2. loc[p].port \in Nat /\ DockerPorts \subseteq Nat
  BY BoundAssumption DEF TypeOK, Loc
<1>3. PICK q \in Nat :
        cs = [conts EXCEPT ![loc[p].cont] = [@ EXCEPT !.state = "running", !.port = q]]
  BY <1>2 DEF Started
<1>4. QED
  BY <1>1, <1>3

LEMMA RemovedType ==
    ASSUME NEW p, NEW cs \in [ContIds -> Cont], Removed(p, cs)
    PROVE  conts' \in [ContIds -> Cont]
BY DEF Removed, Cont

\* StartInstance and its steps.
LEMMA StartType ==
    ASSUME TypeOK, NEW p \in Reqs,
           \/ StartActive(p) \/ StartCapacity(p) \/ StartCooldown(p)
           \/ ListActiveHostPorts(p) \/ CreateContainer(p) \/ CreateFails(p)
           \/ StartContainer(p) \/ StartPortTaken(p) \/ StartFails(p)
           \/ InspectContainer(p) \/ InspectFails(p)
           \/ CreateInstance(p) \/ CreateInstanceFails(p) \/ UndoStart(p)
    PROVE  TypeOK'
<1> p \in Procs
  BY DEF Procs
<1>t. ControlOK /\ DataOK
  BY TypeParts
<1>s. /\ {"active", "capacity", "cooldown", "ports", "create"}
           \subseteq Steps \ (ContSteps \cup RowSteps)
      /\ {"start", "inspect", "insert", "undo"} \subseteq Steps \ RowSteps
      /\ ContSteps = {"start", "inspect", "insert", "undo"}
  BY DEF Steps, ReqSteps, StartSteps, ContSteps, RowSteps
<1>1. CASE StartActive(p)
  <2>1. ControlOK'
    BY <1>t, <1>s, <1>1, ReturnType, GotoType DEF StartActive
  <2>2. DataOK'
    BY <1>t, <1>1 DEF StartActive, DataOK
  <2>3. QED
    BY <2>1, <2>2, TypeParts
<1>2. CASE StartCapacity(p)
  <2>1. ControlOK'
    BY <1>t, <1>s, <1>2, ReturnType, GotoType DEF StartCapacity
  <2>2. DataOK'
    BY <1>t, <1>2 DEF StartCapacity, DataOK
  <2>3. QED
    BY <2>1, <2>2, TypeParts
<1>3. CASE StartCooldown(p)
  <2>1. ControlOK'
    BY <1>t, <1>s, <1>3, ReturnType, GotoType DEF StartCooldown
  <2>2. DataOK'
    BY <1>t, <1>3 DEF StartCooldown, DataOK
  <2>3. QED
    BY <2>1, <2>2, TypeParts
<1>4. CASE ListActiveHostPorts(p)
  <2> DEFINE l == [loc[p] EXCEPT !.used = IF RangeConfigured THEN ActivePorts ELSE {}]
  <2>1. l \in Loc
    BY PortsAreNats DEF TypeOK, Loc
  <2>2. Goto(p, "ports", "create") /\ Set(p, l) /\ mu' \in {mu, p, NoProc}
    BY <1>4 DEF ListActiveHostPorts
  <2> HIDE DEF l
  <2>3. ControlOK'
    BY <1>t, <1>s, <2>1, <2>2, GotoSetType
  <2>4. DataOK'
    BY <1>t, <1>4 DEF ListActiveHostPorts, DataOK
  <2>5. QED
    BY <2>3, <2>4, TypeParts
<1>5. CASE CreateContainer(p)
  <2>1. PICK port \in PortChoices(p) :
          Set(p, [loc[p] EXCEPT !.cont = nconts + 1, !.port = port])
    BY <1>5 DEF CreateContainer
  <2> DEFINE l == [loc[p] EXCEPT !.cont = nconts + 1, !.port = port]
  <2>2. port \in Nat
    BY BoundAssumption DEF PortChoices, FreePorts
  <2>3. nconts + 1 \in ContIds /\ nconts + 1 \in 0..MaxConts
    <3>1. NewContainer(p)
      BY <1>5 DEF CreateContainer
    <3>2. nconts + 1 \in ContIds
      BY <3>1, NewContainerType
    <3>3. QED
      BY <3>2, BoundAssumption DEF ContIds
  <2>4. l \in Loc /\ l.cont \in ContIds
    BY <2>2, <2>3 DEF TypeOK, Loc
  <2>5. Goto(p, "create", "start") /\ Set(p, l) /\ mu' \in {mu, p, NoProc}
    BY <1>5, <2>1 DEF CreateContainer
  <2> HIDE DEF l
  <2>6. ControlOK'
    BY <1>t, <1>s, <2>4, <2>5, GotoSetType
  <2>7. DataOK'
    BY <1>t, <1>5, NewContainerType DEF CreateContainer, DataOK
  <2>8. QED
    BY <2>6, <2>7, TypeParts
<1>6. CASE CreateFails(p)
  <2>1. ControlOK'
    BY <1>t, <1>6, ReturnType DEF CreateFails
  <2>2. DataOK'
    BY <1>t, <1>6, NewContainerType DEF CreateFails, DataOK
  <2>3. QED
    BY <2>1, <2>2, TypeParts
<1>7. CASE StartContainer(p)
  <2>1. loc[p].cont \in ContIds
    BY <1>7 DEF StartContainer, Goto, TypeOK, ContSteps
  <2>2. ControlOK'
    BY <1>t, <1>s, <1>7, <2>1, GotoType DEF StartContainer
  <2>3. DataOK'
    BY <1>t, <1>7, StartedType DEF StartContainer, DataOK
  <2>4. QED
    BY <2>2, <2>3, TypeParts
<1>8. CASE StartPortTaken(p)
  <2> DEFINE l == [loc[p] EXCEPT !.used = @ \cup {loc[p].port}, !.cont = 0, !.port = 0]
  <2>1. l \in Loc
    <3>1. loc[p] \in Loc /\ loc[p].port \in Nat /\ loc[p].used \subseteq Nat
      BY DEF TypeOK, Loc
    <3>2. loc[p].used \cup {loc[p].port} \in SUBSET Nat /\ 0 \in 0..MaxConts
      BY <3>1, BoundAssumption
    <3>3. QED
      BY <3>1, <3>2 DEF Loc
  <2>2. Goto(p, "start", "create") /\ Set(p, l) /\ mu' \in {mu, p, NoProc}
    BY <1>8 DEF StartPortTaken
  <2> HIDE DEF l
  <2>3. ControlOK'
    BY <1>t, <1>s, <2>1, <2>2, GotoSetType
  <2>4. DataOK'
    BY <1>t, <1>8, RemovedType DEF StartPortTaken, DataOK
  <2>5. QED
    BY <2>3, <2>4, TypeParts
<1>9. CASE StartFails(p)
  <2>1. ControlOK'
    BY <1>t, <1>9, ReturnType DEF StartFails
  <2>2. conts' \in [ContIds -> Cont]
    BY <1>t, <1>9, StartedType, RemovedType DEF StartFails, DataOK
  <2>3. DataOK'
    BY <1>t, <1>9, <2>2 DEF StartFails, DataOK
  <2>4. QED
    BY <2>1, <2>3, TypeParts
<1>10. CASE InspectContainer(p)
  <2> DEFINE l == [loc[p] EXCEPT !.port = conts[loc[p].cont].port]
  <2>1. loc[p].cont \in ContIds
    BY <1>10 DEF InspectContainer, Goto, TypeOK, ContSteps
  <2>2. l \in Loc /\ l.cont \in ContIds
    BY <2>1 DEF TypeOK, Loc, Cont
  <2>3. Goto(p, "inspect", "insert") /\ Set(p, l) /\ mu' \in {mu, p, NoProc}
    BY <1>10 DEF InspectContainer
  <2> HIDE DEF l
  <2>4. ControlOK'
    BY <1>t, <1>s, <2>2, <2>3, GotoSetType
  <2>5. DataOK'
    BY <1>t, <1>10 DEF InspectContainer, DataOK
  <2>6. QED
    BY <2>4, <2>5, TypeParts
<1>11. CASE InspectFails(p)
  <2>1. ControlOK'
    BY <1>t, <1>11, ReturnType DEF InspectFails
  <2>2. DataOK'
    BY <1>t, <1>11 DEF InspectFails, DataOK
  <2>3. QED
    BY <2>1, <2>2, TypeParts
<1>12. CASE CreateInstance(p)
  <2>1. ControlOK'
    BY <1>t, <1>12, ReturnType DEF CreateInstance
  <2>2. DataOK'
    BY <1>t, <1>12, InsertRowType DEF CreateInstance, DataOK
  <2>3. QED
    BY <2>1, <2>2, TypeParts
<1>13. CASE CreateInstanceFails(p)
  <2>1. pc[p] = "insert" /\ loc[p].cont \in ContIds
    BY <1>13 DEF CreateInstanceFails, Goto, TypeOK, ContSteps
  <2>2. ControlOK'
    BY <1>t, <1>s, <1>13, <2>1, GotoType DEF CreateInstanceFails
  <2>3. DataOK'
    BY <1>t, <1>13, <2>1, InsertRowType DEF CreateInstanceFails, DataOK
  <2>4. QED
    BY <2>2, <2>3, TypeParts
<1>14. CASE UndoStart(p)
  <2>1. ControlOK'
    BY <1>t, <1>14, ReturnType DEF UndoStart
  <2>2. DataOK'
    BY <1>t, <1>14, StopType DEF UndoStart, DataOK
  <2>3. QED
    BY <2>1, <2>2, TypeParts
<1>15. QED
  BY <1>1, <1>2, <1>3, <1>4, <1>5, <1>6, <1>7, <1>8, <1>9, <1>10, <1>11, <1>12,
     <1>13, <1>14

\* RenewInstance and DeleteInstance.
LEMMA RenewDeleteType ==
    ASSUME TypeOK, NEW p \in Reqs,
           \/ RenewDecide(p) \/ RenewUpdate(p)
           \/ DeleteFind(p) \/ DeleteStop(p) \/ DeleteTerminate(p)
    PROVE  TypeOK'
<1> p \in Procs
  BY DEF Procs
<1>t. ControlOK /\ DataOK
  BY TypeParts
<1>s. {"renewUpdate", "deleteStop", "deleteTerminate"} \subseteq (Steps \ ContSteps) \cap RowSteps
  BY DEF Steps, ReqSteps, ContSteps, RowSteps
<1>a. \A k : \A r \in ActiveOf(k) : r \in RowIds /\ r \in 0..MaxRows /\ rows[r] \in Row
  BY BoundAssumption DEF ActiveOf, RowIds, TypeOK
<1>1. CASE RenewDecide(p)
  <2>1. CASE pc[p] = "renew" /\ Return(p)
    BY <1>t, <1>1, <2>1, ReturnType, TypeParts DEF RenewDecide, DataOK
  <2>2. ASSUME NEW r \in ActiveOf(loc[p].key), Goto(p, "renew", "renewUpdate"),
               Set(p, [loc[p] EXCEPT !.row = r,
                         !.expires = Later(rows[r].expires, now) + loc[p].cfg.ttl]),
               UNCHANGED mu
        PROVE  TypeOK'
    <3> DEFINE l == [loc[p] EXCEPT !.row = r,
                       !.expires = Later(rows[r].expires, now) + loc[p].cfg.ttl]
    <3>1. loc[p] \in Loc /\ loc[p].cfg.ttl \in Nat /\ now \in Nat
      BY ConfigAssumption DEF TypeOK, Loc, Config
    <3>2. rows[r].expires \in Nat /\ r \in RowIds /\ r \in 0..MaxRows
      BY <1>a DEF Row
    <3>3. Later(rows[r].expires, now) + loc[p].cfg.ttl \in Nat
      BY <3>1, <3>2 DEF Later
    <3>4. l \in Loc /\ l.row \in RowIds
      BY <3>1, <3>2, <3>3 DEF Loc
    <3>5. Goto(p, "renew", "renewUpdate") /\ Set(p, l) /\ mu' \in {mu, p, NoProc}
      BY <2>2
    <3> HIDE DEF l
    <3>6. ControlOK'
      BY <1>t, <1>s, <3>4, <3>5, GotoSetType
    <3>7. DataOK'
      BY <1>t, <1>1 DEF RenewDecide, DataOK
    <3>8. QED
      BY <3>6, <3>7, TypeParts
  <2>3. QED
    BY <1>1, <2>1, <2>2 DEF RenewDecide
<1>2. CASE RenewUpdate(p)
  <2>1. RenewedRows(p) \in [RowIds -> Row]
    <3> DEFINE r == loc[p].row
               u == [rows[r] EXCEPT !.renew = @ + 1, !.expires = loc[p].expires]
    <3>1. rows \in [RowIds -> Row] /\ loc[p].expires \in Nat /\ r \in RowIds
      BY <1>2 DEF RenewUpdate, TypeOK, Loc, RowSteps
    <3>2. u \in Row
      <4>1. rows[r] \in Row /\ rows[r].renew + 1 \in Nat
        BY <3>1 DEF Row
      <4>2. QED
        BY <3>1, <4>1 DEF Row
    <3>3. RenewedRows(p) \in {rows, [rows EXCEPT ![r] = u]}
      BY <3>1 DEF RenewedRows
    <3>4. QED
      BY <3>1, <3>2, <3>3
  <2>2. ControlOK'
    BY <1>t, <1>2, ReturnType DEF RenewUpdate
  <2>3. DataOK'
    BY <1>t, <1>2, <2>1 DEF RenewUpdate, DataOK
  <2>4. QED
    BY <2>2, <2>3, TypeParts
<1>3. CASE DeleteFind(p)
  <2>1. CASE pc[p] = "delete" /\ Return(p)
    BY <1>t, <1>3, <2>1, ReturnType, TypeParts DEF DeleteFind, DataOK
  <2>2. ASSUME NEW r \in ActiveOf(loc[p].key), Goto(p, "delete", "deleteStop"),
               Set(p, [loc[p] EXCEPT !.row = r]), UNCHANGED mu
        PROVE  TypeOK'
    <3> DEFINE l == [loc[p] EXCEPT !.row = r]
    <3>1. l \in Loc /\ l.row \in RowIds
      BY <1>a DEF TypeOK, Loc
    <3>2. Goto(p, "delete", "deleteStop") /\ Set(p, l) /\ mu' \in {mu, p, NoProc}
      BY <2>2
    <3> HIDE DEF l
    <3>3. ControlOK'
      BY <1>t, <1>s, <3>1, <3>2, GotoSetType
    <3>4. DataOK'
      BY <1>t, <1>3 DEF DeleteFind, DataOK
    <3>5. QED
      BY <3>3, <3>4, TypeParts
  <2>3. QED
    BY <1>3, <2>1, <2>2 DEF DeleteFind
<1>4. CASE DeleteStop(p)
  <2>1. pc[p] = "deleteStop" /\ loc[p].row \in RowIds
    BY <1>4 DEF DeleteStop, Goto, TypeOK, RowSteps
  <2>2. ControlOK'
    BY <1>t, <1>s, <1>4, <2>1, ReturnType, GotoType DEF DeleteStop
  <2>3. DataOK'
    BY <1>t, <1>4, StopType DEF DeleteStop, DataOK
  <2>4. QED
    BY <2>2, <2>3, TypeParts
<1>5. CASE DeleteTerminate(p)
  <2>1. ControlOK'
    BY <1>t, <1>5, ReturnType DEF DeleteTerminate
  <2>2. DataOK'
    BY <1>t, <1>5, TerminateType DEF DeleteTerminate, DataOK
  <2>3. QED
    BY <2>1, <2>2, TypeParts
<1>6. QED
  BY <1>1, <1>2, <1>3, <1>4, <1>5

\* The background goroutine.
LEMMA BackgroundType == TypeOK /\ Background => TypeOK'
<1> SUFFICES ASSUME TypeOK, Background PROVE TypeOK'
  OBVIOUS
<1> Bg \in Procs
  BY DEF Procs
<1>t. ControlOK /\ DataOK
  BY TypeParts
<1>s. /\ {"recon", "sweep", "managed", "check", "extra"} \subseteq Steps \ (ContSteps \cup RowSteps)
      /\ {"sweepTerminate", "checkTerminate"} \subseteq Steps \ ContSteps
  BY DEF Steps, BgSteps, ContSteps, RowSteps
<1>l. loc[Bg] \in Loc /\ loc[Bg].todo \subseteq RowIds /\ loc[Bg].extra \subseteq ContIds
  BY DEF TypeOK, Loc
<1>z. \A r \in RowIds : r \in 0..MaxRows
  BY BoundAssumption DEF RowIds
<1>o. 0 \in 0..MaxRows
  BY BoundAssumption
<1>1. CASE SweepExpired
  <2> DEFINE l == [NoLoc EXCEPT !.todo = Expired]
  <2>1. l \in Loc
    BY NoLocType DEF Loc, Expired
  <2>2. Goto(Bg, "idle", "sweep") /\ Set(Bg, l) /\ mu' \in {mu, Bg, NoProc}
    BY <1>1 DEF SweepExpired, Lock
  <2> HIDE DEF l
  <2>3. ControlOK'
    BY <1>t, <1>s, <2>1, <2>2, GotoSetType
  <2>4. DataOK'
    BY <1>t, <1>1 DEF SweepExpired, DataOK
  <2>5. QED
    BY <2>3, <2>4, TypeParts
<1>2. CASE SweepTerminate
  <2> DEFINE l == [loc[Bg] EXCEPT !.todo = @ \ {loc[Bg].row}, !.row = 0]
  <2>1. l \in Loc
    BY <1>l, <1>o DEF Loc
  <2>2. Goto(Bg, "sweepTerminate", "sweep") /\ Set(Bg, l) /\ mu' \in {mu, Bg, NoProc}
    BY <1>2 DEF SweepTerminate, Lock
  <2> HIDE DEF l
  <2>3. ControlOK'
    BY <1>t, <1>s, <2>1, <2>2, GotoSetType
  <2>4. DataOK'
    BY <1>t, <1>2, TerminateType DEF SweepTerminate, DataOK
  <2>5. QED
    BY <2>3, <2>4, TypeParts
<1>3. CASE SweepDone
  <2> DEFINE l == NoLoc
  <2>1. l \in Loc
    BY NoLocType
  <2>2. Goto(Bg, "sweep", "recon") /\ Set(Bg, l) /\ mu' \in {mu, Bg, NoProc}
    BY <1>3 DEF SweepDone, Lock
  <2> HIDE DEF l
  <2>3. ControlOK'
    BY <1>t, <1>s, <2>1, <2>2, GotoSetType
  <2>4. DataOK'
    BY <1>t, <1>3 DEF SweepDone, DataOK
  <2>5. QED
    BY <2>3, <2>4, TypeParts
<1>4. ASSUME NEW r \in RowIds, SweepStop(r)
      PROVE  TypeOK'
  <2> DEFINE l == [loc[Bg] EXCEPT !.row = r]
  <2>1. l \in Loc /\ l.row \in RowIds
    BY <1>l, <1>z DEF Loc
  <2>2. Goto(Bg, "sweep", "sweepTerminate") /\ Set(Bg, l) /\ mu' \in {mu, Bg, NoProc}
    BY <1>4 DEF SweepStop
  <2> HIDE DEF l
  <2>3. ControlOK'
    BY <1>t, <1>s, <2>1, <2>2, GotoSetType
  <2>4. DataOK'
    BY <1>t, <1>4, StopType DEF SweepStop, DataOK
  <2>5. QED
    BY <2>3, <2>4, TypeParts
<1>5. ASSUME NEW r \in RowIds, SweepStopFails(r)
      PROVE  TypeOK'
  <2>1. ControlOK'
    BY <1>t, <1>5, ReturnType DEF SweepStopFails
  <2>2. DataOK'
    BY <1>t, <1>5, StopType DEF SweepStopFails, DataOK
  <2>3. QED
    BY <2>1, <2>2, TypeParts
<1>6. ASSUME NEW r \in RowIds, CheckExists(r)
      PROVE  TypeOK'
  <2> DEFINE v == Visited(r)
             w == [v EXCEPT !.row = r]
  <2>1. v \in Loc
    BY <1>l DEF Visited, Loc
  <2>2. w \in Loc /\ w.row \in RowIds
    BY <2>1, <1>z DEF Loc
  <2>3. /\ mu' \in {mu, Bg, NoProc}
        /\ \/ Goto(Bg, "check", "check") /\ Set(Bg, v)
           \/ Goto(Bg, "check", "checkTerminate") /\ Set(Bg, w)
    BY <1>6 DEF CheckExists
  <2> HIDE DEF v, w
  <2>4. ControlOK'
    BY <1>t, <1>s, <2>1, <2>2, <2>3, GotoSetType
  <2>5. DataOK'
    BY <1>t, <1>6 DEF CheckExists, DataOK
  <2>6. QED
    BY <2>4, <2>5, TypeParts
<1>7. CASE Reconcile
  <2> DEFINE l == [NoLoc EXCEPT !.todo = {r \in RowIds : Running(r)}]
  <2>1. l \in Loc
    BY NoLocType DEF Loc
  <2>2. Goto(Bg, "recon", "managed") /\ Set(Bg, l) /\ mu' \in {mu, Bg, NoProc}
    BY <1>7 DEF Reconcile, Lock
  <2> HIDE DEF l
  <2>3. ControlOK'
    BY <1>t, <1>s, <2>1, <2>2, GotoSetType
  <2>4. DataOK'
    BY <1>t, <1>7 DEF Reconcile, DataOK
  <2>5. QED
    BY <2>3, <2>4, TypeParts
<1>8. CASE ListManagedContainers
  <2>1. PICK m \in OnePerKey({c \in ContIds : Exists(c)}) :
          Set(Bg, [loc[Bg] EXCEPT !.extra = m])
    BY <1>8 DEF ListManagedContainers
  <2> DEFINE l == [loc[Bg] EXCEPT !.extra = m]
  <2>2. l \in Loc
    BY <1>l DEF OnePerKey, Loc
  <2>3. Goto(Bg, "managed", "check") /\ Set(Bg, l) /\ mu' \in {mu, Bg, NoProc}
    BY <1>8, <2>1 DEF ListManagedContainers
  <2> HIDE DEF l
  <2>4. ControlOK'
    BY <1>t, <1>s, <2>2, <2>3, GotoSetType
  <2>5. DataOK'
    BY <1>t, <1>8 DEF ListManagedContainers, DataOK
  <2>6. QED
    BY <2>4, <2>5, TypeParts
<1>9. CASE CheckTerminate
  <2> DEFINE l == [loc[Bg] EXCEPT !.row = 0]
  <2>1. l \in Loc
    BY <1>l, <1>o DEF Loc
  <2>2. Goto(Bg, "checkTerminate", "check") /\ Set(Bg, l) /\ mu' \in {mu, Bg, NoProc}
    BY <1>9 DEF CheckTerminate, Lock
  <2> HIDE DEF l
  <2>3. ControlOK'
    BY <1>t, <1>s, <2>1, <2>2, GotoSetType
  <2>4. DataOK'
    BY <1>t, <1>9, TerminateType DEF CheckTerminate, DataOK
  <2>5. QED
    BY <2>3, <2>4, TypeParts
<1>10. CASE CheckDone
  <2>1. ControlOK'
    BY <1>t, <1>s, <1>10, GotoType DEF CheckDone
  <2>2. DataOK'
    BY <1>t, <1>10 DEF CheckDone, DataOK
  <2>3. QED
    BY <2>1, <2>2, TypeParts
<1>11. ASSUME NEW c \in ContIds, StopExtra(c)
       PROVE  TypeOK'
  <2> DEFINE l == [loc[Bg] EXCEPT !.extra = @ \ {c}]
  <2>1. l \in Loc
    BY <1>l DEF Loc
  <2>2. Goto(Bg, "extra", "extra") /\ Set(Bg, l) /\ mu' \in {mu, Bg, NoProc}
    BY <1>11 DEF StopExtra
  <2> HIDE DEF l
  <2>3. ControlOK'
    BY <1>t, <1>s, <2>1, <2>2, GotoSetType
  <2>4. DataOK'
    BY <1>t, <1>11, StopType DEF StopExtra, DataOK
  <2>5. QED
    BY <2>3, <2>4, TypeParts
<1>12. ASSUME NEW c \in ContIds, StopExtraFails(c)
       PROVE  TypeOK'
  <2>1. ControlOK'
    BY <1>t, <1>12, ReturnType DEF StopExtraFails
  <2>2. DataOK'
    BY <1>t, <1>12, StopType DEF StopExtraFails, DataOK
  <2>3. QED
    BY <2>1, <2>2, TypeParts
<1>13. CASE ReconcileDone
  <2>1. ControlOK'
    BY <1>t, <1>13, ReturnType DEF ReconcileDone
  <2>2. DataOK'
    BY <1>t, <1>13 DEF ReconcileDone, DataOK
  <2>3. QED
    BY <2>1, <2>2, TypeParts
<1>14. QED
  BY <1>1, <1>2, <1>3, <1>4, <1>5, <1>6, <1>7, <1>8, <1>9, <1>10, <1>11, <1>12,
     <1>13 DEF Background

\* admin.Service.TerminateInstance.
LEMMA AdministrateType ==
    ASSUME TypeOK, NEW a \in Admins, Administrate(a)
    PROVE  TypeOK'
<1> a \in Procs
  BY DEF Procs
<1>t. ControlOK /\ DataOK
  BY TypeParts
<1>s. AdminSteps \subseteq Steps \ ContSteps /\ AdminSteps = {"adminStop", "adminTerminate"}
  BY DEF Steps, AdminSteps, ContSteps
<1>1. ASSUME NEW r \in RowIds, AdminRead(a, r)
      PROVE  TypeOK'
  <2> DEFINE l == [NoLoc EXCEPT !.row = r]
  <2>1. l \in Loc /\ l.row \in RowIds
    BY NoLocType, BoundAssumption DEF Loc, RowIds
  <2>2. /\ Goto(a, "idle", "adminStop") \/ Goto(a, "idle", "adminTerminate")
        /\ Set(a, l) /\ mu' \in {mu, a, NoProc}
    BY <1>1 DEF AdminRead
  <2> HIDE DEF l
  <2>3. ControlOK'
    BY <1>t, <1>s, <2>1, <2>2, GotoSetType
  <2>4. DataOK'
    BY <1>t, <1>1 DEF AdminRead, DataOK
  <2>5. QED
    BY <2>3, <2>4, TypeParts
<1>2. CASE AdminStop(a)
  <2>1. pc[a] = "adminStop" /\ loc[a].row \in RowIds
    BY <1>2 DEF AdminStop, Goto, TypeOK, RowSteps
  <2>2. ControlOK'
    BY <1>t, <1>s, <1>2, <2>1, ReturnType, GotoType DEF AdminStop
  <2>3. DataOK'
    BY <1>t, <1>2, StopType DEF AdminStop, DataOK
  <2>4. QED
    BY <2>2, <2>3, TypeParts
<1>3. CASE AdminTerminate(a)
  <2>1. ControlOK'
    BY <1>t, <1>3, ReturnType DEF AdminTerminate
  <2>2. DataOK'
    BY <1>t, <1>3, TerminateType DEF AdminTerminate, DataOK
  <2>3. QED
    BY <2>1, <2>2, TypeParts
<1>4. QED
  BY <1>1, <1>2, <1>3 DEF Administrate

\* Failures, crashes, the clock, configuration changes, exits of containers.
LEMMA EnvironmentType == TypeOK /\ Environment => TypeOK'
<1> SUFFICES ASSUME TypeOK, Environment PROVE TypeOK'
  OBVIOUS
<1>t. ControlOK /\ DataOK
  BY TypeParts
<1>1. CASE Tick
  BY <1>t, <1>1, TypeParts DEF Tick, ControlOK, DataOK
<1>2. CASE Crash
  <2>1. ControlOK'
    BY <1>t, <1>2, NoLocType DEF Crash, ControlOK, Steps, ContSteps, RowSteps
  <2>2. DataOK'
    BY <1>t, <1>2 DEF Crash, DataOK
  <2>3. QED
    BY <2>1, <2>2, TypeParts
<1>3. ASSUME NEW ch \in Chals, NEW g \in Configs, UpdateConfig(ch, g)
      PROVE  TypeOK'
  BY <1>t, <1>3, TypeParts DEF UpdateConfig, ControlOK, DataOK
<1>4. ASSUME NEW c \in ContIds, ContainerExits(c)
      PROVE  TypeOK'
  BY <1>t, <1>4, StoppedType, TypeParts DEF ContainerExits, ControlOK, DataOK
<1>5. ASSUME NEW p \in Procs, CallFails(p)
      PROVE  TypeOK'
  <2>1. ControlOK'
    BY <1>t, <1>5, ReturnType DEF CallFails
  <2>2. DataOK'
    BY <1>t, <1>5 DEF CallFails, DataOK
  <2>3. QED
    BY <2>1, <2>2, TypeParts
<1>6. QED
  BY <1>1, <1>2, <1>3, <1>4, <1>5 DEF Environment

LEMMA InitType == Init => TypeOK
<1> SUFFICES ASSUME Init PROVE TypeOK
  OBVIOUS
<1>1. NoRow \in Row /\ NoCont \in Cont
  BY BoundAssumption DEF NoRow, NoCont, Row, Cont
<1>2. DataOK
  BY <1>1, BoundAssumption DEF Init, DataOK
<1>3. ControlOK
  BY NoLocType DEF Init, ControlOK, Steps, ContSteps, RowSteps
<1>4. QED
  BY <1>2, <1>3, TypeParts

LEMMA NextType == TypeOK /\ [Next]_vars => TypeOK'
<1> SUFFICES ASSUME TypeOK, [Next]_vars PROVE TypeOK'
  OBVIOUS
<1>1. ASSUME NEW p \in Reqs, Request(p)
      PROVE  TypeOK'
  <2>1. {"active", "renew", "delete"} \subseteq Steps \ (ContSteps \cup RowSteps) /\ p \in Procs
    BY DEF Steps, ReqSteps, StartSteps, ContSteps, RowSteps, Procs
  <2>2. PICK k \in Keys : \/ Enter(p, k, TRUE, "active") \/ Enter(p, k, TRUE, "renew")
                          \/ Enter(p, k, FALSE, "delete")
    BY <1>1 DEF Request, StartInstance, RenewInstance, DeleteInstance
  <2>3. QED
    BY <2>1, <2>2, EnterType
<1>2. ASSUME NEW p \in Reqs, Continue(p)
      PROVE  TypeOK'
  BY <1>2, StartType, RenewDeleteType DEF Continue
<1>3. CASE UNCHANGED vars
  BY <1>3, TypeParts DEF vars, ControlOK, DataOK
<1>4. QED
  BY <1>1, <1>2, <1>3, AdministrateType, BackgroundType, EnvironmentType DEF Next

\* Every variable keeps its type, and a goroutine that is about to use a
\* container or a row has one.
THEOREM TypeCorrect == Spec => []TypeOK
BY InitType, NextType, PTL DEF Spec

-----------------------------------------------------------------------------

(* The inductive invariant.                                                  *)

\* Who is inside an operation of runtime.Service holds its mutex, and every
\* goroutine runs its own operations only.
MutexHeld ==
    /\ \A p \in Reqs : pc[p] \in ReqSteps \cup {"idle"} /\ (pc[p] # "idle" => mu = p)
    /\ \A a \in Admins : pc[a] \in AdminSteps \cup {"idle"}
    /\ pc[Bg] \in BgSteps \cup {"idle", "recon"} /\ (pc[Bg] \in BgSteps => mu = Bg)

Used(r) == rows[r].status # "none"

\* A row that was inserted has a container that was started for its key; the
\* ids above nrows are unused.
RowsIssued ==
    \A r \in RowIds :
        /\ Used(r) <=> r <= nrows
        /\ ~Used(r) => rows[r] = NoRow
        /\ Used(r) => /\ rows[r].key \in Keys
                      /\ rows[r].started <= now
                      /\ rows[r].cont \in 1..nconts
                      /\ conts[rows[r].cont].key = rows[r].key
                      /\ conts[rows[r].cont].state \in {"running", "gone"}
                      /\ RangeConfigured => rows[r].port > 0

AfterActive   == {"capacity", "cooldown", "ports", "create", "start", "inspect", "insert"}
AfterCapacity == AfterActive \ {"capacity"}
AfterCooldown == AfterCapacity \ {"cooldown"}

\* What StartInstance has found out is still true when it uses it.
StartKnows(p) ==
    LET l == loc[p] IN
    /\ pc[p] # "idle" => l.key \in Keys
    /\ pc[p] \in AfterActive => ActiveOf(l.key) = {}
    /\ pc[p] \in AfterCapacity =>
          l.cfg.maxActive = 0 \/ CountActive(l.key[2]) < l.cfg.maxActive
    /\ pc[p] \in AfterCooldown =>
          \A r \in RowIds : Used(r) /\ rows[r].key = l.key =>
                               rows[r].started + l.cfg.cooldown <= now
    /\ pc[p] \in {"create", "start"} /\ RangeConfigured => ActivePorts \subseteq l.used

\* The container that StartInstance has created is its own until its row is
\* inserted, and its port is no active row's.
StartOwns(p) ==
    LET l == loc[p] IN
    /\ pc[p] \in {"start", "inspect", "insert"} =>
          /\ l.cont \in 1..nconts
          /\ \A r \in RowIds : Used(r) => rows[r].cont # l.cont
          /\ conts[l.cont].key = l.key
          /\ RangeConfigured => l.port > 0 /\ l.port \notin ActivePorts
    /\ pc[p] \in {"inspect", "insert"} => conts[l.cont].state \in {"running", "gone"}
    /\ pc[p] = "inspect" /\ RangeConfigured => conts[l.cont].port = l.port

\* RenewInstance writes what is within the limits that it read.
RenewKnows(p) ==
    LET l == loc[p] IN
    pc[p] = "renewUpdate" =>
        /\ rows[l.row].renew < l.cfg.maxRenew
        /\ rows[l.row].expires <= l.expires
        /\ l.expires <= Later(rows[l.row].expires, now) + MaxTTL

TerminateSteps == {"deleteTerminate", "sweepTerminate", "checkTerminate", "adminTerminate"}

\* A goroutine works on rows that exist, and terminates one whose container is
\* gone.
RowsHeld(p) ==
    /\ pc[p] \in RowSteps => Used(loc[p].row)
    /\ pc[p] \in TerminateSteps => conts[rows[loc[p].row].cont].state = "gone"
    /\ \A r \in loc[p].todo : Used(r)

Tables == RowsIssued /\ StoppedBeforeTerminated /\ DistinctActivePorts /\ ContainersOwnedOnce

IInv ==
    /\ TypeOK /\ MutexHeld /\ Tables
    /\ \A p \in Reqs : StartKnows(p) /\ StartOwns(p) /\ RenewKnows(p)
    /\ \A p \in Procs : RowsHeld(p)

-----------------------------------------------------------------------------
(* What a step does to the two tables.                                       *)

\* Time passes and containers stop.
Fades ==
    /\ now' \in Nat /\ now <= now'
    /\ \A c \in ContIds :
          \/ conts'[c] = conts[c]
          \/ conts[c].state = "running" /\ conts'[c] = [conts[c] EXCEPT !.state = "gone"]
    /\ UNCHANGED <<rows, nrows, nconts>>

\* A row ends whose container is gone.
Ends(r) ==
    /\ Used(r) /\ conts[rows[r].cont].state = "gone"
    /\ TerminateRow(r)
    /\ UNCHANGED <<now, nrows, conts, nconts>>

Creates(p) ==
    /\ pc[p] = "create" /\ NewContainer(p)
    /\ UNCHANGED <<now, rows, nrows>>

\* The start request succeeds or fails: only the container of p changes.
Starts(p) ==
    /\ pc[p] = "start"
    /\ \A c \in ContIds : c # loc[p].cont => conts'[c] = conts[c]
    /\ conts'[loc[p].cont].key = conts[loc[p].cont].key
    /\ UNCHANGED <<now, rows, nrows, nconts>>

Inserts(p) ==
    /\ pc[p] = "insert" /\ ~UniqueViolation(p) /\ InsertRow(p)
    /\ UNCHANGED <<now, conts, nconts>>

Renews(p) ==
    /\ pc[p] = "renewUpdate" /\ rows' = RenewedRows(p)
    /\ UNCHANGED <<now, nrows, conts, nconts>>

\* All that administrators, the background goroutine and the environment do.
Mild == Fades \/ \E r \in RowIds : Ends(r)

Effect ==
    \/ Mild
    \/ \E p \in Reqs : Creates(p) \/ Starts(p) \/ Inserts(p) \/ Renews(p)

LEMMA NothingFades ==
    ASSUME TypeOK, UNCHANGED <<now, rows, nrows, conts, nconts>>
    PROVE  Fades
BY DEF TypeOK, Fades

LEMMA StopFades ==
    ASSUME TypeOK, NEW c, StopOk(c) \/ StopFails(c) \/ conts' = Stopped(c),
           UNCHANGED <<now, rows, nrows, nconts>>
    PROVE  Fades
BY DEF TypeOK, Fades, StopOk, StopFails, Stopped, Cont

\* A start request and the removal after it leave the other containers alone.
LEMMA StartedEffect ==
    ASSUME TypeOK, NEW p \in Procs, loc[p].cont \in ContIds, NEW cs \in Started(p) \cup {conts}
    PROVE  /\ \A c \in ContIds : c # loc[p].cont => cs[c] = conts[c]
           /\ cs[loc[p].cont].key = conts[loc[p].cont].key
           /\ cs \in [ContIds -> Cont]
<1>1. cs \in [ContIds -> Cont]
  BY StartedType DEF TypeOK
<1>2. CASE cs = conts
  BY <1>1, <1>2
<1>3. ASSUME NEW port,
             cs = [conts EXCEPT ![loc[p].cont] = [@ EXCEPT !.state = "running", !.port = port]]
      PROVE  /\ \A c \in ContIds : c # loc[p].cont => cs[c] = conts[c]
             /\ cs[loc[p].cont].key = conts[loc[p].cont].key
  BY <1>3 DEF TypeOK, Cont
<1>4. QED
  BY <1>1, <1>2, <1>3 DEF Started

LEMMA RemovedEffect ==
    ASSUME TypeOK, NEW p \in Procs, loc[p].cont \in ContIds,
           NEW cs \in Started(p) \cup {conts}, Removed(p, cs)
    PROVE  /\ \A c \in ContIds : c # loc[p].cont => conts'[c] = conts[c]
           /\ conts'[loc[p].cont].key = conts[loc[p].cont].key
BY StartedEffect DEF Removed, Cont

LEMMA StartEffect ==
    ASSUME TypeOK, NEW p \in Reqs,
           \/ CreateContainer(p) \/ CreateFails(p)
           \/ StartContainer(p) \/ StartPortTaken(p) \/ StartFails(p)
           \/ CreateInstance(p) \/ CreateInstanceFails(p) \/ UndoStart(p)
    PROVE  Effect
<1> p \in Procs
  BY DEF Procs
<1>1. CASE CreateContainer(p)
  BY <1>1 DEF CreateContainer, Goto, Creates, Mild, Effect
<1>2. CASE CreateFails(p)
  BY <1>2, NothingFades DEF CreateFails, Creates, Mild, Effect
<1>c. pc[p] = "start" => loc[p].cont \in ContIds
  BY DEF TypeOK, ContSteps
<1>3. CASE StartContainer(p)
  <2>1. Starts(p)
    BY <1>3, <1>c, StartedEffect DEF StartContainer, Goto, Starts
  <2>2. QED
    BY <2>1 DEF Effect
<1>4. CASE StartPortTaken(p)
  <2>1. Starts(p)
    BY <1>4, <1>c, RemovedEffect DEF StartPortTaken, Goto, Starts
  <2>2. QED
    BY <2>1 DEF Effect
<1>5. CASE StartFails(p)
  <2>1. Starts(p)
    BY <1>5, <1>c, RemovedEffect DEF StartFails, Starts
  <2>2. QED
    BY <2>1 DEF Effect
<1>6. CASE CreateInstance(p)
  BY <1>6 DEF CreateInstance, Inserts, Mild, Effect
<1>7. CASE CreateInstanceFails(p)
  BY <1>7, NothingFades DEF CreateInstanceFails, Goto, Inserts, Mild, Effect
<1>8. CASE UndoStart(p)
  BY <1>8, StopFades DEF UndoStart, Mild, Effect
<1>9. QED
  BY <1>1, <1>2, <1>3, <1>4, <1>5, <1>6, <1>7, <1>8

\* The other calls of a request.
LEMMA RequestEffect ==
    ASSUME IInv, NEW p \in Reqs, Request(p) \/ Continue(p)
    PROVE  Effect
<1> p \in Procs /\ TypeOK
  BY DEF Procs, IInv
<1>1. CASE Request(p)
  BY <1>1, NothingFades
     DEF Request, StartInstance, RenewInstance, DeleteInstance, Enter, Mild, Effect
<1>2. CASE \/ StartActive(p) \/ StartCapacity(p) \/ StartCooldown(p)
           \/ ListActiveHostPorts(p) \/ InspectContainer(p) \/ InspectFails(p)
           \/ RenewDecide(p) \/ DeleteFind(p)
  BY <1>2, NothingFades
     DEF StartActive, StartCapacity, StartCooldown, ListActiveHostPorts, InspectContainer,
         InspectFails, RenewDecide, DeleteFind, Mild, Effect
<1>3. CASE RenewUpdate(p)
  BY <1>3 DEF RenewUpdate, Renews, Mild, Effect
<1>4. CASE DeleteStop(p)
  BY <1>4, StopFades DEF DeleteStop, Mild, Effect
<1>5. CASE DeleteTerminate(p)
  <2>1. loc[p].row \in RowIds /\ Used(loc[p].row)
    BY <1>5 DEF DeleteTerminate, TypeOK, IInv, RowsHeld, RowSteps
  <2>2. Ends(loc[p].row)
    BY <1>5, <2>1 DEF DeleteTerminate, IInv, RowsHeld, TerminateSteps, Ends
  <2>3. QED
    BY <2>1, <2>2 DEF Mild, Effect
<1>6. QED
  BY <1>1, <1>2, <1>3, <1>4, <1>5, StartEffect DEF Continue

LEMMA BackgroundEffect == IInv /\ Background => Mild
<1> SUFFICES ASSUME IInv, Background PROVE Mild
  OBVIOUS
<1> TypeOK /\ Bg \in Procs
  BY DEF Procs, IInv
<1>1. ASSUME NEW r \in RowIds, SweepStop(r) \/ SweepStopFails(r) \/ CheckExists(r)
      PROVE  Mild
  BY <1>1, StopFades, NothingFades DEF SweepStop, SweepStopFails, CheckExists, Mild
<1>2. ASSUME NEW c \in ContIds, StopExtra(c) \/ StopExtraFails(c)
      PROVE  Mild
  BY <1>2, StopFades DEF StopExtra, StopExtraFails, Mild
<1>3. CASE SweepTerminate \/ CheckTerminate
  <2>1. loc[Bg].row \in RowIds /\ Used(loc[Bg].row)
    BY <1>3 DEF SweepTerminate, CheckTerminate, Goto, TypeOK, IInv, RowsHeld, RowSteps
  <2>2. Ends(loc[Bg].row)
    BY <1>3, <2>1
       DEF SweepTerminate, CheckTerminate, Goto, IInv, RowsHeld, TerminateSteps, Ends
  <2>3. QED
    BY <2>1, <2>2 DEF Mild
<1>4. CASE SweepExpired \/ SweepDone \/ Reconcile \/ ListManagedContainers \/ CheckDone
           \/ ReconcileDone
  BY <1>4, NothingFades
     DEF SweepExpired, SweepDone, Reconcile, ListManagedContainers, CheckDone, ReconcileDone,
         Mild
<1>5. QED
  BY <1>1, <1>2, <1>3, <1>4 DEF Background

LEMMA AdministrateEffect ==
    ASSUME IInv, NEW a \in Admins, Administrate(a)
    PROVE  Mild
<1> TypeOK /\ a \in Procs
  BY DEF Procs, IInv
<1>1. ASSUME NEW r \in RowIds, AdminRead(a, r) PROVE Mild
  BY <1>1, NothingFades DEF AdminRead, Mild
<1>2. CASE AdminStop(a)
  BY <1>2, StopFades DEF AdminStop, Mild
<1>3. CASE AdminTerminate(a)
  <2>1. loc[a].row \in RowIds /\ Used(loc[a].row)
    BY <1>3 DEF AdminTerminate, TypeOK, IInv, RowsHeld, RowSteps
  <2>2. Ends(loc[a].row)
    BY <1>3, <2>1 DEF AdminTerminate, IInv, RowsHeld, TerminateSteps, Ends
  <2>3. QED
    BY <2>1, <2>2 DEF Mild
<1>4. QED
  BY <1>1, <1>2, <1>3 DEF Administrate

LEMMA EnvironmentEffect == IInv /\ (Environment \/ UNCHANGED vars) => Mild
<1> SUFFICES ASSUME IInv, Environment \/ UNCHANGED vars PROVE Mild
  OBVIOUS
<1> TypeOK
  BY DEF IInv
<1>1. CASE Tick
  BY <1>1 DEF Tick, TypeOK, Fades, Mild
<1>2. ASSUME NEW c \in ContIds, ContainerExits(c) PROVE Mild
  BY <1>2, StopFades DEF ContainerExits, Mild
<1>3. ASSUME \/ Crash \/ UNCHANGED vars
             \/ \E p \in Procs : CallFails(p)
             \/ \E ch \in Chals, g \in Configs : UpdateConfig(ch, g)
      PROVE  Mild
  BY <1>3, NothingFades DEF Crash, CallFails, UpdateConfig, vars, Mild
<1>4. QED
  BY <1>1, <1>2, <1>3 DEF Environment

LEMMA StepEffect == IInv /\ [Next]_vars => Effect
BY RequestEffect, AdministrateEffect, BackgroundEffect, EnvironmentEffect DEF Next, Effect

-----------------------------------------------------------------------------
(* Every effect keeps the tables consistent.                                 *)

\* A step that leaves the rows alone, and the containers that rows have in their
\* state or gone.
LEMMA SameRowsTables ==
    ASSUME TypeOK, TypeOK', Tables, UNCHANGED <<rows, nrows>>, now <= now', nconts <= nconts',
           \A r \in RowIds : Used(r) =>
              /\ conts'[rows[r].cont].key = conts[rows[r].cont].key
              /\ conts'[rows[r].cont].state \in {conts[rows[r].cont].state, "gone"}
    PROVE  Tables'
<1>1. RowsIssued'
  <2> SUFFICES ASSUME NEW r \in RowIds, Used(r)
               PROVE  rows[r].started <= now' /\ rows[r].cont \in 1..nconts'
    BY DEF RowsIssued, Tables, Used
  <2>1. rows[r].started \in Nat /\ now \in Nat /\ now' \in Nat /\ nconts \in Nat /\ nconts' \in Nat
    BY DEF TypeOK, Row
  <2>2. rows[r].started <= now /\ rows[r].cont \in 1..nconts
    BY DEF RowsIssued, Tables
  <2>3. QED
    BY <2>1, <2>2
<1>2. StoppedBeforeTerminated'
  BY DEF StoppedBeforeTerminated, Tables, Used
<1>3. DistinctActivePorts'
  BY DEF DistinctActivePorts, Tables, Running
<1>4. ContainersOwnedOnce'
  BY DEF ContainersOwnedOnce, Tables, Used
<1>5. QED
  BY <1>1, <1>2, <1>3, <1>4 DEF Tables

LEMMA OwnedContainers ==
    ASSUME TypeOK, Tables, NEW r \in RowIds, Used(r)
    PROVE  /\ rows[r].cont \in ContIds /\ rows[r].cont \in 1..nconts
           /\ conts[rows[r].cont] \in Cont /\ rows[r] \in Row
BY BoundAssumption DEF Tables, RowsIssued, TypeOK, ContIds

LEMMA FadedContainer ==
    ASSUME TypeOK, Fades, NEW c \in ContIds
    PROVE  /\ conts'[c].key = conts[c].key /\ conts'[c].port = conts[c].port
           /\ conts'[c].state \in {conts[c].state, "gone"}
           /\ conts'[c].state = "gone" => conts[c].state \in {"running", "gone"}
<1>1. conts[c] \in Cont
  BY DEF TypeOK
<1>2. CASE conts'[c] = conts[c]
  BY <1>2
<1>3. CASE conts[c].state = "running" /\ conts'[c] = [conts[c] EXCEPT !.state = "gone"]
  BY <1>1, <1>3 DEF Cont
<1>4. QED
  BY <1>2, <1>3 DEF Fades

LEMMA FadesTables ==
    ASSUME TypeOK, TypeOK', Tables, Fades
    PROVE  Tables'
<1>1. ASSUME NEW r \in RowIds, Used(r)
      PROVE  /\ conts'[rows[r].cont].key = conts[rows[r].cont].key
             /\ conts'[rows[r].cont].state \in {conts[rows[r].cont].state, "gone"}
  BY <1>1, OwnedContainers, FadedContainer
<1>2. nconts <= nconts'
  BY DEF TypeOK, Fades
<1>3. QED
  BY <1>1, <1>2, SameRowsTables DEF Fades

LEMMA EndsTables ==
    ASSUME TypeOK, TypeOK', Tables, NEW r \in RowIds, Ends(r)
    PROVE  Tables'
<1>1. /\ rows' = [rows EXCEPT ![r].status = "terminated"]
      /\ UNCHANGED <<now, nrows, conts, nconts>>
      /\ Used(r) /\ conts[rows[r].cont].state = "gone"
  BY DEF Ends, TerminateRow
<1>2. \A q \in RowIds : /\ Used(q)' <=> Used(q)
                        /\ q # r => rows'[q] = rows[q]
                        /\ rows'[q].cont = rows[q].cont /\ rows'[q].key = rows[q].key
                        /\ rows'[q].port = rows[q].port /\ rows'[q].started = rows[q].started
  BY <1>1 DEF TypeOK, Row, Used
<1>3. rows'[r].status = "terminated"
  BY <1>1 DEF TypeOK, Row
<1>4. RowsIssued'
  BY <1>1, <1>2 DEF RowsIssued, Tables
<1>5. StoppedBeforeTerminated'
  BY <1>1, <1>2 DEF StoppedBeforeTerminated, Tables
<1>6. DistinctActivePorts'
  BY <1>2, <1>3 DEF DistinctActivePorts, Tables, Running
<1>7. ContainersOwnedOnce'
  BY <1>1, <1>2 DEF ContainersOwnedOnce, Tables, Used
<1>8. QED
  BY <1>4, <1>5, <1>6, <1>7 DEF Tables

LEMMA CreatesTables ==
    ASSUME TypeOK, TypeOK', Tables, NEW p \in Reqs, Creates(p)
    PROVE  Tables'
<1>1. /\ UNCHANGED <<now, rows, nrows>> /\ nconts' = nconts + 1
      /\ conts' = [conts EXCEPT ![nconts + 1] =
                     [state |-> "created", key |-> loc[p].key, port |-> 0]]
  BY DEF Creates, NewContainer
<1>2. nconts \in Nat
  BY DEF TypeOK
<1>3. ASSUME NEW r \in RowIds, Used(r)
      PROVE  conts'[rows[r].cont] = conts[rows[r].cont]
  <2>1. rows[r].cont \in 1..nconts /\ rows[r].cont \in ContIds
    BY <1>3, OwnedContainers
  <2>2. rows[r].cont # nconts + 1
    BY <1>2, <2>1
  <2>3. QED
    BY <1>1, <2>1, <2>2 DEF TypeOK
<1>4. now <= now' /\ nconts <= nconts'
  BY <1>1, <1>2 DEF TypeOK
<1>5. QED
  BY <1>1, <1>3, <1>4, SameRowsTables

LEMMA StartsTables ==
    ASSUME TypeOK, TypeOK', Tables, NEW p \in Reqs, StartOwns(p), Starts(p)
    PROVE  Tables'
<1>1. ASSUME NEW r \in RowIds, Used(r)
      PROVE  conts'[rows[r].cont] = conts[rows[r].cont]
  BY <1>1, OwnedContainers DEF Starts, StartOwns
<1>2. now <= now' /\ nconts <= nconts'
  BY DEF TypeOK, Starts
<1>3. QED
  BY <1>1, <1>2, SameRowsTables DEF Starts

\* The row that InsertRow adds, and the rest of the table.
LEMMA InsertedRow ==
    ASSUME TypeOK, TypeOK', Tables, NEW p \in Reqs, Inserts(p)
    PROVE  /\ nrows + 1 \in RowIds /\ ~Used(nrows + 1) /\ rows'[nrows + 1] = NewRow(p)
           /\ \A r \in RowIds : r # nrows + 1 => rows'[r] = rows[r]
           /\ nrows' = nrows + 1
           /\ UNCHANGED <<now, conts, nconts>>
<1>1. /\ nrows < MaxRows /\ nrows' = nrows + 1
      /\ rows' = [rows EXCEPT ![nrows + 1] = NewRow(p)]
      /\ UNCHANGED <<now, conts, nconts>>
  BY DEF Inserts, InsertRow
<1>2. nrows + 1 \in RowIds /\ ~(nrows + 1 <= nrows)
  BY <1>1, BoundAssumption DEF TypeOK, RowIds
<1>3. QED
  BY <1>1, <1>2 DEF TypeOK, Tables, RowsIssued

LEMMA InsertsTables ==
    ASSUME TypeOK, TypeOK', Tables, NEW p \in Reqs, StartKnows(p), StartOwns(p), Inserts(p)
    PROVE  Tables'
<1> DEFINE n == nrows + 1
<1>n. /\ n \in RowIds /\ ~Used(n) /\ rows'[n] = NewRow(p)
      /\ \A r \in RowIds : r # n => rows'[r] = rows[r]
      /\ nrows' = n
      /\ UNCHANGED <<now, conts, nconts>>
  BY InsertedRow
<1>r. /\ rows'[n].status = "running" /\ rows'[n].key = loc[p].key
      /\ rows'[n].cont = loc[p].cont /\ rows'[n].port = loc[p].port /\ rows'[n].started = now
  BY <1>n DEF NewRow
<1>u. nrows \in Nat /\ RowIds \subseteq Nat /\ now \in Nat
  BY DEF TypeOK, RowIds
<1> HIDE DEF n
<1>o. /\ pc[p] = "insert" /\ loc[p].key \in Keys /\ loc[p].cont \in 1..nconts
      /\ loc[p].cont \in ContIds
      /\ \A r \in RowIds : Used(r) => rows[r].cont # loc[p].cont
      /\ conts[loc[p].cont].key = loc[p].key
      /\ conts[loc[p].cont].state \in {"running", "gone"}
      /\ RangeConfigured => loc[p].port > 0 /\ loc[p].port \notin ActivePorts
  BY DEF Inserts, StartKnows, StartOwns, TypeOK, ContSteps, Procs
<1>1. RowsIssued'
  <2> SUFFICES ASSUME NEW r \in RowIds
               PROVE  /\ Used(r)' <=> r <= n
                      /\ ~Used(r)' => rows'[r] = NoRow
                      /\ Used(r)' =>
                           /\ rows'[r].key \in Keys
                           /\ rows'[r].started <= now
                           /\ rows'[r].cont \in 1..nconts
                           /\ conts[rows'[r].cont].key = rows'[r].key
                           /\ conts[rows'[r].cont].state \in {"running", "gone"}
                           /\ RangeConfigured => rows'[r].port > 0
    BY <1>n DEF RowsIssued
  <2>1. CASE r = n
    BY <1>r, <1>u, <1>o, <2>1 DEF Used
  <2>2. CASE r # n
    <3>1. rows'[r] = rows[r] /\ (Used(r)' <=> Used(r))
      BY <1>n, <2>2 DEF Used
    <3>2. r <= n <=> r <= nrows
      BY <1>u, <2>2 DEF n
    <3>3. QED
      BY <3>1, <3>2 DEF Tables, RowsIssued
  <2>3. QED
    BY <2>1, <2>2
<1>2. StoppedBeforeTerminated'
  BY <1>n, <1>r DEF StoppedBeforeTerminated, Tables
<1>3. DistinctActivePorts'
  <2> SUFFICES ASSUME RangeConfigured, NEW r \in RowIds, NEW q \in RowIds,
                      Running(r)', Running(q)', r # q
               PROVE  rows'[r].port # rows'[q].port
    BY DEF DistinctActivePorts
  <2>1. ASSUME NEW s \in RowIds, s # n, Running(s)'
        PROVE  rows'[s].port = rows[s].port /\ rows[s].port \in ActivePorts
    <3>1. rows'[s] = rows[s] /\ Running(s)
      BY <1>n, <2>1 DEF Running
    <3>2. rows[s].port > 0
      BY <3>1 DEF Tables, RowsIssued, Running, Used
    <3>3. QED
      BY <3>1, <3>2 DEF ActivePorts
  <2>2. CASE r = n \/ q = n
    BY <1>r, <1>o, <2>1, <2>2
  <2>3. CASE r # n /\ q # n
    BY <1>n, <2>3 DEF Tables, DistinctActivePorts, Running
  <2>4. QED
    BY <2>2, <2>3
<1>4. ContainersOwnedOnce'
  <2> SUFFICES ASSUME NEW r \in RowIds, Used(r)'
               PROVE  /\ rows'[r].cont \in ContIds /\ conts'[rows'[r].cont].key = rows'[r].key
                      /\ \A q \in RowIds : Used(q)' /\ rows'[q].cont = rows'[r].cont => q = r
    BY DEF ContainersOwnedOnce, Used
  <2>1. \A q \in RowIds : q # n => rows'[q] = rows[q] /\ (Used(q)' <=> Used(q))
    BY <1>n DEF Used
  <2>2. CASE r = n
    BY <1>n, <1>r, <1>o, <2>1, <2>2
  <2>3. CASE r # n
    BY <1>n, <1>r, <1>o, <2>1, <2>3 DEF Tables, ContainersOwnedOnce, Used
  <2>4. QED
    BY <2>2, <2>3
<1>5. QED
  BY <1>1, <1>2, <1>3, <1>4 DEF Tables

\* A renewal changes the expiry of a row and the count of its renewals.
LEMMA RenewedRow ==
    ASSUME TypeOK, NEW p \in Reqs, Renews(p)
    PROVE  /\ UNCHANGED <<now, nrows, conts, nconts>>
           /\ \A r \in RowIds :
                 /\ rows'[r].status = rows[r].status /\ rows'[r].key = rows[r].key
                 /\ rows'[r].cont = rows[r].cont /\ rows'[r].port = rows[r].port
                 /\ rows'[r].started = rows[r].started
                 /\ ~Running(r) \/ r # loc[p].row => rows'[r] = rows[r]
                 /\ Running(r) /\ r = loc[p].row =>
                       rows'[r].renew = rows[r].renew + 1 /\ rows'[r].expires = loc[p].expires
BY DEF Renews, RenewedRows, TypeOK, Row

LEMMA RenewsTables ==
    ASSUME TypeOK, TypeOK', Tables, NEW p \in Reqs, Renews(p)
    PROVE  Tables'
<1>1. RowsIssued'
  BY RenewedRow DEF RowsIssued, Tables, Used, Running
<1>2. StoppedBeforeTerminated'
  BY RenewedRow DEF StoppedBeforeTerminated, Tables
<1>3. DistinctActivePorts'
  BY RenewedRow DEF DistinctActivePorts, Tables, Running
<1>4. ContainersOwnedOnce'
  BY RenewedRow DEF ContainersOwnedOnce, Tables
<1>5. QED
  BY <1>1, <1>2, <1>3, <1>4 DEF Tables

LEMMA EffectTables == IInv /\ TypeOK' /\ Effect => Tables'
BY FadesTables, EndsTables, CreatesTables, StartsTables, InsertsTables, RenewsTables
   DEF IInv, Mild, Effect

-----------------------------------------------------------------------------
(* One goroutine moves at a time, and inside the mutex only its holder.      *)

\* What a goroutine that moves does to pc and loc.
Moves(p, s, l) ==
    /\ pc' = [pc EXCEPT ![p] = s]
    /\ loc' = [loc EXCEPT ![p] = l]

LEMMA MovedOnly ==
    ASSUME TypeOK, NEW p \in Procs, NEW s, NEW l, Moves(p, s, l)
    PROVE  /\ pc'[p] = s /\ loc'[p] = l
           /\ \A q \in Procs : q # p => pc'[q] = pc[q] /\ loc'[q] = loc[q]
BY DEF TypeOK, Moves

\* The steps of a goroutine, and those at which it holds the mutex.
Own(p, s) ==
    /\ p \in Reqs   => s \in ReqSteps \cup {"idle"}
    /\ p \in Admins => s \in AdminSteps \cup {"idle"}
    /\ p = Bg       => s \in BgSteps \cup {"idle", "recon"}

Inside(p, s) ==
    \/ p \in Reqs /\ s # "idle"
    \/ p = Bg /\ s \in BgSteps

LEMMA InsideHolds ==
    ASSUME MutexHeld, NEW p \in Procs, Inside(p, pc[p])
    PROVE  mu = p
BY DEF MutexHeld, Inside

\* A goroutine keeps the mutex, takes it, or leaves it.
LEMMA MutexMove ==
    ASSUME TypeOK, MutexHeld, NEW p \in Procs, NEW s, NEW l, Moves(p, s, l), Own(p, s),
           \/ mu' = mu /\ (Inside(p, s) => Inside(p, pc[p]))
           \/ mu = NoProc /\ mu' = p
           \/ ~Inside(p, s) /\ mu' = IF mu = p THEN NoProc ELSE mu
    PROVE  MutexHeld'
<1>1. /\ pc'[p] = s
      /\ \A q \in Procs : q # p => pc'[q] = pc[q]
  BY MovedOnly
<1>2. Inside(p, s) => mu' = p
  BY InsideHolds
<1>3. ASSUME NEW q \in Procs, q # p, Inside(q, pc[q]) PROVE mu' = q
  BY <1>3, InsideHolds, ProcAssumption DEF Procs
<1>4. ASSUME NEW q \in Reqs
      PROVE  pc'[q] \in ReqSteps \cup {"idle"} /\ (pc'[q] # "idle" => mu' = q)
  BY <1>1, <1>2, <1>3 DEF Own, Inside, MutexHeld, Procs
<1>5. ASSUME NEW a \in Admins PROVE pc'[a] \in AdminSteps \cup {"idle"}
  BY <1>1 DEF Own, MutexHeld, Procs
<1>6. /\ pc'[Bg] \in BgSteps \cup {"idle", "recon"}
      /\ pc'[Bg] \in BgSteps => mu' = Bg
  BY <1>1, <1>2, <1>3 DEF Own, Inside, MutexHeld, Procs
<1>7. QED
  BY <1>4, <1>5, <1>6 DEF MutexHeld

\* While a request is inside, no other one is under way.
LEMMA OthersIdle ==
    ASSUME MutexHeld, NEW p \in Procs, Inside(p, pc[p]) \/ mu = NoProc,
           NEW q \in Reqs, q # p
    PROVE  pc[q] = "idle"
BY InsideHolds, ProcAssumption DEF MutexHeld, Inside, Procs

LEMMA ReturnMoves ==
    ASSUME TypeOK, NEW p, Return(p)
    PROVE  Moves(p, "idle", NoLoc) /\ mu' = IF mu = p THEN NoProc ELSE mu
BY DEF Return, Set, Moves

LEMMA GotoMoves ==
    ASSUME TypeOK, NEW p \in Procs, NEW from, NEW to, Goto(p, from, to), loc' = loc
    PROVE  Moves(p, to, loc[p]) /\ pc[p] = from
BY DEF TypeOK, Goto, Moves

LEMMA GotoSetMoves ==
    ASSUME NEW p, NEW from, NEW to, NEW l, Goto(p, from, to), Set(p, l)
    PROVE  Moves(p, to, l) /\ pc[p] = from
BY DEF Goto, Set, Moves

\* Who has returned knows nothing and holds nothing.
LEMMA ReturnKnows ==
    ASSUME TypeOK, NEW p \in Procs, NEW s \in {"idle", "recon"}, Moves(p, s, NoLoc)
    PROVE  /\ RowsHeld(p)'
           /\ s = "idle" => StartKnows(p)' /\ StartOwns(p)' /\ RenewKnows(p)'
<1>1. pc'[p] = s /\ loc'[p] = NoLoc
  BY MovedOnly
<1>2. RowsHeld(p)'
  BY <1>1 DEF RowsHeld, RowSteps, TerminateSteps, NoLoc
<1>3. s = "idle" => StartKnows(p)' /\ StartOwns(p)' /\ RenewKnows(p)'
  BY <1>1 DEF StartKnows, StartOwns, RenewKnows, AfterActive, AfterCapacity, AfterCooldown
<1>4. QED
  BY <1>2, <1>3

-----------------------------------------------------------------------------
(* What the goroutines that do not move know stays true.                     *)

LEMMA CountIsNat ==
    ASSUME NEW S, S \subseteq RowIds
    PROVE  /\ IsFiniteSet(S) /\ Cardinality(S) \in Nat
           /\ \A T \in SUBSET S : Cardinality(T) \in Nat /\ Cardinality(T) <= Cardinality(S)
<1>1. IsFiniteSet(RowIds)
  BY BoundAssumption, FS_Interval DEF RowIds
<1>2. IsFiniteSet(S)
  BY <1>1, FS_Subset
<1>3. QED
  BY <1>2, FS_CardinalityType, FS_Subset

LEMMA MildRows ==
    ASSUME TypeOK, Mild
    PROVE  /\ UNCHANGED <<nrows, nconts>> /\ now <= now'
           /\ \A r \in RowIds :
                 /\ rows'[r].key = rows[r].key /\ rows'[r].cont = rows[r].cont
                 /\ rows'[r].port = rows[r].port /\ rows'[r].renew = rows[r].renew
                 /\ rows'[r].started = rows[r].started /\ rows'[r].expires = rows[r].expires
                 /\ (Used(r)' <=> Used(r)) /\ (Running(r)' => Running(r))
<1>1. CASE Fades
  BY <1>1 DEF Fades, Used, Running
<1>2. ASSUME NEW e \in RowIds, Ends(e)
      PROVE  /\ UNCHANGED <<nrows, nconts>> /\ now <= now'
             /\ \A r \in RowIds :
                 /\ rows'[r].key = rows[r].key /\ rows'[r].cont = rows[r].cont
                 /\ rows'[r].port = rows[r].port /\ rows'[r].renew = rows[r].renew
                 /\ rows'[r].started = rows[r].started /\ rows'[r].expires = rows[r].expires
                 /\ (Used(r)' <=> Used(r)) /\ (Running(r)' => Running(r))
  <2>1. now <= now' /\ UNCHANGED <<nrows, nconts>>
    BY <1>2 DEF Ends, TypeOK
  <2>2. QED
    BY <1>2, <2>1 DEF Ends, TerminateRow, TypeOK, Row, Used, Running
<1>3. QED
  BY <1>1, <1>2 DEF Mild

\* The sets that are read from the table only shrink.
LEMMA MildReads ==
    ASSUME TypeOK, Mild, NEW k, NEW ch
    PROVE  /\ ActiveOf(k)' \subseteq ActiveOf(k)
           /\ ActivePorts' \subseteq ActivePorts
           /\ CountActive(ch) \in Nat /\ CountActive(ch)' \in Nat
           /\ CountActive(ch)' <= CountActive(ch)
<1>1. ActiveOf(k)' \subseteq ActiveOf(k)
  BY MildRows DEF ActiveOf
<1>2. ActivePorts' \subseteq ActivePorts
  BY MildRows DEF ActivePorts
<1> DEFINE S == {r \in RowIds : Running(r) /\ rows[r].key[2] = ch}
           T == {r \in RowIds : Running(r)' /\ rows'[r].key[2] = ch}
<1>3. T \subseteq S /\ S \subseteq RowIds
  BY MildRows
<1>4. CountActive(ch) = Cardinality(S) /\ CountActive(ch)' = Cardinality(T)
  BY DEF CountActive
<1> HIDE DEF S, T
<1>5. QED
  BY <1>1, <1>2, <1>3, <1>4, CountIsNat

LEMMA MildContainer ==
    ASSUME TypeOK, Mild, NEW c \in ContIds
    PROVE  /\ conts'[c].key = conts[c].key /\ conts'[c].port = conts[c].port
           /\ conts'[c].state \in {conts[c].state, "gone"}
BY FadedContainer DEF Mild, Ends

LEMMA MildKnows ==
    ASSUME TypeOK, TypeOK', Mild, NEW q \in Reqs, pc'[q] = pc[q], loc'[q] = loc[q],
           StartKnows(q), StartOwns(q), RenewKnows(q)
    PROVE  StartKnows(q)' /\ StartOwns(q)' /\ RenewKnows(q)'
<1> q \in Procs
  BY DEF Procs
<1> DEFINE l == loc[q]
<1>t. /\ now \in Nat /\ now' \in Nat /\ now <= now'
      /\ l.cfg.maxActive \in Nat /\ l.cfg.cooldown \in Nat /\ l.expires \in Nat /\ MaxTTL \in Nat
      /\ \A r \in RowIds : /\ rows[r].started \in Nat /\ rows[r].renew \in Nat
                           /\ rows[r].expires \in Nat
  BY MildRows, ConfigAssumption DEF TypeOK, Loc, Config, Row
<1> PICK k, ch : k = loc[q].key /\ ch = loc[q].key[2]
  OBVIOUS
<1>k. /\ ActiveOf(k)' \subseteq ActiveOf(k)
      /\ ActivePorts' \subseteq ActivePorts
      /\ CountActive(ch) \in Nat /\ CountActive(ch)' \in Nat
      /\ CountActive(ch)' <= CountActive(ch)
  BY MildReads
<1>1. StartKnows(q)'
  <2>1. pc[q] \in AfterCooldown =>
          \A r \in RowIds : Used(r)' /\ rows'[r].key = l.key => rows'[r].started + l.cfg.cooldown <= now'
    BY <1>t, MildRows DEF StartKnows
  <2>2. pc[q] \in AfterCapacity => l.cfg.maxActive = 0 \/ CountActive(l.key[2])' < l.cfg.maxActive
    BY <1>t, <1>k DEF StartKnows
  <2>3. QED
    BY <1>k, <2>1, <2>2 DEF StartKnows
<1>2. StartOwns(q)'
  <2>1. pc[q] \in {"start", "inspect", "insert"} => l.cont \in ContIds
    BY DEF TypeOK, ContSteps
  <2>2. QED
    BY <1>k, <2>1, MildRows, MildContainer DEF StartOwns
<1>3. RenewKnows(q)'
  <2>1. pc[q] = "renewUpdate" => l.row \in RowIds
    BY DEF TypeOK, RowSteps
  <2>2. QED
    BY <1>t, <2>1, MildRows DEF RenewKnows, Later
<1>4. QED
  BY <1>1, <1>2, <1>3

\* No step takes away a row, moves it to another container or starts one that
\* is gone again.
LEMMA EffectRows ==
    ASSUME IInv, TypeOK', Effect, NEW r \in RowIds, Used(r)
    PROVE  /\ Used(r)' /\ rows'[r].cont = rows[r].cont
           /\ conts[rows[r].cont].state = "gone" => conts'[rows[r].cont].state = "gone"
<1> TypeOK /\ Tables
  BY DEF IInv
<1>c. rows[r].cont \in ContIds /\ rows[r].cont \in 1..nconts /\ nconts \in Nat
  BY OwnedContainers DEF TypeOK
<1>1. CASE Mild
  BY <1>1, <1>c, MildRows, MildContainer
<1>2. ASSUME NEW p \in Reqs, Creates(p)
      PROVE  rows' = rows /\ conts'[rows[r].cont] = conts[rows[r].cont]
  <2>1. rows[r].cont # nconts + 1
    BY <1>c
  <2>2. QED
    BY <1>2, <1>c, <2>1 DEF Creates, NewContainer, TypeOK
<1>3. ASSUME NEW p \in Reqs, Starts(p)
      PROVE  rows' = rows /\ conts'[rows[r].cont] = conts[rows[r].cont]
  BY <1>3, <1>c DEF Starts, StartOwns, IInv
<1>4. ASSUME NEW p \in Reqs, Inserts(p)
      PROVE  rows'[r] = rows[r] /\ conts' = conts
  BY <1>4, InsertedRow
<1>5. ASSUME NEW p \in Reqs, Renews(p)
      PROVE  rows'[r].status = rows[r].status /\ rows'[r].cont = rows[r].cont /\ conts' = conts
  BY <1>5, RenewedRow
<1>6. QED
  BY <1>1, <1>2, <1>3, <1>4, <1>5 DEF Effect, Used

LEMMA EffectHeld ==
    ASSUME IInv, TypeOK', Effect, NEW q \in Procs, pc'[q] = pc[q], loc'[q] = loc[q]
    PROVE  RowsHeld(q)'
<1>1. TypeOK /\ RowsHeld(q)
  BY DEF IInv
<1>2. loc[q].todo \subseteq RowIds /\ (pc[q] \in RowSteps => loc[q].row \in RowIds)
  BY <1>1 DEF TypeOK, Loc
<1>3. TerminateSteps \subseteq RowSteps
  BY DEF TerminateSteps, RowSteps
<1>4. ASSUME pc[q] \in RowSteps
      PROVE  /\ Used(loc[q].row)' /\ Used(loc[q].row)
             /\ rows'[loc[q].row].cont = rows[loc[q].row].cont
             /\ conts[rows[loc[q].row].cont].state = "gone" =>
                   conts'[rows[loc[q].row].cont].state = "gone"
  <2> PICK r \in RowIds : r = loc[q].row
    BY <1>2, <1>4
  <2>1. Used(r)
    BY <1>1, <1>4 DEF RowsHeld
  <2>2. QED
    BY <2>1, EffectRows
<1>5. \A r \in loc[q].todo : Used(r)'
  BY <1>1, <1>2, EffectRows DEF RowsHeld
<1>6. QED
  BY <1>1, <1>3, <1>4, <1>5 DEF RowsHeld

\* Among goroutines that do not move, only requests know anything, and those
\* are idle when a request writes.
Knows(q) == q \in Reqs => StartKnows(q) /\ StartOwns(q) /\ RenewKnows(q)

LEMMA IdleKnows ==
    ASSUME NEW q \in Procs, pc[q] = "idle"
    PROVE  StartKnows(q) /\ StartOwns(q) /\ RenewKnows(q)
BY DEF StartKnows, StartOwns, RenewKnows, AfterActive, AfterCapacity, AfterCooldown

\* What remains to be shown of a step: the mutex, and what the goroutine that
\* moves knows and holds.
LEMMA MoveKeeps ==
    ASSUME IInv, TypeOK', Effect, MutexHeld',
           NEW p \in Procs, NEW s, NEW l, Moves(p, s, l), Knows(p)', RowsHeld(p)',
           Mild \/ Inside(p, pc[p])
    PROVE  IInv'
<1>1. \A q \in Procs : q # p => pc'[q] = pc[q] /\ loc'[q] = loc[q]
  BY MovedOnly DEF IInv
<1>2. \A q \in Procs : RowsHeld(q)'
  BY <1>1, EffectHeld
<1>3. ASSUME NEW q \in Reqs, q # p
      PROVE  StartKnows(q)' /\ StartOwns(q)' /\ RenewKnows(q)'
  <2>1. q \in Procs
    BY DEF Procs
  <2>2. CASE Mild
    BY <1>1, <1>3, <2>1, <2>2, MildKnows DEF IInv
  <2>3. CASE Inside(p, pc[p])
    <3>1. pc'[q] = "idle"
      BY <1>1, <1>3, <2>1, <2>3, OthersIdle DEF IInv
    <3>2. QED
      BY <2>1, <3>1 DEF StartKnows, StartOwns, RenewKnows, AfterActive, AfterCapacity, AfterCooldown
  <2>4. QED
    BY <2>2, <2>3
<1>4. Tables'
  BY EffectTables
<1>5. QED
  BY <1>2, <1>3, <1>4 DEF IInv, Knows

-----------------------------------------------------------------------------
(* Every action keeps the invariant.                                         *)

LEMMA ReturnKeeps ==
    ASSUME IInv, TypeOK', Effect, NEW p \in Procs, Return(p), Mild \/ Inside(p, pc[p])
    PROVE  IInv'
<1>1. Moves(p, "idle", NoLoc) /\ mu' = IF mu = p THEN NoProc ELSE mu
  BY ReturnMoves DEF IInv
<1>2. Own(p, "idle") /\ ~Inside(p, "idle")
  BY DEF Own, Inside, BgSteps
<1>3. MutexHeld'
  BY <1>1, <1>2, MutexMove DEF IInv
<1>4. Knows(p)' /\ RowsHeld(p)'
  BY <1>1, ReturnKnows DEF IInv, Knows
<1>5. QED
  BY <1>1, <1>3, <1>4, MoveKeeps

\* A step of the holder of the mutex, or of an administrator.
LEMMA GoKeeps ==
    ASSUME IInv, TypeOK', Effect, NEW p \in Procs, NEW s, NEW l, Moves(p, s, l), mu' = mu,
           Own(p, s), Inside(p, s) => Inside(p, pc[p]), Mild \/ Inside(p, pc[p]),
           Knows(p)', RowsHeld(p)'
    PROVE  IInv'
<1>1. MutexHeld'
  BY MutexMove DEF IInv
<1>2. QED
  BY <1>1, MoveKeeps

LEMMA LockKeeps ==
    ASSUME IInv, TypeOK', Mild, NEW p \in Procs, NEW s, NEW l, Moves(p, s, l), Lock(p),
           Own(p, s), Knows(p)', RowsHeld(p)'
    PROVE  IInv'
<1>1. MutexHeld'
  BY MutexMove DEF IInv, Lock
<1>2. QED
  BY <1>1, MoveKeeps DEF Effect

\* A step between calls that need no row.
LEMMA HeldMoves ==
    ASSUME IInv, TypeOK', Effect, NEW p \in Procs, NEW s, NEW l, Moves(p, s, l),
           s \notin RowSteps, l.todo \subseteq loc[p].todo
    PROVE  RowsHeld(p)'
<1>1. pc'[p] = s /\ loc'[p] = l
  BY MovedOnly DEF IInv
<1>2. loc[p].todo \subseteq RowIds
  BY DEF IInv, TypeOK, Loc
<1>3. \A r \in l.todo : Used(r)'
  BY <1>2, EffectRows DEF IInv, RowsHeld
<1>4. QED
  BY <1>1, <1>3 DEF RowsHeld, RowSteps, TerminateSteps

\* A request goes on to a call that needs no row, with what it has to know.
LEMMA RequestGoes ==
    ASSUME IInv, TypeOK', Effect, NEW p \in Reqs, NEW s, NEW l, Moves(p, s, l), mu' = mu,
           pc[p] # "idle", s \in ReqSteps \ RowSteps, l.todo = loc[p].todo,
           StartKnows(p)', StartOwns(p)'
    PROVE  IInv'
<1>1. p \in Procs /\ p \notin Admins /\ p # Bg
  BY ProcAssumption DEF Procs
<1>2. RowsHeld(p)'
  BY <1>1, HeldMoves
<1>3. pc'[p] = s
  BY <1>1, MovedOnly DEF IInv
<1>4. Knows(p)'
  BY <1>3 DEF Knows, RenewKnows, RowSteps
<1>5. Own(p, s) /\ Inside(p, pc[p])
  BY <1>1 DEF Own, Inside
<1>6. QED
  BY <1>1, <1>2, <1>4, <1>5, GoKeeps

LEMMA RequestReturns ==
    ASSUME IInv, TypeOK', Effect, NEW p \in Reqs, Return(p), pc[p] # "idle"
    PROVE  IInv'
BY ReturnKeeps DEF Inside, Procs

LEMMA EnterKeeps ==
    ASSUME IInv, TypeOK', NEW p \in Reqs, NEW k \in Keys, NEW b, NEW s \in {"active", "renew", "delete"},
           Enter(p, k, b, s)
    PROVE  IInv'
<1>1. p \in Procs /\ p \notin Admins /\ p # Bg /\ TypeOK
  BY ProcAssumption DEF Procs, IInv
<1>2. Mild
  BY <1>1, NothingFades DEF Enter, Mild
<1> DEFINE l == [NoLoc EXCEPT !.key = k, !.cfg = cfg[k[2]]]
<1>3. Moves(p, s, l) /\ Lock(p)
  BY <1>1, GotoSetMoves DEF Enter
<1>4. pc'[p] = s /\ loc'[p] = l
  BY <1>1, <1>3, MovedOnly
<1>5. l.key = k /\ l.todo = {}
  BY DEF NoLoc
<1> HIDE DEF l
<1>6. Knows(p)'
  BY <1>4, <1>5
     DEF Knows, StartKnows, StartOwns, RenewKnows, AfterActive, AfterCapacity, AfterCooldown
<1>7. RowsHeld(p)'
  BY <1>4, <1>5 DEF RowsHeld, RowSteps, TerminateSteps
<1>8. Own(p, s)
  BY <1>1 DEF Own, ReqSteps, StartSteps
<1>9. QED
  BY <1>1, <1>2, <1>3, <1>6, <1>7, <1>8, LockKeeps

\* The checks of StartInstance.
LEMMA StartReadsKeep ==
    ASSUME IInv, TypeOK', Effect, NEW p \in Reqs,
           \/ StartActive(p) \/ StartCapacity(p) \/ StartCooldown(p) \/ ListActiveHostPorts(p)
    PROVE  IInv'
<1>p. p \in Procs /\ TypeOK /\ StartKnows(p) /\ RowsIssued
  BY DEF Procs, IInv, Tables
<1>u. UNCHANGED <<now, rows>>
  BY DEF StartActive, StartCapacity, StartCooldown, ListActiveHostPorts
<1>s. {"capacity", "cooldown", "ports", "create"} \subseteq ReqSteps \ RowSteps
  BY DEF ReqSteps, StartSteps, RowSteps
<1>t. /\ loc[p].cfg.maxActive \in Nat /\ loc[p].cfg.cooldown \in Nat /\ now \in Nat
      /\ \A r \in RowIds : rows[r].started \in Nat
  BY <1>p, ConfigAssumption DEF TypeOK, Loc, Config, Row
<1>1. CASE Return(p) /\ pc[p] # "idle"
  BY <1>1, RequestReturns
<1>2. CASE Goto(p, "active", "capacity") /\ ActiveOf(loc[p].key) = {} /\ UNCHANGED <<loc, mu>>
  <2>1. Moves(p, "capacity", loc[p]) /\ pc[p] = "active"
    BY <1>2, <1>p, GotoMoves
  <2>2. pc'[p] = "capacity" /\ loc'[p] = loc[p]
    BY <2>1, <1>p, MovedOnly
  <2>3. StartKnows(p)' /\ StartOwns(p)'
    BY <1>2, <1>p, <1>u, <2>1, <2>2
       DEF StartKnows, StartOwns, AfterActive, AfterCapacity, AfterCooldown, ActiveOf, Running
  <2>4. QED
    BY <1>2, <1>s, <2>1, <2>3, RequestGoes
<1>3. CASE Goto(p, "capacity", "cooldown") /\ ~AtCapacity(p) /\ UNCHANGED <<loc, mu>>
  <2>1. Moves(p, "cooldown", loc[p]) /\ pc[p] = "capacity"
    BY <1>3, <1>p, GotoMoves
  <2>2. pc'[p] = "cooldown" /\ loc'[p] = loc[p]
    BY <2>1, <1>p, MovedOnly
  <2>3. CountActive(loc[p].key[2]) \in Nat
    BY CountIsNat DEF CountActive
  <2>4. loc[p].cfg.maxActive = 0 \/ CountActive(loc[p].key[2]) < loc[p].cfg.maxActive
    BY <1>3, <1>t, <2>3 DEF AtCapacity
  <2>5. StartKnows(p)' /\ StartOwns(p)'
    BY <1>p, <1>u, <2>1, <2>2, <2>4
       DEF StartKnows, StartOwns, AfterActive, AfterCapacity, AfterCooldown, ActiveOf, CountActive,
           Running
  <2>6. QED
    BY <1>3, <1>s, <2>1, <2>5, RequestGoes
<1>4. CASE /\ Goto(p, "cooldown", "ports") /\ UNCHANGED <<loc, mu>>
           /\ ~(loc[p].cfg.cooldown > 0 /\ OnCooldown(loc[p].key, loc[p].cfg.cooldown))
  <2>1. Moves(p, "ports", loc[p]) /\ pc[p] = "cooldown"
    BY <1>4, <1>p, GotoMoves
  <2>2. pc'[p] = "ports" /\ loc'[p] = loc[p]
    BY <2>1, <1>p, MovedOnly
  <2>3. ASSUME NEW r \in RowIds, Used(r), rows[r].key = loc[p].key
        PROVE  rows[r].started + loc[p].cfg.cooldown <= now
    <3>1. CASE loc[p].cfg.cooldown = 0
      BY <1>p, <1>t, <2>3, <3>1 DEF RowsIssued
    <3>2. CASE ~OnCooldown(loc[p].key, loc[p].cfg.cooldown)
      BY <1>t, <2>3, <3>2 DEF OnCooldown, Used
    <3>3. QED
      BY <1>4, <1>t, <3>1, <3>2
  <2>4. StartKnows(p)' /\ StartOwns(p)'
    BY <1>p, <1>u, <2>1, <2>2, <2>3
       DEF StartKnows, StartOwns, AfterActive, AfterCapacity, AfterCooldown, ActiveOf, CountActive,
           Running, Used
  <2>5. QED
    BY <1>4, <1>s, <2>1, <2>4, RequestGoes
<1>5. CASE ListActiveHostPorts(p)
  <2> DEFINE l == [loc[p] EXCEPT !.used = IF RangeConfigured THEN ActivePorts ELSE {}]
  <2>1. Moves(p, "create", l) /\ pc[p] = "ports" /\ mu' = mu
    BY <1>5, <1>p, GotoSetMoves DEF ListActiveHostPorts
  <2>2. pc'[p] = "create" /\ loc'[p] = l
    BY <2>1, <1>p, MovedOnly
  <2>3. /\ l.key = loc[p].key /\ l.cfg = loc[p].cfg /\ l.todo = loc[p].todo
        /\ RangeConfigured => l.used = ActivePorts
    BY <1>p DEF TypeOK, Loc
  <2> HIDE DEF l
  <2>4. StartKnows(p)' /\ StartOwns(p)'
    BY <1>p, <1>u, <2>1, <2>2, <2>3
       DEF StartKnows, StartOwns, AfterActive, AfterCapacity, AfterCooldown, ActiveOf, CountActive,
           Running, Used, ActivePorts
  <2>5. QED
    BY <1>s, <2>1, <2>3, <2>4, RequestGoes
<1>6. QED
  BY <1>1, <1>2, <1>3, <1>4, <1>5 DEF StartActive, StartCapacity, StartCooldown

\* From the container to its row.
LEMMA CreateKeeps ==
    ASSUME IInv, TypeOK', Effect, NEW p \in Reqs, CreateContainer(p) \/ CreateFails(p)
    PROVE  IInv'
<1>p. p \in Procs /\ TypeOK /\ StartKnows(p) /\ Tables
  BY DEF Procs, IInv
<1>1. CASE CreateFails(p)
  BY <1>1, RequestReturns DEF CreateFails
<1>2. CASE CreateContainer(p)
  <2> DEFINE n == nconts + 1
  <2>1. PICK port \in PortChoices(p) :
           Set(p, [loc[p] EXCEPT !.cont = n, !.port = port])
    BY <1>2 DEF CreateContainer
  <2> DEFINE l == [loc[p] EXCEPT !.cont = n, !.port = port]
  <2>2. Moves(p, "start", l) /\ pc[p] = "create"
    BY <1>2, <2>1, <1>p, GotoSetMoves DEF CreateContainer
  <2>3. pc'[p] = "start" /\ loc'[p] = l
    BY <2>2, <1>p, MovedOnly
  <2>4. /\ l.key = loc[p].key /\ l.cfg = loc[p].cfg /\ l.todo = loc[p].todo
        /\ l.used = loc[p].used /\ l.cont = n /\ l.port = port
    BY <1>p DEF TypeOK, Loc
  <2> HIDE DEF l
  <2>5. /\ nconts' = n /\ UNCHANGED <<now, rows, nrows, mu>>
        /\ n \in ContIds /\ conts'[n].key = loc[p].key
    <3>1. /\ nconts' = n /\ UNCHANGED <<now, rows, nrows, mu>> /\ nconts < MaxConts
          /\ conts' = [conts EXCEPT ![n] = [state |-> "created", key |-> loc[p].key, port |-> 0]]
      BY <1>2 DEF CreateContainer, NewContainer
    <3>2. n \in ContIds
      BY <1>p, <3>1, BoundAssumption DEF TypeOK, ContIds
    <3>3. conts \in [ContIds -> Cont]
      BY <1>p DEF TypeOK
    <3> HIDE DEF n
    <3>4. QED
      BY <3>1, <3>2, <3>3
  <2>6. \A r \in RowIds : Used(r) => rows[r].cont # n
    BY <1>p DEF Tables, RowsIssued, TypeOK
  <2>7. n \in 1..n
    BY <1>p DEF TypeOK
  <2>8. RangeConfigured => port > 0 /\ port \notin loc[p].used
    BY <2>1, BoundAssumption DEF PortChoices, FreePorts, RangeConfigured
  <2>9. RangeConfigured => ActivePorts \subseteq loc[p].used
    BY <1>p, <2>2 DEF StartKnows
  <2> HIDE DEF n
  <2>10. StartKnows(p)'
    BY <1>p, <2>2, <2>3, <2>4, <2>5
       DEF StartKnows, AfterActive, AfterCapacity, AfterCooldown, ActiveOf, CountActive,
           Running, Used, ActivePorts
  <2>11. ActivePorts' = ActivePorts
    BY <2>5 DEF ActivePorts, Running
  <2>12. StartOwns(p)'
    BY <2>3, <2>4, <2>5, <2>6, <2>7, <2>8, <2>9, <2>11 DEF StartOwns, Used
  <2>13. "start" \in ReqSteps \ RowSteps
    BY DEF ReqSteps, StartSteps, RowSteps
  <2>14. QED
    BY <2>2, <2>4, <2>5, <2>10, <2>12, <2>13, RequestGoes
<1>3. QED
  BY <1>1, <1>2

LEMMA StartContainerKeeps ==
    ASSUME IInv, TypeOK', Effect, NEW p \in Reqs, StartContainer(p)
    PROVE  IInv'
<1>p. p \in Procs /\ TypeOK /\ StartKnows(p) /\ StartOwns(p) /\ Tables
  BY DEF Procs, IInv
<1>1. Moves(p, "inspect", loc[p]) /\ pc[p] = "start"
  BY <1>p, GotoMoves DEF StartContainer
<1>2. pc'[p] = "inspect" /\ loc'[p] = loc[p]
  BY <1>p, <1>1, MovedOnly
<1>3. loc[p].cont \in ContIds /\ conts[loc[p].cont] \in Cont
  BY <1>p, <1>1 DEF TypeOK, ContSteps
<1>4. PICK port \in {q \in IF loc[p].port > 0 THEN {loc[p].port} ELSE DockerPorts : ~PortBusy(q)} :
         conts' = [conts EXCEPT ![loc[p].cont] = [@ EXCEPT !.state = "running", !.port = port]]
  BY DEF StartContainer, Started
<1>5. /\ conts'[loc[p].cont].key = conts[loc[p].cont].key
      /\ conts'[loc[p].cont].state = "running"
      /\ conts'[loc[p].cont].port = port
      /\ loc[p].port > 0 => port = loc[p].port
  BY <1>p, <1>3, <1>4 DEF TypeOK, Cont
<1>6. UNCHANGED <<now, rows, nconts, mu>>
  BY DEF StartContainer
<1>7. StartKnows(p)'
  BY <1>p, <1>1, <1>2, <1>6
     DEF StartKnows, AfterActive, AfterCapacity, AfterCooldown, ActiveOf, CountActive, Running, Used
<1>8. ActivePorts' = ActivePorts
  BY <1>6 DEF ActivePorts, Running
<1>9. StartOwns(p)'
  BY <1>p, <1>1, <1>2, <1>5, <1>6, <1>8 DEF StartOwns, Used
<1>10. "inspect" \in ReqSteps \ RowSteps
  BY DEF ReqSteps, StartSteps, RowSteps
<1>11. QED
  BY <1>1, <1>6, <1>7, <1>9, <1>10, RequestGoes

LEMMA StartPortTakenKeeps ==
    ASSUME IInv, TypeOK', Effect, NEW p \in Reqs, StartPortTaken(p)
    PROVE  IInv'
<1>p. p \in Procs /\ TypeOK /\ StartKnows(p)
  BY DEF Procs, IInv
<1> DEFINE l == [loc[p] EXCEPT !.used = @ \cup {loc[p].port}, !.cont = 0, !.port = 0]
<1>1. Moves(p, "create", l) /\ pc[p] = "start"
  BY <1>p, GotoSetMoves DEF StartPortTaken
<1>2. pc'[p] = "create" /\ loc'[p] = l
  BY <1>p, <1>1, MovedOnly
<1>3. /\ l.key = loc[p].key /\ l.cfg = loc[p].cfg /\ l.todo = loc[p].todo
      /\ loc[p].used \subseteq l.used
  BY <1>p DEF TypeOK, Loc
<1> HIDE DEF l
<1>4. UNCHANGED <<now, rows, mu>>
  BY DEF StartPortTaken
<1>5. StartKnows(p)' /\ StartOwns(p)'
  BY <1>p, <1>1, <1>2, <1>3, <1>4
     DEF StartKnows, StartOwns, AfterActive, AfterCapacity, AfterCooldown, ActiveOf, CountActive,
         Running, Used, ActivePorts
<1>6. "create" \in ReqSteps \ RowSteps
  BY DEF ReqSteps, StartSteps, RowSteps
<1>7. QED
  BY <1>1, <1>3, <1>4, <1>5, <1>6, RequestGoes

LEMMA InspectKeeps ==
    ASSUME IInv, TypeOK', Effect, NEW p \in Reqs, InspectContainer(p)
    PROVE  IInv'
<1>p. p \in Procs /\ TypeOK /\ StartKnows(p) /\ StartOwns(p)
  BY DEF Procs, IInv
<1> DEFINE l == [loc[p] EXCEPT !.port = conts[loc[p].cont].port]
<1>1. Moves(p, "insert", l) /\ pc[p] = "inspect"
  BY <1>p, GotoSetMoves DEF InspectContainer
<1>2. pc'[p] = "insert" /\ loc'[p] = l
  BY <1>p, <1>1, MovedOnly
<1>3. /\ l.key = loc[p].key /\ l.cfg = loc[p].cfg /\ l.todo = loc[p].todo
      /\ l.cont = loc[p].cont /\ l.port = conts[loc[p].cont].port
  BY <1>p DEF TypeOK, Loc
<1> HIDE DEF l
<1>4. UNCHANGED <<now, rows, conts, nconts, mu>>
  BY DEF InspectContainer
<1>5. StartKnows(p)'
  BY <1>p, <1>1, <1>2, <1>3, <1>4
     DEF StartKnows, AfterActive, AfterCapacity, AfterCooldown, ActiveOf, CountActive, Running, Used
<1>6. ActivePorts' = ActivePorts
  BY <1>4 DEF ActivePorts, Running
<1>7. StartOwns(p)'
  BY <1>p, <1>1, <1>2, <1>3, <1>4, <1>6 DEF StartOwns, Used
<1>8. "insert" \in ReqSteps \ RowSteps
  BY DEF ReqSteps, StartSteps, RowSteps
<1>9. QED
  BY <1>1, <1>3, <1>4, <1>5, <1>7, <1>8, RequestGoes

LEMMA CreateInstanceFailsKeeps ==
    ASSUME IInv, TypeOK', Effect, NEW p \in Reqs, CreateInstanceFails(p)
    PROVE  IInv'
<1>p. p \in Procs /\ TypeOK /\ StartKnows(p)
  BY DEF Procs, IInv
<1>1. Moves(p, "undo", loc[p]) /\ pc[p] = "insert" /\ mu' = mu
  BY <1>p, GotoMoves DEF CreateInstanceFails
<1>2. pc'[p] = "undo" /\ loc'[p] = loc[p]
  BY <1>p, <1>1, MovedOnly
<1>3. StartKnows(p)' /\ StartOwns(p)'
  BY <1>p, <1>1, <1>2 DEF StartKnows, StartOwns, AfterActive, AfterCapacity, AfterCooldown
<1>4. "undo" \in ReqSteps \ RowSteps
  BY DEF ReqSteps, StartSteps, RowSteps
<1>5. QED
  BY <1>1, <1>3, <1>4, RequestGoes

LEMMA StartKeeps ==
    ASSUME IInv, TypeOK', Effect, NEW p \in Reqs,
           \/ CreateContainer(p) \/ CreateFails(p)
           \/ StartContainer(p) \/ StartPortTaken(p) \/ StartFails(p)
           \/ InspectContainer(p) \/ InspectFails(p)
           \/ CreateInstance(p) \/ CreateInstanceFails(p) \/ UndoStart(p)
    PROVE  IInv'
<1>1. CASE StartFails(p) \/ InspectFails(p) \/ CreateInstance(p) \/ UndoStart(p)
  BY <1>1, RequestReturns DEF StartFails, InspectFails, CreateInstance, UndoStart
<1>2. QED
  BY <1>1, CreateKeeps, StartContainerKeeps, StartPortTakenKeeps, InspectKeeps,
     CreateInstanceFailsKeeps

\* A goroutine goes on to a call that uses row r: the row exists and, if it is
\* about to be terminated, its container is gone.
LEMMA RowMoves ==
    ASSUME IInv, TypeOK', Effect, NEW p \in Procs, NEW s, NEW l, Moves(p, s, l),
           l.row \in RowIds, Used(l.row), l.todo \subseteq loc[p].todo,
           s \in TerminateSteps => conts'[rows[l.row].cont].state = "gone"
    PROVE  RowsHeld(p)'
<1>1. pc'[p] = s /\ loc'[p] = l
  BY MovedOnly DEF IInv
<1>2. loc[p].todo \subseteq RowIds
  BY DEF IInv, TypeOK, Loc
<1>3. \A r \in l.todo : Used(r)'
  BY <1>2, EffectRows DEF IInv, RowsHeld
<1> PICK r \in RowIds : r = l.row
  OBVIOUS
<1>4. Used(r)' /\ rows'[r].cont = rows[r].cont
  BY EffectRows
<1>5. QED
  BY <1>1, <1>3, <1>4 DEF RowsHeld

LEMMA StoppedIsGone ==
    ASSUME TypeOK, Tables, NEW r \in RowIds, Used(r), StopOk(rows[r].cont)
    PROVE  conts'[rows[r].cont].state = "gone"
<1>1. /\ rows[r].cont \in ContIds /\ conts[rows[r].cont] \in Cont
      /\ conts[rows[r].cont].state \in {"running", "gone"}
  BY OwnedContainers DEF Tables, RowsIssued
<1>2. QED
  BY <1>1 DEF StopOk, Stopped, TypeOK, Cont

LEMMA RenewDecideKeeps ==
    ASSUME IInv, TypeOK', Effect, NEW p \in Reqs, RenewDecide(p)
    PROVE  IInv'
<1>p. p \in Procs /\ p \notin Admins /\ p # Bg /\ TypeOK /\ StartKnows(p)
  BY ProcAssumption DEF Procs, IInv
<1>1. CASE pc[p] = "renew" /\ Return(p)
  BY <1>1, RequestReturns
<1>2. ASSUME NEW r \in ActiveOf(loc[p].key),
             rows[r].renew < loc[p].cfg.maxRenew, Goto(p, "renew", "renewUpdate"), mu' = mu,
             Set(p, [loc[p] EXCEPT !.row = r,
                       !.expires = Later(rows[r].expires, now) + loc[p].cfg.ttl])
      PROVE  IInv'
  <2> DEFINE e == Later(rows[r].expires, now) + loc[p].cfg.ttl
             l == [loc[p] EXCEPT !.row = r, !.expires = e]
  <2>1. Moves(p, "renewUpdate", l) /\ pc[p] = "renew"
    BY <1>p, <1>2, GotoSetMoves
  <2>2. pc'[p] = "renewUpdate" /\ loc'[p] = l
    BY <1>p, <2>1, MovedOnly
  <2>3. /\ l.key = loc[p].key /\ l.cfg = loc[p].cfg /\ l.todo = loc[p].todo
        /\ l.row = r /\ l.expires = e
    BY <1>p DEF TypeOK, Loc
  <2>4. r \in RowIds /\ Used(r) /\ UNCHANGED <<rows, now>>
    BY DEF ActiveOf, Running, Used, RenewDecide
  <2>5. /\ rows[r].expires \in Nat /\ now \in Nat
        /\ loc[p].cfg.ttl \in Nat /\ loc[p].cfg.ttl <= MaxTTL /\ MaxTTL \in Nat
    BY <1>p, <2>4, ConfigAssumption DEF TypeOK, Row, Loc, Config
  <2>6. rows[r].expires <= e /\ e <= Later(rows[r].expires, now) + MaxTTL
    BY <2>5 DEF Later
  <2> HIDE DEF l, e
  <2>7. StartKnows(p)' /\ StartOwns(p)'
    BY <1>p, <2>1, <2>2, <2>3
       DEF StartKnows, StartOwns, AfterActive, AfterCapacity, AfterCooldown
  <2>8. RenewKnows(p)'
    BY <1>2, <2>2, <2>3, <2>4, <2>6 DEF RenewKnows
  <2>9. RowsHeld(p)'
    BY <1>p, <2>1, <2>3, <2>4, RowMoves DEF TerminateSteps
  <2>10. Own(p, "renewUpdate") /\ Inside(p, pc[p])
    BY <1>p, <2>1 DEF Own, Inside, ReqSteps
  <2>11. QED
    BY <1>p, <1>2, <2>1, <2>7, <2>8, <2>9, <2>10, GoKeeps DEF Knows
<1>3. QED
  BY <1>1, <1>2 DEF RenewDecide

LEMMA DeleteFindKeeps ==
    ASSUME IInv, TypeOK', Effect, NEW p \in Reqs, DeleteFind(p)
    PROVE  IInv'
<1>p. p \in Procs /\ p \notin Admins /\ p # Bg /\ TypeOK /\ StartKnows(p)
  BY ProcAssumption DEF Procs, IInv
<1>1. CASE pc[p] = "delete" /\ Return(p)
  BY <1>1, RequestReturns
<1>2. ASSUME NEW r \in ActiveOf(loc[p].key), Goto(p, "delete", "deleteStop"),
             Set(p, [loc[p] EXCEPT !.row = r]), mu' = mu
      PROVE  IInv'
  <2> DEFINE l == [loc[p] EXCEPT !.row = r]
  <2>1. Moves(p, "deleteStop", l) /\ pc[p] = "delete"
    BY <1>p, <1>2, GotoSetMoves
  <2>2. pc'[p] = "deleteStop" /\ loc'[p] = l
    BY <1>p, <2>1, MovedOnly
  <2>3. l.key = loc[p].key /\ l.todo = loc[p].todo /\ l.row = r
    BY <1>p DEF TypeOK, Loc
  <2>4. r \in RowIds /\ Used(r)
    BY DEF ActiveOf, Running, Used
  <2> HIDE DEF l
  <2>5. Knows(p)'
    BY <1>p, <2>1, <2>2, <2>3
       DEF Knows, StartKnows, StartOwns, RenewKnows, AfterActive, AfterCapacity, AfterCooldown
  <2>6. RowsHeld(p)'
    BY <1>p, <2>1, <2>3, <2>4, RowMoves DEF TerminateSteps
  <2>7. Own(p, "deleteStop") /\ Inside(p, pc[p])
    BY <1>p, <2>1 DEF Own, Inside, ReqSteps
  <2>8. QED
    BY <1>p, <1>2, <2>1, <2>5, <2>6, <2>7, GoKeeps
<1>3. QED
  BY <1>1, <1>2 DEF DeleteFind

LEMMA DeleteStopKeeps ==
    ASSUME IInv, TypeOK', Effect, NEW p \in Reqs, DeleteStop(p)
    PROVE  IInv'
<1>p. p \in Procs /\ p \notin Admins /\ p # Bg /\ TypeOK /\ StartKnows(p) /\ RowsHeld(p) /\ Tables
  BY ProcAssumption DEF Procs, IInv
<1>1. CASE pc[p] = "deleteStop" /\ Return(p)
  BY <1>1, RequestReturns
<1>2. CASE /\ Goto(p, "deleteStop", "deleteTerminate") /\ UNCHANGED <<loc, mu>>
           /\ StopOk(rows[loc[p].row].cont)
  <2>1. Moves(p, "deleteTerminate", loc[p]) /\ pc[p] = "deleteStop"
    BY <1>p, <1>2, GotoMoves
  <2>2. pc'[p] = "deleteTerminate" /\ loc'[p] = loc[p]
    BY <1>p, <2>1, MovedOnly
  <2>3. loc[p].row \in RowIds /\ Used(loc[p].row)
    BY <1>p, <2>1 DEF RowsHeld, TypeOK, RowSteps
  <2>4. conts'[rows[loc[p].row].cont].state = "gone"
    BY <1>p, <1>2, <2>3, StoppedIsGone
  <2>5. Knows(p)'
    BY <1>p, <2>1, <2>2
       DEF Knows, StartKnows, StartOwns, RenewKnows, AfterActive, AfterCapacity, AfterCooldown
  <2>6. RowsHeld(p)'
    BY <1>p, <2>1, <2>3, <2>4, RowMoves
  <2>7. Own(p, "deleteTerminate") /\ Inside(p, pc[p])
    BY <1>p, <2>1 DEF Own, Inside, ReqSteps
  <2>8. QED
    BY <1>p, <1>2, <2>1, <2>5, <2>6, <2>7, GoKeeps
<1>3. QED
  BY <1>1, <1>2 DEF DeleteStop

LEMMA RequestKeeps ==
    ASSUME IInv, TypeOK', Effect, NEW p \in Reqs, Request(p) \/ Continue(p)
    PROVE  IInv'
<1>1. CASE Request(p)
  BY <1>1, EnterKeeps DEF Request, StartInstance, RenewInstance, DeleteInstance
<1>2. CASE RenewUpdate(p) \/ DeleteTerminate(p)
  BY <1>2, RequestReturns DEF RenewUpdate, DeleteTerminate
<1>3. QED
  BY <1>1, <1>2, StartReadsKeep, StartKeeps, RenewDecideKeeps, DeleteFindKeeps, DeleteStopKeeps
     DEF Continue

\* The background goroutine between two calls.
LEMMA BackgroundGoes ==
    ASSUME IInv, TypeOK', Mild, NEW s \in BgSteps, NEW l, Moves(Bg, s, l), mu' = mu,
           pc[Bg] \in BgSteps, l.todo \subseteq loc[Bg].todo,
           s \in RowSteps => l.row \in RowIds /\ Used(l.row),
           s \in TerminateSteps => conts'[rows[l.row].cont].state = "gone"
    PROVE  IInv'
<1>1. Bg \in Procs /\ Bg \notin Reqs /\ Bg \notin Admins /\ Effect
  BY ProcAssumption DEF Procs, Effect
<1>2. RowsHeld(Bg)'
  <2>1. CASE s \in RowSteps
    BY <1>1, <2>1, RowMoves
  <2>2. CASE s \notin RowSteps
    BY <1>1, <2>2, HeldMoves
  <2>3. QED
    BY <2>1, <2>2
<1>3. Own(Bg, s) /\ Inside(Bg, pc[Bg])
  BY <1>1 DEF Own, Inside
<1>4. QED
  BY <1>1, <1>2, <1>3, GoKeeps DEF Knows

\* SweepExpired and Reconcile take the mutex and read the rows to visit.
LEMMA BackgroundLocks ==
    ASSUME IInv, TypeOK', SweepExpired \/ Reconcile
    PROVE  IInv'
<1>1. Bg \in Procs /\ Bg \notin Reqs /\ Bg \notin Admins /\ TypeOK
  BY ProcAssumption DEF Procs, IInv
<1>2. Mild /\ Effect
  BY <1>1, NothingFades DEF SweepExpired, Reconcile, Mild, Effect
<1>3. PICK s \in {"sweep", "managed"}, todo \in SUBSET {r \in RowIds : Running(r)} :
         Goto(Bg, IF s = "sweep" THEN "idle" ELSE "recon", s) /\ Set(Bg, [NoLoc EXCEPT !.todo = todo])
  BY DEF SweepExpired, Reconcile, Expired
<1> DEFINE l == [NoLoc EXCEPT !.todo = todo]
<1>4. Moves(Bg, s, l)
  BY <1>1, <1>3, GotoSetMoves
<1>5. pc'[Bg] = s /\ loc'[Bg] = l
  BY <1>1, <1>4, MovedOnly
<1>6. l.todo = todo
  BY DEF NoLoc
<1> HIDE DEF l
<1>7. \A r \in todo : Used(r)'
  BY <1>1, <1>2, EffectRows DEF Running, Used
<1>8. RowsHeld(Bg)'
  BY <1>5, <1>6, <1>7 DEF RowsHeld, RowSteps, TerminateSteps
<1>9. Own(Bg, s) /\ Lock(Bg)
  BY <1>1 DEF Own, BgSteps, SweepExpired, Reconcile
<1>10. QED
  BY <1>1, <1>2, <1>4, <1>8, <1>9, LockKeeps DEF Knows

LEMMA SweepKeeps ==
    ASSUME IInv, TypeOK', Mild,
           \/ SweepTerminate \/ SweepDone
           \/ \E r \in RowIds : SweepStop(r) \/ SweepStopFails(r)
    PROVE  IInv'
<1>p. /\ Bg \in Procs /\ Bg \notin Reqs /\ Bg \notin Admins
      /\ TypeOK /\ Tables /\ MutexHeld /\ RowsHeld(Bg) /\ loc[Bg] \in Loc
      /\ loc[Bg].todo \subseteq RowIds /\ \A r \in loc[Bg].todo : Used(r)
  BY ProcAssumption DEF Procs, IInv, TypeOK, Loc, RowsHeld
<1>1. ASSUME NEW r \in RowIds, SweepStop(r)
      PROVE  IInv'
  <2> DEFINE l == [loc[Bg] EXCEPT !.row = r]
  <2>1. Moves(Bg, "sweepTerminate", l) /\ pc[Bg] = "sweep" /\ mu' = mu
    BY <1>1, <1>p, GotoSetMoves DEF SweepStop
  <2>2. l.todo = loc[Bg].todo /\ l.row = r
    BY <1>p DEF Loc
  <2> HIDE DEF l
  <2>3. Used(r) /\ StopOk(rows[r].cont)
    BY <1>1, <1>p DEF SweepStop, NextExpired
  <2>4. conts'[rows[r].cont].state = "gone"
    BY <1>p, <2>3, StoppedIsGone
  <2>5. QED
    BY <2>1, <2>2, <2>3, <2>4, BackgroundGoes DEF BgSteps
<1>2. ASSUME NEW r \in RowIds, SweepStopFails(r)
      PROVE  IInv'
  BY <1>2, <1>p, ReturnKeeps DEF SweepStopFails, Effect
<1>3. CASE SweepTerminate
  <2> DEFINE l == [loc[Bg] EXCEPT !.todo = @ \ {loc[Bg].row}, !.row = 0]
  <2>1. Moves(Bg, "sweep", l) /\ pc[Bg] = "sweepTerminate" /\ mu' = mu
    BY <1>3, <1>p, GotoSetMoves DEF SweepTerminate
  <2>2. l.todo \subseteq loc[Bg].todo
    BY <1>p DEF Loc
  <2> HIDE DEF l
  <2>3. QED
    BY <2>1, <2>2, BackgroundGoes DEF BgSteps, RowSteps, TerminateSteps
<1>4. CASE SweepDone
  <2>1. Moves(Bg, "recon", NoLoc) /\ pc[Bg] = "sweep" /\ mu' = NoProc
    BY <1>4, <1>p, GotoSetMoves DEF SweepDone
  <2>2. Own(Bg, "recon") /\ ~Inside(Bg, "recon") /\ Inside(Bg, pc[Bg])
    BY <1>p, <2>1 DEF Own, Inside, BgSteps
  <2>3. mu = Bg
    BY <1>p, <2>2, InsideHolds
  <2>4. MutexHeld'
    BY <1>p, <2>1, <2>2, <2>3, MutexMove
  <2>5. RowsHeld(Bg)' /\ Knows(Bg)'
    BY <1>p, <2>1, ReturnKnows DEF Knows
  <2>6. QED
    BY <1>p, <2>1, <2>4, <2>5, MoveKeeps DEF Effect
<1>5. QED
  BY <1>1, <1>2, <1>3, <1>4

LEMMA ReconcileKeeps ==
    ASSUME IInv, TypeOK', Mild,
           \/ ListManagedContainers \/ CheckTerminate \/ CheckDone \/ ReconcileDone
           \/ \E r \in RowIds : CheckExists(r)
           \/ \E c \in ContIds : StopExtra(c) \/ StopExtraFails(c)
    PROVE  IInv'
<1>p. /\ Bg \in Procs /\ Bg \notin Reqs /\ Bg \notin Admins
      /\ TypeOK /\ Tables /\ loc[Bg] \in Loc
      /\ loc[Bg].todo \subseteq RowIds /\ \A r \in loc[Bg].todo : Used(r)
  BY ProcAssumption DEF Procs, IInv, TypeOK, Loc, RowsHeld
<1>1. CASE ReconcileDone \/ \E c \in ContIds : StopExtraFails(c)
  BY <1>1, <1>p, ReturnKeeps DEF ReconcileDone, StopExtraFails, Effect
<1>2. ASSUME NEW s \in {"check", "extra"}, NEW f \in BgSteps, NEW l, Goto(Bg, f, s),
             Set(Bg, l), mu' = mu, l.todo = loc[Bg].todo
      PROVE  IInv'
  <2>1. Moves(Bg, s, l) /\ pc[Bg] = f
    BY <1>2, <1>p, GotoSetMoves
  <2>2. s \in BgSteps /\ s \notin RowSteps /\ s \notin TerminateSteps
    BY DEF BgSteps, RowSteps, TerminateSteps
  <2>3. QED
    BY <1>2, <2>1, <2>2, BackgroundGoes
<1>3. CASE ListManagedContainers
  <2>1. PICK m : Set(Bg, [loc[Bg] EXCEPT !.extra = m])
    BY <1>3 DEF ListManagedContainers
  <2> DEFINE l == [loc[Bg] EXCEPT !.extra = m]
  <2>2. l.todo = loc[Bg].todo
    BY <1>p DEF Loc
  <2> HIDE DEF l
  <2>3. "managed" \in BgSteps
    BY DEF BgSteps
  <2>4. Goto(Bg, "managed", "check") /\ mu' = mu /\ Set(Bg, l)
    BY <1>3, <2>1 DEF ListManagedContainers, l
  <2>5. QED
    BY <1>2, <2>2, <2>3, <2>4
<1>4. CASE CheckTerminate
  <2> DEFINE l == [loc[Bg] EXCEPT !.row = 0]
  <2>1. l.todo = loc[Bg].todo
    BY <1>p DEF Loc
  <2>2. Goto(Bg, "checkTerminate", "check") /\ mu' = mu /\ Set(Bg, l)
    BY <1>4 DEF CheckTerminate
  <2> HIDE DEF l
  <2>3. "checkTerminate" \in BgSteps
    BY DEF BgSteps
  <2>4. QED
    BY <1>2, <2>1, <2>2, <2>3
<1>5. ASSUME NEW c \in ContIds, StopExtra(c)
      PROVE  IInv'
  <2> DEFINE l == [loc[Bg] EXCEPT !.extra = @ \ {c}]
  <2>1. l.todo = loc[Bg].todo
    BY <1>p DEF Loc
  <2>2. Goto(Bg, "extra", "extra") /\ mu' = mu /\ Set(Bg, l)
    BY <1>5 DEF StopExtra
  <2> HIDE DEF l
  <2>3. "extra" \in BgSteps
    BY DEF BgSteps
  <2>4. QED
    BY <1>2, <2>1, <2>2, <2>3
<1>6. CASE CheckDone
  <2>1. Moves(Bg, "extra", loc[Bg]) /\ pc[Bg] = "check" /\ mu' = mu
    BY <1>6, <1>p, GotoMoves DEF CheckDone
  <2>2. QED
    BY <2>1, BackgroundGoes DEF BgSteps, RowSteps, TerminateSteps
<1>7. ASSUME NEW r \in RowIds, CheckExists(r)
      PROVE  IInv'
  <2>1. Used(r) /\ UNCHANGED <<rows, conts, mu>>
    BY <1>7, <1>p DEF CheckExists, NextActive
  <2>2. Visited(r) \in Loc /\ Visited(r).todo \subseteq loc[Bg].todo
    BY <1>p DEF Visited, Loc
  <2>3. CASE Goto(Bg, "check", "check") /\ Set(Bg, Visited(r))
    <3>1. Moves(Bg, "check", Visited(r)) /\ pc[Bg] = "check"
      BY <2>3, <1>p, GotoSetMoves
    <3>2. QED
      BY <2>1, <2>2, <3>1, BackgroundGoes DEF BgSteps, RowSteps, TerminateSteps
  <2>4. CASE /\ Goto(Bg, "check", "checkTerminate") /\ ~Exists(rows[r].cont)
             /\ Set(Bg, [Visited(r) EXCEPT !.row = r])
    <3> DEFINE l == [Visited(r) EXCEPT !.row = r]
    <3>1. Moves(Bg, "checkTerminate", l) /\ pc[Bg] = "check"
      BY <2>4, <1>p, GotoSetMoves
    <3>2. l.todo = Visited(r).todo /\ l.row = r
      BY <2>2 DEF Loc
    <3> HIDE DEF l
    <3>3. conts'[rows[r].cont].state = "gone"
      BY <1>p, <2>1, <2>4 DEF Tables, RowsIssued, Exists
    <3>4. QED
      BY <2>1, <2>2, <3>1, <3>2, <3>3, BackgroundGoes DEF BgSteps
  <2>5. QED
    BY <1>7, <2>3, <2>4 DEF CheckExists
<1>8. QED
  BY <1>1, <1>3, <1>4, <1>5, <1>6, <1>7

LEMMA AdministrateKeeps ==
    ASSUME IInv, TypeOK', Mild, NEW a \in Admins, Administrate(a)
    PROVE  IInv'
<1>p. /\ a \in Procs /\ a \notin Reqs /\ a # Bg /\ Effect
      /\ TypeOK /\ Tables /\ RowsHeld(a) /\ loc[a] \in Loc
  BY ProcAssumption DEF Procs, IInv, TypeOK, Effect
<1>k. Knows(a)' /\ \A s : ~Inside(a, s)
  BY <1>p DEF Knows, Inside
<1>o. Own(a, "adminStop") /\ Own(a, "adminTerminate")
  BY <1>p DEF Own, AdminSteps
<1>1. ASSUME NEW r \in RowIds, AdminRead(a, r)
      PROVE  IInv'
  <2> DEFINE s == IF Running(r) THEN "adminStop" ELSE "adminTerminate"
             l == [NoLoc EXCEPT !.row = r]
  <2>1. Moves(a, s, l) /\ mu' = mu
    BY <1>1, <1>p, GotoSetMoves DEF AdminRead
  <2>2. l.todo = {} /\ l.row = r
    BY DEF NoLoc
  <2>3. Used(r) /\ UNCHANGED <<rows, conts>>
    BY <1>1 DEF AdminRead, Used
  <2>4. s \in TerminateSteps => conts'[rows[r].cont].state = "gone"
    BY <1>p, <2>3 DEF Tables, StoppedBeforeTerminated, Used, Running, TypeOK, Row, TerminateSteps
  <2>5. Own(a, s)
    BY <1>o
  <2> HIDE DEF l, s
  <2>6. RowsHeld(a)'
    BY <1>p, <2>1, <2>2, <2>3, <2>4, RowMoves
  <2>7. QED
    BY <1>p, <1>k, <2>1, <2>5, <2>6, GoKeeps
<1>2. CASE Return(a)
  BY <1>2, <1>p, ReturnKeeps
<1>3. CASE /\ Goto(a, "adminStop", "adminTerminate") /\ UNCHANGED <<loc, mu>>
           /\ StopOk(rows[loc[a].row].cont)
  <2>1. Moves(a, "adminTerminate", loc[a]) /\ pc[a] = "adminStop"
    BY <1>3, <1>p, GotoMoves
  <2>2. loc[a].row \in RowIds /\ Used(loc[a].row)
    BY <1>p, <2>1 DEF RowsHeld, TypeOK, RowSteps
  <2>3. conts'[rows[loc[a].row].cont].state = "gone"
    BY <1>p, <1>3, <2>2, StoppedIsGone
  <2>4. RowsHeld(a)'
    BY <1>p, <2>1, <2>2, <2>3, RowMoves
  <2>5. QED
    BY <1>3, <1>p, <1>k, <1>o, <2>1, <2>4, GoKeeps
<1>4. QED
  BY <1>1, <1>2, <1>3 DEF Administrate, AdminStop, AdminTerminate

\* Nobody moves: only the clock, a saved configuration or a container changes.
LEMMA NobodyMoves ==
    ASSUME IInv, TypeOK', Mild, UNCHANGED <<mu, pc, loc>>
    PROVE  IInv'
<1>1. Effect
  BY DEF Effect
<1>2. MutexHeld'
  BY DEF IInv, MutexHeld
<1>3. \A q \in Procs : RowsHeld(q)'
  BY <1>1, EffectHeld
<1>4. \A q \in Reqs : StartKnows(q)' /\ StartOwns(q)' /\ RenewKnows(q)'
  BY MildKnows DEF IInv
<1>5. Tables'
  BY <1>1, EffectTables
<1>6. QED
  BY <1>2, <1>3, <1>4, <1>5 DEF IInv

\* A fresh process knows nothing: what was under way is forgotten.
Fresh ==
    /\ pc = [p \in Procs |-> IF p = Bg THEN "recon" ELSE "idle"]
    /\ loc = [p \in Procs |-> NoLoc]

Quiet ==
    /\ MutexHeld
    /\ \A p \in Reqs : StartKnows(p) /\ StartOwns(p) /\ RenewKnows(p)
    /\ \A p \in Procs : RowsHeld(p)

LEMMA FreshProcess == Fresh => Quiet
<1> SUFFICES ASSUME Fresh PROVE Quiet
  OBVIOUS
<1>1. /\ \A p \in Procs : pc[p] \in {"idle", "recon"} /\ loc[p].todo = {}
      /\ \A p \in Reqs \cup Admins : pc[p] = "idle"
      /\ pc[Bg] = "recon"
  BY ProcAssumption DEF Fresh, NoLoc, Procs
<1>2. MutexHeld
  BY <1>1 DEF MutexHeld, BgSteps
<1>3. \A p \in Reqs : StartKnows(p) /\ StartOwns(p) /\ RenewKnows(p)
  BY <1>1, IdleKnows DEF Procs
<1>4. \A p \in Procs : RowsHeld(p)
  BY <1>1 DEF RowsHeld, RowSteps, TerminateSteps
<1>5. QED
  BY <1>2, <1>3, <1>4 DEF Quiet

LEMMA CrashKeeps == IInv /\ TypeOK' /\ Crash => IInv'
<1> SUFFICES ASSUME IInv, TypeOK', Crash PROVE IInv'
  OBVIOUS
<1>1. Effect
  BY EnvironmentEffect DEF Environment, Effect
<1>2. Tables'
  BY <1>1, EffectTables
<1>3. Fresh'
  BY DEF Crash, Fresh
<1>4. Quiet'
  BY <1>3, FreshProcess, PTL
<1>5. QED
  BY <1>2, <1>4 DEF IInv, Quiet

LEMMA EnvironmentKeeps == IInv /\ TypeOK' /\ Environment => IInv'
<1> SUFFICES ASSUME IInv, TypeOK', Environment PROVE IInv'
  OBVIOUS
<1>1. Mild /\ Effect
  BY EnvironmentEffect DEF Effect
<1>2. CASE Crash
  BY <1>2, CrashKeeps
<1>3. ASSUME NEW p \in Procs, CallFails(p) PROVE IInv'
  BY <1>1, <1>3, ReturnKeeps DEF CallFails
<1>4. ASSUME NEW ch \in Chals, NEW g \in Configs, UpdateConfig(ch, g) PROVE IInv'
  BY <1>1, <1>4, NobodyMoves DEF UpdateConfig
<1>5. ASSUME NEW c \in ContIds, ContainerExits(c) PROVE IInv'
  BY <1>1, <1>5, NobodyMoves DEF ContainerExits
<1>6. CASE Tick
  BY <1>1, <1>6, NobodyMoves DEF Tick
<1>7. QED
  BY <1>2, <1>3, <1>4, <1>5, <1>6 DEF Environment

LEMMA NextInv == IInv /\ [Next]_vars => IInv'
<1> SUFFICES ASSUME IInv, [Next]_vars PROVE IInv'
  OBVIOUS
<1>1. TypeOK' /\ Effect
  BY NextType, StepEffect DEF IInv
<1>2. ASSUME NEW p \in Reqs, Request(p) \/ Continue(p) PROVE IInv'
  BY <1>1, <1>2, RequestKeeps
<1>3. ASSUME NEW a \in Admins, Administrate(a) PROVE IInv'
  BY <1>1, <1>3, AdministrateEffect, AdministrateKeeps
<1>4. CASE Background
  <2>1. Mild
    BY <1>4, BackgroundEffect
  <2>2. QED
    BY <1>1, <1>4, <2>1, BackgroundLocks, SweepKeeps, ReconcileKeeps DEF Background
<1>5. CASE Environment
  BY <1>1, <1>5, EnvironmentKeeps
<1>6. CASE UNCHANGED vars
  BY <1>1, <1>6, EnvironmentEffect, NobodyMoves DEF vars
<1>7. QED
  BY <1>2, <1>3, <1>4, <1>5, <1>6 DEF Next

LEMMA InitInv == Init => IInv
<1> SUFFICES ASSUME Init PROVE IInv
  OBVIOUS
<1>1. TypeOK
  BY InitType
<1>2. Quiet
  BY FreshProcess DEF Init, Fresh
<1>3. /\ \A r \in RowIds : rows[r] = NoRow /\ ~Used(r) /\ ~Running(r) /\ ~(r <= nrows)
      /\ \A r \in RowIds : rows[r].status = "none"
  BY DEF Init, NoRow, Used, Running, RowIds
<1>4. Tables
  BY <1>3 DEF Tables, RowsIssued, StoppedBeforeTerminated, DistinctActivePorts, ContainersOwnedOnce
<1>5. QED
  BY <1>1, <1>2, <1>4 DEF IInv, Quiet

-----------------------------------------------------------------------------
(* The theorems.                                                             *)

\* The mutex, the tables, and what every goroutine remembers of them, agree in
\* every state.
THEOREM Invariance == Spec => []IInv
BY InitInv, NextInv, PTL DEF Spec

\* A row is marked terminated only when its container is gone.
THEOREM TerminatedStopped == Spec => []StoppedBeforeTerminated
<1>1. IInv => StoppedBeforeTerminated
  BY DEF IInv, Tables
<1>2. QED
  BY <1>1, Invariance, PTL

\* No two active rows have the same host port.
THEOREM PortsDistinct == Spec => []DistinctActivePorts
<1>1. IInv => DistinctActivePorts
  BY DEF IInv, Tables
<1>2. QED
  BY <1>1, Invariance, PTL

\* A container is recorded by at most one row, of its own user and challenge.
THEOREM ContainersOwned == Spec => []ContainersOwnedOnce
<1>1. IInv => ContainersOwnedOnce
  BY DEF IInv, Tables
<1>2. QED
  BY <1>1, Invariance, PTL

\* The mutex alone keeps the unique index from refusing a row.
THEOREM InsertConflictFree == Spec => []InsertNeverConflicts
<1>1. IInv => InsertNeverConflicts
  BY DEF IInv, StartKnows, AfterActive, InsertNeverConflicts, UniqueViolation
<1>2. QED
  BY <1>1, Invariance, PTL

\* A row appears only as the row of a request that is about to insert it.
LEMMA InsertedBy ==
    ASSUME IInv, TypeOK', Effect, NEW r \in RowIds, Inserted(r)
    PROVE  \E p \in Reqs : pc[p] = "insert" /\ rows'[r] = NewRow(p)
<1>1. ~Used(r) /\ Used(r)' /\ TypeOK /\ Tables
  BY DEF Inserted, Used, IInv
<1>2. ~Mild
  BY <1>1, MildRows
<1>3. PICK p \in Reqs : Inserts(p)
  BY <1>1, <1>2, RenewedRow DEF Effect, Creates, Starts, Used
<1>4. QED
  BY <1>1, <1>3, InsertedRow DEF Inserts, Used

LEMMA CapacityStep ==
    IInv /\ [Next]_vars =>
       [\A r \in RowIds : Inserted(r) =>
         \E p \in Reqs : /\ pc[p] = "insert" /\ loc[p].key = rows'[r].key
                         /\ \/ loc[p].cfg.maxActive = 0
                            \/ CountActive(loc[p].key[2]) < loc[p].cfg.maxActive]_vars
<1> SUFFICES ASSUME IInv, [Next]_vars, NEW r \in RowIds, Inserted(r)
             PROVE  \E p \in Reqs : /\ pc[p] = "insert" /\ loc[p].key = rows'[r].key
                                    /\ \/ loc[p].cfg.maxActive = 0
                                       \/ CountActive(loc[p].key[2]) < loc[p].cfg.maxActive
  OBVIOUS
<1>1. PICK p \in Reqs : pc[p] = "insert" /\ rows'[r] = NewRow(p)
  BY InsertedBy, StepEffect, NextType DEF IInv
<1>2. QED
  BY <1>1 DEF IInv, StartKnows, AfterCapacity, AfterActive, NewRow

LEMMA CooldownStep ==
    IInv /\ [Next]_vars =>
       [\A r \in RowIds : Inserted(r) =>
         \E p \in Reqs : /\ pc[p] = "insert" /\ loc[p].key = rows'[r].key
                         /\ \A q \in RowIds :
                              rows[q].status # "none" /\ rows[q].key = rows'[r].key =>
                                 rows[q].started + loc[p].cfg.cooldown <= rows'[r].started]_vars
<1> SUFFICES ASSUME IInv, [Next]_vars, NEW r \in RowIds, Inserted(r)
             PROVE  \E p \in Reqs :
                       /\ pc[p] = "insert" /\ loc[p].key = rows'[r].key
                       /\ \A q \in RowIds :
                            rows[q].status # "none" /\ rows[q].key = rows'[r].key =>
                               rows[q].started + loc[p].cfg.cooldown <= rows'[r].started
  OBVIOUS
<1>1. PICK p \in Reqs : pc[p] = "insert" /\ rows'[r] = NewRow(p)
  BY InsertedBy, StepEffect, NextType DEF IInv
<1>2. QED
  BY <1>1 DEF IInv, StartKnows, AfterCooldown, AfterCapacity, AfterActive, NewRow, Used

LEMMA RenewalStep ==
    IInv /\ [Next]_vars =>
       [\A r \in RowIds : rows'[r].renew > rows[r].renew =>
         \E p \in Reqs : /\ pc[p] = "renewUpdate" /\ loc[p].row = r
                         /\ rows'[r].renew <= loc[p].cfg.maxRenew]_vars
<1> SUFFICES ASSUME IInv, [Next]_vars, NEW r \in RowIds, rows'[r].renew > rows[r].renew
             PROVE  \E p \in Reqs : /\ pc[p] = "renewUpdate" /\ loc[p].row = r
                                    /\ rows'[r].renew <= loc[p].cfg.maxRenew
  OBVIOUS
<1>1. TypeOK /\ TypeOK' /\ Tables /\ Effect
  BY StepEffect, NextType DEF IInv
<1>2. rows[r].renew \in Nat
  BY <1>1 DEF TypeOK, Row
<1>3. ~Mild
  BY <1>1, <1>2, MildRows
<1>4. ~ \E p \in Reqs : Creates(p) \/ Starts(p)
  BY <1>2 DEF Creates, Starts
<1>5. ~ \E p \in Reqs : Inserts(p)
  <2> SUFFICES ASSUME NEW p \in Reqs, Inserts(p) PROVE FALSE
    OBVIOUS
  <2>1. r = nrows + 1
    BY <1>1, <1>2, InsertedRow
  <2>2. ~Used(r) /\ rows'[r] = NewRow(p)
    BY <1>1, <2>1, InsertedRow
  <2>3. rows[r] = NoRow
    BY <1>1, <2>2 DEF Tables, RowsIssued
  <2>4. QED
    BY <2>2, <2>3 DEF NoRow, NewRow
<1>6. PICK p \in Reqs : Renews(p)
  BY <1>1, <1>3, <1>4, <1>5 DEF Effect
<1>7. r = loc[p].row /\ rows'[r].renew = rows[r].renew + 1
  BY <1>1, <1>2, <1>6, RenewedRow
<1>8. rows[r].renew < loc[p].cfg.maxRenew /\ pc[p] = "renewUpdate"
  BY <1>6, <1>7 DEF Renews, IInv, RenewKnows
<1>9. loc[p].cfg.maxRenew \in Nat
  BY <1>1, ConfigAssumption DEF TypeOK, Loc, Config, Procs
<1>10. QED
  BY <1>2, <1>7, <1>8, <1>9

\* A row is inserted only below the limit of active instances that its request
\* read, whatever happened since.
THEOREM CapacityKept == Spec => CapacityRespected
BY CapacityStep, Invariance, PTL DEF Spec, CapacityRespected

\* Two rows of one user and challenge are at least a cooldown apart.
THEOREM CooldownKept == Spec => CooldownRespected
BY CooldownStep, Invariance, PTL DEF Spec, CooldownRespected

\* No renewal exceeds the limit that its request read.
THEOREM RenewalsLimited == Spec => RenewalsWithinLimit
BY RenewalStep, Invariance, PTL DEF Spec, RenewalsWithinLimit

-----------------------------------------------------------------------------
(* InstanceRuntime implements InstanceLease.                                 *)

\* What the refinement mapping of Lease puts for InstanceLease's variables.
Slots ==
    [r \in RowIds |->
       [state   |-> CASE rows[r].status = "none" -> "none"
                      [] Running(r)              -> "open"
                      [] OTHER                   -> "ended",
        key     |-> rows[r].key,
        box     |-> rows[r].cont,
        until   |-> rows[r].expires,
        renewed |-> rows[r].renew]]
Up == {c \in ContIds : Exists(c)}

SlotOf(row) ==
    [state   |-> IF row.status = "none" THEN "none"
                 ELSE IF row.status = "running" THEN "open" ELSE "ended",
     key     |-> row.key,
     box     |-> row.cont,
     until   |-> row.expires,
     renewed |-> row.renew]

LEMMA SlotsAre == Slots = [r \in RowIds |-> SlotOf(rows[r])]
<1> SUFFICES ASSUME NEW r \in RowIds PROVE Slots[r] = SlotOf(rows[r])
  BY DEF Slots
<1>1. CASE rows[r].status = "none"
  BY <1>1 DEF Slots, SlotOf, Running
<1>2. CASE rows[r].status = "running"
  BY <1>2 DEF Slots, SlotOf, Running
<1>3. CASE rows[r].status \notin {"none", "running"}
  BY <1>3 DEF Slots, SlotOf, Running
<1>4. QED
  BY <1>1, <1>2, <1>3

LEMMA SlotAt ==
    ASSUME TypeOK, NEW r \in RowIds
    PROVE  /\ Slots[r] = SlotOf(rows[r])
           /\ Slots[r].state = "open" <=> Running(r)
           /\ Slots[r].key = rows[r].key /\ Slots[r].box = rows[r].cont
           /\ Slots[r].until = rows[r].expires /\ Slots[r].renewed = rows[r].renew
BY SlotsAre DEF SlotOf, Running, TypeOK, Row

LEMMA NextSlots == (Slots = [r \in RowIds |-> SlotOf(rows[r])])'
BY SlotsAre, PTL

LEMMA BlankSlot == SlotOf(NoRow) = Lease!Blank
BY DEF SlotOf, NoRow, Lease!Blank

\* A row that is not used is no lease.
LEMMA UnusedSlot ==
    ASSUME TypeOK, Tables, NEW r \in RowIds, ~Used(r)
    PROVE  Slots[r] = Lease!Blank
BY SlotAt, BlankSlot DEF Tables, RowsIssued

LEMMA LeaseInitially == Init => Lease!LeaseInit
<1> SUFFICES ASSUME Init PROVE Lease!LeaseInit
  OBVIOUS
<1>1. Slots = [r \in RowIds |-> Lease!Blank]
  BY SlotsAre, BlankSlot DEF Init
<1>2. Up = {} /\ now = 0
  BY DEF Init, Up, Exists, NoCont
<1>3. QED
  BY <1>1, <1>2 DEF Lease!LeaseInit, Slots, Up

\* Containers that no row has may come and go.
LEMMA WorldStep ==
    ASSUME TypeOK, TypeOK', Tables, rows' = rows, now <= now',
           \A r \in RowIds : Used(r) => (Exists(rows[r].cont)' => Exists(rows[r].cont))
    PROVE  Lease!LeaseNext
<1>1. Slots' = Slots
  BY SlotsAre, NextSlots
<1>2. ASSUME NEW r \in RowIds, Slots[r] # Lease!Blank, Slots[r].box \in Up'
      PROVE  Slots[r].box \in Up
  <2>1. Used(r)
    BY <1>2, UnusedSlot
  <2>2. Slots[r].box = rows[r].cont
    BY SlotAt
  <2>3. QED
    BY <1>2, <2>1, <2>2 DEF Up
<1>3. Up' \subseteq ContIds /\ now' >= now
  BY DEF Up, TypeOK
<1>4. Lease!World
  BY <1>1, <1>2, <1>3 DEF Lease!World, Slots, Up
<1>5. QED
  BY <1>4 DEF Lease!LeaseNext

LEMMA FadesLease ==
    ASSUME TypeOK, TypeOK', Tables, Fades
    PROVE  Lease!LeaseNext
<1>1. ASSUME NEW r \in RowIds, Used(r), Exists(rows[r].cont)'
      PROVE  Exists(rows[r].cont)
  BY <1>1, OwnedContainers, FadedContainer DEF Exists, Fades
<1>2. QED
  BY <1>1, WorldStep DEF Fades

\* A second end of a row changes nothing.
LEMMA EndsLease ==
    ASSUME TypeOK, TypeOK', Tables, NEW r \in RowIds, Ends(r)
    PROVE  [Lease!LeaseNext]_(Lease!leaseVars)
<1>1. rows' = [rows EXCEPT ![r].status = "terminated"] /\ UNCHANGED <<now, conts>>
  BY DEF Ends, TerminateRow
<1>2. Up' = Up /\ now' = now
  BY <1>1 DEF Up, Exists
<1>3. CASE Running(r)
  <2>1. SlotOf(rows'[r]) = [SlotOf(rows[r]) EXCEPT !.state = "ended"]
    BY <1>1 DEF TypeOK, Row, SlotOf
  <2>2. Slots' = [Slots EXCEPT ![r].state = "ended"]
    <3>1. \A q \in RowIds : q # r => rows'[q] = rows[q]
      BY <1>1 DEF TypeOK
    <3>2. QED
      BY <2>1, <3>1, SlotsAre, NextSlots
  <2>3. Slots[r].state = "open" /\ Slots[r].box \notin Up
    BY <1>3, SlotAt DEF Ends, Up, Exists
  <2>4. Lease!End(r)
    BY <1>2, <2>2, <2>3 DEF Lease!End, Lease!Open, Slots, Up
  <2>5. QED
    BY <2>4 DEF Lease!LeaseNext
<1>4. CASE ~Running(r)
  <2>1. rows' = rows
    BY <1>1, <1>4 DEF Ends, Used, Running, TypeOK, Row
  <2>2. Slots' = Slots
    BY <2>1, SlotsAre, NextSlots
  <2>3. QED
    BY <1>2, <2>2 DEF Lease!leaseVars, Slots, Up
<1>5. QED
  BY <1>3, <1>4

LEMMA CreatesLease ==
    ASSUME IInv, IInv', NEW p \in Reqs, Creates(p) \/ Starts(p)
    PROVE  Lease!LeaseNext
<1>1. TypeOK /\ TypeOK' /\ Tables /\ StartOwns(p)
  BY DEF IInv
<1>2. ASSUME NEW r \in RowIds, Used(r)
      PROVE  conts'[rows[r].cont] = conts[rows[r].cont]
  <2>1. rows[r].cont \in 1..nconts /\ rows[r].cont \in ContIds /\ nconts \in Nat
    BY <1>1, <1>2, OwnedContainers DEF TypeOK
  <2>2. CASE Creates(p)
    <3>1. rows[r].cont # nconts + 1
      BY <2>1
    <3>2. QED
      BY <1>1, <2>1, <2>2, <3>1 DEF Creates, NewContainer, TypeOK
  <2>3. CASE Starts(p)
    BY <1>1, <1>2, <2>1, <2>3 DEF Starts, StartOwns
  <2>4. QED
    BY <2>2, <2>3
<1>3. rows' = rows /\ now <= now'
  BY <1>1 DEF Creates, Starts, TypeOK
<1>4. QED
  BY <1>1, <1>2, <1>3, WorldStep DEF Exists

LEMMA InsertsLease ==
    ASSUME IInv, IInv', NEW p \in Reqs, Inserts(p)
    PROVE  Lease!LeaseNext
<1>1. TypeOK /\ TypeOK' /\ Tables /\ StartOwns(p) /\ StartKnows(p)
  BY DEF IInv
<1> PICK n : n = nrows + 1
  OBVIOUS
<1>2. /\ n \in RowIds /\ ~Used(n) /\ rows'[n] = NewRow(p)
      /\ \A r \in RowIds : r # n => rows'[r] = rows[r]
      /\ UNCHANGED <<now, conts>>
  BY <1>1, InsertedRow
<1> PICK k, b, t : k = loc[p].key /\ b = loc[p].cont /\ t = now + loc[p].cfg.ttl
  OBVIOUS
<1>3. /\ k \in Keys /\ b \in 1..nconts /\ b \in ContIds /\ ActiveOf(k) = {}
      /\ \A r \in RowIds : Used(r) => rows[r].cont # b
  BY <1>1 DEF Inserts, StartOwns, StartKnows, AfterActive, TypeOK, Procs, ContSteps
<1>4. t \in now..(now + MaxTTL)
  BY <1>1, ConfigAssumption DEF TypeOK, Loc, Config, Procs
<1>5. Slots' = [Slots EXCEPT ![n] =
                  [state |-> "open", key |-> k, box |-> b, until |-> t, renewed |-> 0]]
  <2>1. SlotOf(rows'[n]) = [state |-> "open", key |-> k, box |-> b, until |-> t, renewed |-> 0]
    BY <1>2 DEF NewRow, SlotOf
  <2>2. QED
    BY <1>2, <2>1, SlotsAre, NextSlots
<1>6. Slots[n] = Lease!Blank
  BY <1>1, <1>2, UnusedSlot
<1>7. ASSUME NEW j \in RowIds
      PROVE  (Slots[j].state = "open" => Slots[j].key # k) /\ Slots[j].box # b
  <2>1. CASE Used(j)
    BY <1>1, <1>3, <2>1, SlotAt DEF ActiveOf
  <2>2. CASE ~Used(j)
    <3>1. Slots[j].box = 0 /\ Slots[j].state = "none"
      BY <1>1, <2>2, UnusedSlot DEF Lease!Blank
    <3>2. b # 0
      BY <1>3
    <3>3. QED
      BY <3>1, <3>2
  <2>3. QED
    BY <2>1, <2>2
<1>8. Up' = Up /\ now' = now
  BY <1>2 DEF Up, Exists
<1>9. Lease!Grant(n, k, b, t)
  BY <1>5, <1>6, <1>7, <1>8 DEF Lease!Grant, Lease!Open, Slots, Up
<1>10. \E kk \in Keys, bb \in ContIds, tt \in now..(now + MaxTTL) : Lease!Grant(n, kk, bb, tt)
  BY <1>3, <1>4, <1>9
<1>11. \E i \in RowIds : \E kk \in Keys, bb \in ContIds, tt \in now..(now + MaxTTL) :
          Lease!Grant(i, kk, bb, tt)
  BY <1>2, <1>10
<1>12. QED
  BY <1>11, Zenon DEF Lease!LeaseNext

\* How a renewal changes the lease of a row.
RenewedTo(slot, t) == [[slot EXCEPT !.until = t] EXCEPT !.renewed = @ + 1]

LEMMA RenewedSlots ==
    ASSUME NEW r \in RowIds, NEW t, Slots'[r] = RenewedTo(Slots[r], t),
           \A q \in RowIds : q # r => Slots'[q] = Slots[q]
    PROVE  Slots' = [Slots EXCEPT ![r].until = t, ![r].renewed = @ + 1]
BY SlotsAre, NextSlots DEF RenewedTo

LEMMA RenewedSlot ==
    ASSUME NEW x, NEW y, y.status = x.status, y.key = x.key, y.cont = x.cont,
           y.renew = x.renew + 1
    PROVE  SlotOf(y) = RenewedTo(SlotOf(x), y.expires)
<1> DEFINE Rec(s, k, b, u, n) == [state |-> s, key |-> k, box |-> b, until |-> u, renewed |-> n]
<1>1. /\ \A s, k, b, u, n, v : [Rec(s, k, b, u, n) EXCEPT !.until = v] = Rec(s, k, b, v, n)
      /\ \A s, k, b, u, n, v : [Rec(s, k, b, u, n) EXCEPT !.renewed = v] = Rec(s, k, b, u, v)
      /\ \A s, k, b, u, n : Rec(s, k, b, u, n).renewed = n
  OBVIOUS
<1> PICK s : s = IF x.status = "none" THEN "none"
                 ELSE IF x.status = "running" THEN "open" ELSE "ended"
  OBVIOUS
<1>2. /\ SlotOf(x) = Rec(s, x.key, x.cont, x.expires, x.renew)
      /\ SlotOf(y) = Rec(s, x.key, x.cont, y.expires, x.renew + 1)
  BY DEF SlotOf
<1> PICK longer : longer = [SlotOf(x) EXCEPT !.until = y.expires]
  OBVIOUS
<1> HIDE DEF Rec
<1>3. longer = Rec(s, x.key, x.cont, y.expires, x.renew)
  BY <1>1, <1>2
<1>4. [Rec(s, x.key, x.cont, y.expires, x.renew) EXCEPT !.renewed = @ + 1] =
         Rec(s, x.key, x.cont, y.expires, x.renew + 1)
  BY <1>1
<1>5. SlotOf(y) = [longer EXCEPT !.renewed = @ + 1]
  BY <1>2, <1>3, <1>4
<1>6. QED
  BY <1>5 DEF RenewedTo

LEMMA RenewsLease ==
    ASSUME IInv, IInv', NEW p \in Reqs, Renews(p)
    PROVE  [Lease!LeaseNext]_(Lease!leaseVars)
<1>1. TypeOK /\ TypeOK' /\ RenewKnows(p) /\ pc[p] = "renewUpdate"
  BY DEF IInv, Renews
<1> PICK r, t : r = loc[p].row /\ t = loc[p].expires
  OBVIOUS
<1>2. r \in RowIds /\ UNCHANGED <<now, conts>>
  BY <1>1 DEF TypeOK, RowSteps, Procs, Renews
<1>3. Up' = Up /\ now' = now
  BY <1>2 DEF Up, Exists
<1>4. CASE Running(r)
  <2>1. rows' = [rows EXCEPT ![r].renew = @ + 1, ![r].expires = t]
    BY <1>4 DEF Renews, RenewedRows
  <2>f. /\ rows'[r].status = rows[r].status /\ rows'[r].key = rows[r].key
        /\ rows'[r].cont = rows[r].cont
        /\ rows'[r].renew = rows[r].renew + 1 /\ rows'[r].expires = t
    BY <1>1, <1>2, <1>4, RenewedRow
  <2>2. SlotOf(rows'[r]) = RenewedTo(SlotOf(rows[r]), t)
    <3> PICK x, y : x = rows[r] /\ y = rows'[r]
      OBVIOUS
    <3>1. /\ y.status = x.status /\ y.key = x.key /\ y.cont = x.cont /\ y.renew = x.renew + 1
          /\ y.expires = t
      BY <2>f
    <3>2. SlotOf(y) = RenewedTo(SlotOf(x), y.expires)
      BY <3>1, RenewedSlot
    <3>3. QED
      BY <3>1, <3>2
  <2>3. Slots' = [Slots EXCEPT ![r].until = t, ![r].renewed = @ + 1]
    <3>1. \A q \in RowIds : q # r => rows'[q] = rows[q]
      BY <1>1, <2>1 DEF TypeOK
    <3>2. \A q \in RowIds : q # r => Slots'[q] = Slots[q]
      BY <3>1, SlotsAre, NextSlots
    <3>3. Slots'[r] = RenewedTo(Slots[r], t)
      BY <1>2, <2>2, SlotsAre, NextSlots
    <3>4. QED
      BY <1>2, <3>2, <3>3, RenewedSlots
  <2>4. Slots[r].state = "open" /\ Slots[r].until = rows[r].expires
    BY <1>1, <1>2, <1>4, SlotAt
  <2>5. t \in rows[r].expires..(Later(rows[r].expires, now) + MaxTTL)
    BY <1>1, <1>2, ConfigAssumption DEF RenewKnows, TypeOK, Loc, Row, Procs
  <2>6. t \in Slots[r].until..(Lease!Latest(Slots[r].until, now) + MaxTTL)
    BY <2>4, <2>5 DEF Later, Lease!Latest
  <2>7. Lease!Renew(r, t)
    BY <1>3, <2>3, <2>4 DEF Lease!Renew, Lease!Open, Slots, Up
  <2>8. \E u \in Slots[r].until..(Lease!Latest(Slots[r].until, now) + MaxTTL) : Lease!Renew(r, u)
    BY <2>6, <2>7
  <2>9. \E i \in RowIds :
           \E u \in Slots[i].until..(Lease!Latest(Slots[i].until, now) + MaxTTL) : Lease!Renew(i, u)
    BY <1>2, <2>8
  <2>10. Lease!LeaseNext
    BY <2>9, Zenon DEF Lease!LeaseNext, Slots
  <2>11. QED
    BY <2>10
<1>5. CASE ~Running(r)
  <2>1. rows' = rows
    BY <1>5 DEF Renews, RenewedRows
  <2>2. Slots' = Slots
    BY <2>1, SlotsAre, NextSlots
  <2>3. QED
    BY <1>3, <2>2 DEF Lease!leaseVars, Slots, Up
<1>6. QED
  BY <1>4, <1>5

LEMMA LeaseStep == IInv /\ IInv' /\ [Next]_vars => [Lease!LeaseNext]_(Lease!leaseVars)
<1> SUFFICES ASSUME IInv, IInv', [Next]_vars
             PROVE  [Lease!LeaseNext]_(Lease!leaseVars)
  OBVIOUS
<1>1. TypeOK /\ TypeOK' /\ Tables /\ Effect
  BY StepEffect DEF IInv
<1>2. CASE Fades
  BY <1>1, <1>2, FadesLease
<1>3. ASSUME NEW r \in RowIds, Ends(r) PROVE [Lease!LeaseNext]_(Lease!leaseVars)
  BY <1>1, <1>3, EndsLease
<1>4. ASSUME NEW p \in Reqs, Creates(p) \/ Starts(p) PROVE Lease!LeaseNext
  BY <1>4, CreatesLease
<1>5. ASSUME NEW p \in Reqs, Inserts(p) PROVE Lease!LeaseNext
  BY <1>5, InsertsLease
<1>6. ASSUME NEW p \in Reqs, Renews(p) PROVE [Lease!LeaseNext]_(Lease!leaseVars)
  BY <1>6, RenewsLease
<1>7. QED
  BY <1>1, <1>2, <1>3, <1>4, <1>5, <1>6 DEF Effect, Mild

\* Whatever goroutines, administrators, failures, crashes and containers do,
\* an instance is a lease.
THEOREM LeaseImplemented == Spec => ImplementsLease
BY LeaseInitially, LeaseStep, Invariance, PTL DEF Spec, ImplementsLease, Lease!LeaseSpec

===============================================================================
