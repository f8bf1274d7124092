------------------------ MODULE AttachmentImportProofs ------------------------
(* What a committed import or an answered upload promises is kept, and an    *)
(* import rebuilds the directory: for any number of imports, uploads, files  *)
(* and failures.                                                             *)
EXTENDS AttachmentImport, SequenceTheorems, TLAPS

(* The inductive invariant.                                                  *)

\* Imports and uploads run their own steps, an import only within the
\* transaction that keeps the row of the challenge.
Control ==
    /\ \A p \in Imps : pc[p] \in InTx \cup {"idle", "upsert"}
    /\ \A u \in Ups : pc[u] \in {"idle", "write", "create", "undo"}
    /\ \A p, q \in Imps : pc[p] \in InTx /\ pc[q] \in InTx => p = q

\* An id was drawn and a stamp was taken before anything carries it, and a
\* stamp belongs to one upload.
Stamped ==
    /\ chal < nextId
    /\ \A f \in Paths : f[2] \in Stamps /\ files[f] # NoFile => f[2] \in used
    /\ \A r \in rows : r.path[2] \in Stamps => r.path[2] \in used
    /\ \A u, v \in Ups :
          pc[u] # "idle" /\ pc[v] # "idle" /\ loc[u].path[2] = loc[v].path[2] => u = v

\* The file of row r is complete, and its own unless table has another row of
\* the same path.
Stored(r, table) ==
    /\ files[r.path] \notin {NoFile, Torn}
    /\ (\A s \in table : s.path = r.path => s = r) => files[r.path] = r.body

\* The import has listed the directory.
Syncing(p) ==
    \/ pc[p] \in {"remove", "move", "copy", "insert"}
    \/ pc[p] = "commit" /\ loc[p].new # {}

\* The file that the import is writing.
Writing(p, f) == pc[p] \in {"copy", "insert"} /\ f = Target(p)

\* What the locals of an import are at each step.
ImportSteps(p) ==
    LET l == loc[p] IN
    /\ pc[p] # "idle" => ~l.kept
    /\ pc[p] \in {"clear", "readdir", "remove", "copy"} => l.todo # <<>>
    /\ pc[p] \in {"upsert", "clear"} => l.gone = {}
    /\ pc[p] \in {"upsert", "clear", "readdir", "remove"} => l.new = {}
    /\ pc[p] = "commit" /\ l.new = {} => l.gone = {}
    /\ pc[p] # "remove" => l.entries = {}

\* The import deletes nothing and removes nothing that is promised.
ImportSpares(p) ==
    LET l == loc[p] IN
    /\ pc[p] \in InTx => l.gone \subseteq rows /\ \A r \in l.gone : r.path[1] = l.id
    /\ Syncing(p) =>
          /\ l.old \subseteq used /\ l.entries \cap Stamps \subseteq used
          /\ \A r \in promised : /\ r \notin l.gone
                                 /\ r.path[1] = l.id => r.path[2] \in Stamps \ l.entries

\* What the import will promise is stored.
ImportStores(p) ==
    LET l == loc[p] IN
    /\ \A r \in l.new : /\ r.path \in {l.id} \X Names
                        /\ ~Writing(p, r.path) => Stored(r, l.new)
    /\ pc[p] = "insert" => files[Target(p)] = Head(l.todo).body

\* What was in the directory is in the list to remove, or gone.
ImportRebuilds(p) ==
    LET l == loc[p] IN
    \A name \in Names \cup l.old :
        /\ pc[p] = "remove" /\ files[<<l.id, name>>] # NoFile => name \in l.entries
        /\ Syncing(p) /\ pc[p] # "remove" /\ files[<<l.id, name>>] # NoFile =>
              \/ Writing(p, <<l.id, name>>)
              \/ \E r \in l.new : r.path = <<l.id, name>>

\* The file of an upload is its own, is not promised yet, and is there unless
\* an import has listed it.
UploadOK(u) ==
    LET l == loc[u] IN
    pc[u] # "idle" =>
        /\ l.path \in Ids \X used /\ l.body \in Bodies
        /\ \A r \in promised : r.path # l.path
        /\ l.kept /\ pc[u] = "write" => files[l.path] = Torn
        /\ l.kept /\ pc[u] = "create" => files[l.path] = l.body
        /\ l.kept => \A p \in Imps : pc[p] = "remove" /\ loc[p].id = l.path[1] =>
                                        l.path[2] \notin loc[p].entries

IInv ==
    /\ TypeOK /\ Control /\ Stamped /\ PromisedKept
    /\ \A p \in Imps : ImportSteps(p) /\ ImportSpares(p) /\ ImportStores(p) /\ ImportRebuilds(p)
    /\ \A u \in Ups : UploadOK(u)

-----------------------------------------------------------------------------
(* Types.                                                                    *)

\* The conjuncts of TypeOK about the shared state, and about the goroutines.
SharedOK ==
    /\ chal \in 0..MaxIds /\ nextId \in 1..(MaxIds + 1) /\ faults \in 0..MaxFaults
    /\ rows \subseteq Row /\ promised \subseteq Row
    /\ files \in [Paths -> Bodies \cup {NoFile, Torn}]
    /\ used \subseteq Stamps

LocalOK(step, l, next) ==
    /\ step \in Steps /\ l \in Loc
    /\ step = "idle" <=> l = NoLoc
    /\ step \in InTx => l.id \in Ids /\ l.id < next
    /\ step \in {"move", "insert"} => l.todo # <<>>

LEMMA TypeParts ==
    TypeOK <=> /\ SharedOK
               /\ pc \in [Procs -> Steps] /\ loc \in [Procs -> Loc]
               /\ \A p \in Procs : LocalOK(pc[p], loc[p], nextId)
  BY DEF TypeOK, SharedOK, LocalOK

LEMMA TypePartsNext ==
    TypeOK' <=> /\ SharedOK'
                /\ pc' \in [Procs -> Steps] /\ loc' \in [Procs -> Loc]
                /\ \A p \in Procs : LocalOK(pc'[p], loc'[p], nextId')
  BY DEF TypeOK, SharedOK, LocalOK

LEMMA NoLocTyped ==
    /\ NoLoc \in Loc
    /\ NoLoc.id = 0 /\ NoLoc.todo = <<>> /\ NoLoc.gone = {} /\ NoLoc.entries = {}
    /\ NoLoc.old = {} /\ NoLoc.new = {} /\ NoLoc.path = NoPath /\ NoLoc.body = NoFile
    /\ NoLoc.kept = TRUE
  BY AttachmentAssumption DEF NoLoc, Loc, NoPath

\* One goroutine takes a step.
LEMMA StepTyped ==
    ASSUME TypeOK, SharedOK', nextId \in Nat, nextId' \in Nat, nextId <= nextId',
           NEW p \in Procs, NEW step, NEW l,
           pc' = [pc EXCEPT ![p] = step], loc' = [loc EXCEPT ![p] = l],
           LocalOK(step, l, nextId')
    PROVE  TypeOK'
  <1>1. \A q \in Procs : LocalOK(pc[q], loc[q], nextId)
    BY TypeParts
  <1>2. pc' \in [Procs -> Steps] /\ loc' \in [Procs -> Loc]
    BY DEF TypeOK, LocalOK
  <1>3. ASSUME NEW q \in Procs
        PROVE  LocalOK(pc'[q], loc'[q], nextId')
    <2>1. CASE q = p
      BY <2>1 DEF TypeOK
    <2>2. CASE q # p
      <3>1. pc'[q] = pc[q] /\ loc'[q] = loc[q]
        BY <2>2 DEF TypeOK
      <3>. QED  BY <1>1, <3>1 DEF LocalOK, Ids
    <2>. QED  BY <2>1, <2>2
  <1>. QED  BY <1>2, <1>3, TypePartsNext

\* What an import has still to do.
LEMMA HeadTail ==
    ASSUME NEW s \in Seq(Attachment), s # <<>>
    PROVE  /\ Head(s) \in Attachment /\ Head(s).name \in Names /\ Head(s).body \in Bodies
           /\ Tail(s) \in Seq(Attachment)
           /\ Len(s) # 1 => Tail(s) # <<>>
  <1>1. Head(s) \in Attachment /\ Tail(s) \in Seq(Attachment)
    OBVIOUS
  <1>2. Len(s) \in Nat /\ Len(Tail(s)) = Len(s) - 1 /\ Len(s) # 0
    BY HeadTailProperties, EmptySeq
  <1>3. Len(s) # 1 => Tail(s) # <<>>
    BY <1>2
  <1>. QED  BY <1>1, <1>3 DEF Attachment
LEMMA LocTyped ==
    ASSUME TypeOK, NEW p \in Procs
    PROVE  /\ loc[p] \in Loc /\ pc[p] \in Steps /\ LocalOK(pc[p], loc[p], nextId)
           /\ loc[p].id \in 0..MaxIds /\ loc[p].todo \in Seq(Attachment)
           /\ loc[p].gone \subseteq Row /\ loc[p].entries \subseteq Names \cup Stamps
           /\ loc[p].old \subseteq Stamps /\ loc[p].new \subseteq Row
           /\ loc[p].path \in Paths \cup {NoPath} /\ loc[p].body \in Bodies \cup {NoFile}
           /\ loc[p].kept \in BOOLEAN
  <1>1. loc[p] \in Loc /\ pc[p] \in Steps
    BY DEF TypeOK
  <1>2. LocalOK(pc[p], loc[p], nextId)
    BY TypeParts
  <1>. QED  BY <1>1, <1>2 DEF Loc

LEMMA SharedKept ==
    ASSUME SharedOK, UNCHANGED disk, UNCHANGED db, faults' \in 0..MaxFaults
    PROVE  SharedOK' /\ nextId \in Nat /\ nextId' = nextId /\ nextId' \in Nat /\ nextId <= nextId'
  BY AttachmentAssumption DEF SharedOK, disk, db

\* EXCEPT on the locals.
LEMMA LocUpdate ==
    ASSUME NEW l \in Loc
    PROVE  /\ [l EXCEPT !.kept = l.kept] = l
           /\ \A todo \in Seq(Attachment) :
                 LET m == [l EXCEPT !.todo = todo, !.kept = FALSE] IN
                 /\ m \in Loc /\ m.kept = FALSE /\ m.todo = todo /\ m.id = l.id /\ m.gone = l.gone
                 /\ m.entries = l.entries /\ m.old = l.old /\ m.new = l.new
                 /\ m.path = l.path /\ m.body = l.body
  BY DEF Loc

LEMMA ImportSpecTyped ==
    ASSUME TypeOK, NEW p \in Imps, NEW spec \in Specs, ImportSpec(p, spec)
    PROVE  TypeOK'
  <1>. DEFINE l == [NoLoc EXCEPT !.todo = spec, !.kept = FALSE]
  <1>1. spec \in Seq(Attachment)
    BY AttachmentAssumption
  <1>2. l \in Loc /\ l.kept = FALSE
    BY <1>1, LocUpdate, NoLocTyped
  <1>3. LocalOK("upsert", l, nextId')
    BY <1>2, NoLocTyped DEF LocalOK, Steps, InTx
  <1>4. SharedOK' /\ nextId \in Nat /\ nextId' = nextId /\ nextId' \in Nat /\ nextId <= nextId'
    BY TypeParts, SharedKept DEF ImportSpec, SharedOK
  <1>5. pc' = [pc EXCEPT ![p] = "upsert"] /\ loc' = [loc EXCEPT ![p] = l]
    BY DEF ImportSpec, Goto
  <1>. HIDE DEF l
  <1>. QED  BY <1>3, <1>4, <1>5, StepTyped DEF Procs

LEMMA UpsertChallengeTyped ==
    ASSUME TypeOK, NEW p \in Imps, UpsertChallenge(p), chal < nextId, loc[p].kept = FALSE
    PROVE  TypeOK'
  <1>. DEFINE id == IF chal = 0 THEN nextId ELSE chal
              l  == [loc[p] EXCEPT !.id = id]
  <1>0. p \in Procs
    BY DEF Procs
  <1>1. chal \in 0..MaxIds /\ nextId \in 1..(MaxIds + 1)
    BY DEF TypeOK
  <1>2. id \in Ids /\ nextId' = IF chal = 0 THEN nextId + 1 ELSE nextId
    BY DEF UpsertChallenge
  <1>3. id < nextId' /\ nextId' \in 1..(MaxIds + 1) /\ nextId <= nextId' /\ nextId \in Nat
        /\ nextId' \in Nat
    BY <1>1, <1>2, AttachmentAssumption DEF Ids
  <1>4. SharedOK'
    BY <1>3, TypeParts DEF SharedOK, UpsertChallenge, disk
  <1>5. l \in Loc /\ l.kept = FALSE /\ l.id = id
    BY <1>0, <1>2, LocTyped DEF Loc, Ids
  <1>6. AfterUpsert(p) \in InTx \ {"move", "insert"}
    BY DEF AfterUpsert, InTx
  <1>7. LocalOK(AfterUpsert(p), l, nextId')
    BY <1>2, <1>3, <1>5, <1>6, NoLocTyped DEF LocalOK, Steps, InTx
  <1>8. pc' = [pc EXCEPT ![p] = AfterUpsert(p)] /\ loc' = [loc EXCEPT ![p] = l]
    BY DEF UpsertChallenge, Goto
  <1>. QED  BY <1>0, <1>3, <1>4, <1>7, <1>8, StepTyped

LEMMA ClearAttachmentsTyped ==
    ASSUME TypeOK, NEW p \in Imps, ClearAttachments(p), loc[p].kept = FALSE
    PROVE  TypeOK'
  <1>. DEFINE l == [loc[p] EXCEPT !.gone = {r \in rows : r.path[1] = loc[p].id}]
  <1>0. p \in Procs
    BY DEF Procs
  <1>1. SharedOK' /\ nextId \in Nat /\ nextId' = nextId /\ nextId' \in Nat /\ nextId <= nextId'
    BY TypeParts, SharedKept DEF ClearAttachments, SharedOK
  <1>2. {r \in rows : r.path[1] = loc[p].id} \subseteq Row
    BY DEF TypeOK
  <1>3. l \in Loc /\ l.kept = FALSE /\ l.id = loc[p].id
    BY <1>0, <1>2, LocTyped DEF Loc
  <1>4. l.id \in Ids /\ l.id < nextId
    BY <1>0, <1>3, LocTyped DEF ClearAttachments, Goto, LocalOK, InTx
  <1>5. LocalOK("readdir", l, nextId')
    BY <1>1, <1>3, <1>4, NoLocTyped DEF LocalOK, Steps, InTx
  <1>6. pc' = [pc EXCEPT ![p] = "readdir"] /\ loc' = [loc EXCEPT ![p] = l]
    BY DEF ClearAttachments, Goto
  <1>. HIDE DEF l
  <1>. QED  BY <1>0, <1>1, <1>5, <1>6, StepTyped

LEMMA ReadDirTyped ==
    ASSUME TypeOK, NEW p \in Imps, ReadDir(p), loc[p].kept = FALSE
    PROVE  TypeOK'
  <1>. DEFINE l == [loc[p] EXCEPT !.entries = Present(loc[p].id), !.old = used]
              m(q) == [loc[q] EXCEPT !.kept = @ /\ loc[q].path[1] # loc[p].id]
  <1>0. p \in Procs
    BY DEF Procs
  <1>1. SharedOK' /\ nextId \in Nat /\ nextId' = nextId /\ nextId' \in Nat /\ nextId <= nextId'
    BY TypeParts, AttachmentAssumption DEF ReadDir, Listed, SharedOK, db
  <1>2. Present(loc[p].id) \subseteq Names \cup Stamps /\ used \subseteq Stamps
    BY DEF Present, TypeOK
  <1>3. l \in Loc /\ l.kept = FALSE /\ l.id = loc[p].id
    BY <1>0, <1>2, LocTyped DEF Loc
  <1>4. loc[p].id \in Ids /\ loc[p].id < nextId
    BY <1>0, LocTyped DEF ReadDir, Listed, Goto, LocalOK, InTx
  <1>5. LocalOK("remove", l, nextId')
    BY <1>1, <1>3, <1>4, NoLocTyped DEF LocalOK, Steps, InTx
  <1>6. ASSUME NEW q \in Procs, q # p
        PROVE  LocalOK(pc[q], m(q), nextId')
    <2>1. /\ m(q) \in Loc /\ m(q).id = loc[q].id /\ m(q).todo = loc[q].todo
          /\ m(q).path = loc[q].path
      BY <1>6, LocTyped DEF Loc
    <2>2. loc[q] = NoLoc => m(q) = NoLoc
      <3>. SUFFICES ASSUME loc[q] = NoLoc
                    PROVE  m(q) = NoLoc
        OBVIOUS
      <3>1. loc[q].path[1] # loc[p].id /\ loc[q].kept
        BY <1>4, NoLocTyped DEF NoPath, Ids
      <3>2. m(q) = [loc[q] EXCEPT !.kept = loc[q].kept]
        BY <3>1, <1>6, LocTyped
      <3>. QED  BY <3>2, LocUpdate, LocTyped
    <2>3. loc[q] # NoLoc => m(q) # NoLoc
      <3>. SUFFICES ASSUME m(q) = NoLoc
                    PROVE  loc[q] = NoLoc
        OBVIOUS
      <3>1. /\ m(q).gone = loc[q].gone /\ m(q).entries = loc[q].entries
            /\ m(q).old = loc[q].old /\ m(q).new = loc[q].new /\ m(q).body = loc[q].body
            /\ m(q).kept = (loc[q].kept /\ loc[q].path[1] # loc[p].id)
        BY <1>6, LocTyped DEF Loc
      <3>2. loc[q].kept = TRUE
        BY <3>1, <1>6, LocTyped, NoLocTyped
      <3>. QED  BY <2>1, <3>1, <3>2, <1>6, LocTyped, NoLocTyped DEF Loc, NoLoc
    <2>. QED  BY <1>1, <1>6, <2>1, <2>2, <2>3, LocTyped DEF LocalOK
  <1>7. pc' = [pc EXCEPT ![p] = "remove"]
        /\ loc' = [q \in Procs |-> IF q = p THEN l ELSE m(q)]
    BY DEF ReadDir, Listed, Goto
  <1>. HIDE DEF l, m
  <1>8. \A q \in Procs : LocalOK(pc'[q], loc'[q], nextId')
    BY <1>5, <1>6, <1>7 DEF TypeOK
  <1>9. pc' \in [Procs -> Steps] /\ loc' \in [Procs -> Loc]
    BY <1>7, <1>8 DEF LocalOK, TypeOK
  <1>. QED  BY <1>1, <1>8, <1>9, TypePartsNext

LEMMA MoveTyped ==
    ASSUME TypeOK, SharedOK', UNCHANGED <<nextId, loc>>, NEW p \in Procs, NEW step,
           pc' = [pc EXCEPT ![p] = step], LocalOK(step, loc[p], nextId)
    PROVE  TypeOK'
  <1>1. nextId \in Nat /\ nextId' \in Nat /\ nextId <= nextId'
    BY AttachmentAssumption DEF TypeOK
  <1>2. loc' = [loc EXCEPT ![p] = loc[p]]
    BY DEF TypeOK
  <1>3. LocalOK(step, loc[p], nextId')
    OBVIOUS
  <1>. QED  BY <1>1, <1>2, <1>3, StepTyped

LEMMA ReturnTyped ==
    ASSUME TypeOK, SharedOK', UNCHANGED nextId, NEW p \in Procs, Return(p)
    PROVE  TypeOK'
  <1>1. nextId \in Nat /\ nextId' \in Nat /\ nextId <= nextId'
    BY AttachmentAssumption DEF TypeOK
  <1>2. LocalOK("idle", NoLoc, nextId')
    BY NoLocTyped DEF LocalOK, Steps, InTx
  <1>3. pc' = [pc EXCEPT ![p] = "idle"] /\ loc' = [loc EXCEPT ![p] = NoLoc]
    BY DEF Return
  <1>. QED  BY <1>1, <1>2, <1>3, StepTyped

LEMMA TargetTyped ==
    ASSUME TypeOK, NEW p \in Imps, pc[p] \in InTx, loc[p].todo # <<>>
    PROVE  /\ Target(p) \in Paths /\ Target(p)[1] = loc[p].id /\ Target(p)[2] \in Names
           /\ Target(p) \in {loc[p].id} \X Names
           /\ Head(loc[p].todo).body \in Bodies
  <1>1. p \in Procs
    BY DEF Procs
  <1>2. loc[p].todo \in Seq(Attachment) /\ loc[p].id \in Ids
    BY <1>1, LocTyped DEF LocalOK
  <1>3. Head(loc[p].todo).name \in Names /\ Head(loc[p].todo).body \in Bodies
    BY <1>2, HeadTail
  <1>. QED  BY <1>2, <1>3 DEF Target, Paths

LEMMA RemoveAllTyped ==
    ASSUME TypeOK, NEW p \in Imps, RemoveAll(p), loc[p].kept = FALSE, loc[p].todo # <<>>
    PROVE  TypeOK'
  <1>0. p \in Procs
    BY DEF Procs
  <1>1. loc[p].id \in Ids /\ loc[p].id < nextId
    BY <1>0, LocTyped DEF RemoveAll, LocalOK, InTx
  <1>2. nextId \in Nat /\ UNCHANGED <<nextId, used, promised, faults, chal, rows>>
    BY AttachmentAssumption DEF TypeOK, RemoveAll, db
  <1>3. CASE loc[p].entries = {} /\ Goto(p, "remove", "move") /\ UNCHANGED <<files, loc>>
    <2>1. SharedOK'
      BY <1>2, <1>3, TypeParts DEF SharedOK
    <2>2. LocalOK("move", loc[p], nextId)
      BY <1>0, <1>1, LocTyped, NoLocTyped DEF LocalOK, Steps, InTx
    <2>. QED  BY <1>0, <1>2, <1>3, <2>1, <2>2, MoveTyped DEF Goto
  <1>4. ASSUME NEW name \in loc[p].entries, Write(<<loc[p].id, name>>, NoFile),
               loc' = [loc EXCEPT ![p].entries = @ \ {name}], UNCHANGED pc
        PROVE  TypeOK'
    <2>. DEFINE l == [loc[p] EXCEPT !.entries = @ \ {name}]
    <2>1. SharedOK'
      BY <1>2, <1>4, TypeParts DEF SharedOK, Write
    <2>2. l \in Loc /\ l.kept = FALSE /\ l.id = loc[p].id
      BY <1>0, LocTyped DEF Loc
    <2>3. pc' = [pc EXCEPT ![p] = "remove"] /\ loc' = [loc EXCEPT ![p] = l]
      BY <1>4 DEF RemoveAll, TypeOK
    <2>4. LocalOK("remove", l, nextId')
      BY <1>1, <1>2, <2>2, NoLocTyped DEF LocalOK, Steps, InTx
    <2>5. nextId' \in Nat /\ nextId <= nextId'
      BY <1>2
    <2>. HIDE DEF l
    <2>. QED  BY <1>0, <1>2, <2>1, <2>3, <2>4, <2>5, StepTyped
  <1>. QED  BY <1>3, <1>4 DEF RemoveAll

LEMMA PlaceTyped ==
    ASSUME TypeOK, NEW p \in Imps, Rename(p) \/ CopyFile(p), loc[p].kept = FALSE,
           loc[p].todo # <<>>
    PROVE  TypeOK'
  <1>0. p \in Procs /\ pc[p] \in InTx
    BY DEF Procs, Rename, CopyFile, Goto, InTx
  <1>1. loc[p].id \in Ids /\ loc[p].id < nextId
    BY <1>0, LocTyped DEF LocalOK
  <1>2. UNCHANGED <<nextId, used, promised, faults, chal, rows, loc>>
    BY DEF Rename, CopyFile, db
  <1>3. PICK step \in {"copy", "insert"}, body \in Bodies \cup {Torn} :
            pc' = [pc EXCEPT ![p] = step] /\ files' = [files EXCEPT ![Target(p)] = body]
    BY <1>0, TargetTyped DEF Rename, CopyFile, Goto, Write
  <1>4. SharedOK'
    BY <1>2, <1>3, TypeParts DEF SharedOK
  <1>5. LocalOK(step, loc[p], nextId)
    BY <1>0, <1>1, LocTyped, NoLocTyped DEF LocalOK, Steps, InTx
  <1>. QED  BY <1>0, <1>2, <1>3, <1>4, <1>5, MoveTyped

\* The row that an import inserts.
NewRow(p) == [path |-> Target(p), body |-> Head(loc[p].todo).body]

\* What the import has when it has inserted the row.
Inserted(p) == [loc[p] EXCEPT !.todo = Tail(@), !.new = @ \cup {NewRow(p)}]

LEMMA InsertedFields ==
    ASSUME TypeOK, NEW p \in Imps, pc[p] \in InTx, loc[p].todo # <<>>
    PROVE  LET l == Inserted(p) IN
           /\ l \in Loc /\ l.kept = loc[p].kept /\ l.id = loc[p].id /\ l.gone = loc[p].gone
           /\ l.entries = loc[p].entries /\ l.old = loc[p].old
           /\ l.todo = Tail(loc[p].todo) /\ l.new = loc[p].new \cup {NewRow(p)}
           /\ NewRow(p) \in Row /\ NewRow(p).path = Target(p)
           /\ NewRow(p).body = Head(loc[p].todo).body
  <1>1. p \in Procs
    BY DEF Procs
  <1>2. /\ NewRow(p) \in Row /\ NewRow(p).path = Target(p)
        /\ NewRow(p).body = Head(loc[p].todo).body
    BY TargetTyped DEF NewRow, Row
  <1>3. Tail(loc[p].todo) \in Seq(Attachment) /\ loc[p].new \subseteq Row
    BY <1>1, LocTyped, HeadTail
  <1>. HIDE DEF NewRow
  <1>. QED  BY <1>1, <1>2, <1>3, LocTyped DEF Inserted, Loc

LEMMA InsertAttachmentTyped ==
    ASSUME TypeOK, NEW p \in Imps, InsertAttachment(p), loc[p].kept = FALSE
    PROVE  TypeOK'
  <1>0. p \in Procs /\ pc[p] \in InTx
    BY DEF Procs, InsertAttachment, Goto, InTx
  <1>1. loc[p].id \in Ids /\ loc[p].id < nextId /\ loc[p].todo # <<>>
    BY <1>0, LocTyped DEF LocalOK, InsertAttachment, Goto
  <1>2. SharedOK' /\ nextId \in Nat /\ nextId' = nextId /\ nextId' \in Nat /\ nextId <= nextId'
    BY TypeParts, SharedKept DEF InsertAttachment, SharedOK
  <1>3. PICK step : step = IF Len(loc[p].todo) = 1 THEN "commit" ELSE "move"
    OBVIOUS
  <1>4. pc' = [pc EXCEPT ![p] = step] /\ loc' = [loc EXCEPT ![p] = Inserted(p)]
    BY <1>3 DEF InsertAttachment, Goto, Inserted, NewRow
  <1>5. step = "move" => Tail(loc[p].todo) # <<>>
    BY <1>0, <1>1, <1>3, LocTyped, HeadTail
  <1>6. LocalOK(step, Inserted(p), nextId')
    BY <1>0, <1>1, <1>2, <1>3, <1>5, InsertedFields, NoLocTyped DEF LocalOK, Steps, InTx
  <1>. QED  BY <1>0, <1>2, <1>4, <1>6, StepTyped

LEMMA CommitImportTyped ==
    ASSUME TypeOK, NEW p \in Imps, CommitImport(p)
    PROVE  TypeOK'
  <1>0. p \in Procs /\ pc[p] \in InTx
    BY DEF Procs, CommitImport, InTx
  <1>1. loc[p].id \in Ids /\ loc[p].new \subseteq Row
    BY <1>0, LocTyped DEF LocalOK
  <1>2. SharedOK'
    BY <1>1, TypeParts DEF SharedOK, CommitImport, Ids
  <1>. QED  BY <1>0, <1>2, ReturnTyped DEF CommitImport

LEMMA ImportFailsTyped ==
    ASSUME TypeOK, NEW p \in Imps, ImportFails(p)
    PROVE  TypeOK'
  <1>1. faults' \in 0..MaxFaults
    BY AttachmentAssumption DEF TypeOK, ImportFails, Fault
  <1>2. SharedOK' /\ nextId' = nextId
    BY <1>1, TypeParts, SharedKept DEF ImportFails
  <1>. QED  BY <1>2, ReturnTyped DEF ImportFails, Procs

LEMMA CreateFileTyped ==
    ASSUME TypeOK, NEW u \in Ups, NEW id \in Ids, NEW stamp \in Stamps, NEW body \in Bodies,
           CreateFile(u, id, stamp, body)
    PROVE  TypeOK'
  <1>1. <<id, stamp>> \in Paths /\ <<id, stamp>> # NoPath
    BY DEF Paths, NoPath, Ids
  <1>2. PICK f \in Paths : f = <<id, stamp>> /\ f # NoPath
    BY <1>1
  <1>. DEFINE l == [NoLoc EXCEPT !.path = f, !.body = body]
  <1>3. l \in Loc /\ l.path = f
    BY <1>2, NoLocTyped DEF Loc
  <1>0. l # NoLoc
    BY <1>2, <1>3, NoLocTyped
  <1>4. LocalOK("write", l, nextId')
    BY <1>0, <1>3 DEF LocalOK, Steps, InTx
  <1>5. SharedOK' /\ nextId \in Nat /\ nextId' \in Nat /\ nextId <= nextId'
    BY <1>1, AttachmentAssumption, TypeParts DEF SharedOK, CreateFile, Write, db
  <1>6. pc' = [pc EXCEPT ![u] = "write"] /\ loc' = [loc EXCEPT ![u] = l]
    BY <1>2 DEF CreateFile, Goto
  <1>. HIDE DEF l
  <1>. QED  BY <1>4, <1>5, <1>6, StepTyped DEF Procs

LEMMA WriteFileTyped ==
    ASSUME TypeOK, NEW u \in Ups, WriteFile(u), loc[u].body \in Bodies
    PROVE  TypeOK'
  <1>0. u \in Procs
    BY DEF Procs
  <1>1. SharedOK' /\ UNCHANGED <<nextId, loc>>
    BY TypeParts DEF SharedOK, WriteFile, db
  <1>2. LocalOK("create", loc[u], nextId)
    BY <1>0, LocTyped DEF WriteFile, Goto, LocalOK, Steps, InTx
  <1>. QED  BY <1>0, <1>1, <1>2, MoveTyped DEF WriteFile, Goto

LEMMA RowTyped ==
    ASSUME NEW path \in Paths, NEW body \in Bodies
    PROVE  LET r == [path |-> path, body |-> body] IN r \in Row /\ r.path = path /\ r.body = body
  BY DEF Row

LEMMA CreateAttachmentTyped ==
    ASSUME TypeOK, NEW u \in Ups, CreateAttachment(u), loc[u].path \in Paths,
           loc[u].body \in Bodies
    PROVE  TypeOK'
  <1>. DEFINE r == [path |-> loc[u].path, body |-> loc[u].body]
  <1>1. r \in Row
    BY RowTyped
  <1>2. rows' = rows \cup {r} /\ promised' \subseteq promised \cup {r}
    BY DEF CreateAttachment, InsertRow
  <1>. HIDE DEF r
  <1>3. SharedOK' /\ UNCHANGED nextId
    BY <1>1, <1>2, TypeParts DEF SharedOK, CreateAttachment, InsertRow
  <1>. QED  BY <1>3, ReturnTyped DEF CreateAttachment, Procs

LEMMA AttachmentRefusedTyped ==
    ASSUME TypeOK, NEW u \in Ups, AttachmentRefused(u)
    PROVE  TypeOK'
  <1>0. u \in Procs
    BY DEF Procs
  <1>1. SharedOK' /\ nextId' = nextId
    BY TypeParts, SharedKept DEF AttachmentRefused, SharedOK
  <1>2. LocalOK("undo", loc[u], nextId)
    BY <1>0, LocTyped DEF AttachmentRefused, Goto, LocalOK, Steps, InTx
  <1>. QED  BY <1>0, <1>1, <1>2, MoveTyped DEF AttachmentRefused, Goto

LEMMA RemoveFileTyped ==
    ASSUME TypeOK, NEW u \in Ups, RemoveFile(u)
    PROVE  TypeOK'
  <1>1. SharedOK' /\ UNCHANGED nextId
    BY TypeParts DEF SharedOK, RemoveFile, Write, db
  <1>. QED  BY <1>1, ReturnTyped DEF RemoveFile, Procs

LEMMA UploadFailsTyped ==
    ASSUME TypeOK, NEW u \in Ups, UploadFails(u),
           pc[u] # "idle" => loc[u].path \in Paths /\ loc[u].body \in Bodies
    PROVE  TypeOK'
  <1>0. u \in Procs
    BY DEF Procs
  <1>1. faults' \in 0..MaxFaults /\ UNCHANGED <<chal, nextId>> /\ UNCHANGED disk
    BY AttachmentAssumption DEF TypeOK, UploadFails, Fault
  <1>2. CASE Return(u) /\ UNCHANGED rows
    <2>1. SharedOK'
      BY <1>1, <1>2, TypeParts DEF SharedOK, disk
    <2>. QED  BY <1>0, <1>1, <1>2, <2>1, ReturnTyped
  <1>3. CASE Goto(u, "create", "undo") /\ UNCHANGED loc /\ (UNCHANGED rows \/ InsertRow(u))
    <2>. DEFINE r == [path |-> loc[u].path, body |-> loc[u].body]
    <2>1. r \in Row
      BY <1>3, RowTyped DEF Goto
    <2>2. rows' = rows \/ rows' = rows \cup {r}
      BY <1>3 DEF InsertRow
    <2>. HIDE DEF r
    <2>3. SharedOK'
      BY <1>1, <2>1, <2>2, TypeParts DEF SharedOK, disk
    <2>4. LocalOK("undo", loc[u], nextId)
      BY <1>0, <1>3, LocTyped DEF Goto, LocalOK, Steps, InTx
    <2>. QED  BY <1>0, <1>1, <1>3, <2>3, <2>4, MoveTyped DEF Goto
  <1>. QED  BY <1>2, <1>3 DEF UploadFails

LEMMA CrashTyped ==
    ASSUME TypeOK, Crash
    PROVE  TypeOK'
  <1>1. faults' \in 0..MaxFaults
    BY AttachmentAssumption DEF TypeOK, Crash, Fault
  <1>2. SharedOK'
    BY <1>1, TypeParts, SharedKept DEF Crash
  <1>3. /\ pc' \in [Procs -> Steps] /\ loc' \in [Procs -> Loc]
        /\ \A p \in Procs : pc'[p] = "idle" /\ loc'[p] = NoLoc
    BY NoLocTyped DEF Crash, Steps
  <1>4. \A p \in Procs : LocalOK(pc'[p], loc'[p], nextId')
    BY <1>3, NoLocTyped DEF LocalOK, Steps, InTx
  <1>. QED  BY <1>2, <1>3, <1>4, TypePartsNext

-----------------------------------------------------------------------------
(* What a step leaves alone.                                                 *)

ImportOK(p) == ImportSteps(p) /\ ImportSpares(p) /\ ImportStores(p) /\ ImportRebuilds(p)

LEMMA Parts ==
    IInv <=> /\ TypeOK /\ Control /\ Stamped /\ PromisedKept
             /\ \A p \in Imps : ImportOK(p)
             /\ \A u \in Ups : UploadOK(u)
  BY DEF IInv, ImportOK

LEMMA PartsNext ==
    IInv' <=> /\ TypeOK' /\ Control' /\ Stamped' /\ PromisedKept'
              /\ \A p \in Imps : ImportOK(p)'
              /\ \A u \in Ups : UploadOK(u)'
  BY DEF IInv, ImportOK

\* An import outside the transaction has nothing to lose.
LEMMA QuietImport ==
    ASSUME NEW p \in Imps, pc'[p] \in {"idle", "upsert"}, loc'[p].new = {}
    PROVE  ImportSpares(p)' /\ ImportStores(p)' /\ ImportRebuilds(p)'
  <1>1. ImportSpares(p)'
    BY DEF ImportSpares, Syncing, InTx
  <1>2. ImportStores(p)'
    BY DEF ImportStores
  <1>3. ImportRebuilds(p)'
    BY DEF ImportRebuilds, Syncing
  <1>. QED  BY <1>1, <1>2, <1>3

\* The locals of an import that is outside.
LEMMA OutsideEmpty ==
    ASSUME IInv, NEW p \in Imps, pc[p] \notin InTx
    PROVE  /\ pc[p] \in {"idle", "upsert"} /\ loc[p].new = {} /\ loc[p].gone = {}
           /\ loc[p].entries = {}
  <1>1. p \in Procs /\ pc[p] \in {"idle", "upsert"} /\ ImportSteps(p)
    BY DEF IInv, Control, Procs
  <1>2. pc[p] = "idle" => loc[p] = NoLoc
    BY <1>1, LocTyped DEF IInv, LocalOK
  <1>. QED  BY <1>1, <1>2, NoLocTyped DEF ImportSteps

\* What another goroutine's step must not do to an import.
Undisturbed(p) ==
    /\ rows \subseteq rows'
    /\ \A r \in promised' \ promised :
          /\ r \notin loc[p].gone
          /\ (r.path[1] = loc[p].id => r.path[2] \in Stamps \ loc[p].entries)
    /\ \A f \in {loc[p].id} \X Names : files'[f] = files[f]
    /\ Syncing(p) => \A name \in loc[p].old :
          files'[<<loc[p].id, name>>] # NoFile => files[<<loc[p].id, name>>] # NoFile

LEMMA ImportSame ==
    ASSUME IInv, NEW p \in Imps, pc'[p] = pc[p], loc'[p] = loc[p], used \subseteq used',
           pc[p] \in InTx => Undisturbed(p)
    PROVE  ImportOK(p)'
  <1>0. ImportOK(p) /\ TypeOK
    BY Parts
  <1>1. ImportSteps(p)'
    BY <1>0 DEF ImportOK, ImportSteps
  <1>2. CASE pc[p] \notin InTx
    <2>1. pc'[p] \in {"idle", "upsert"} /\ loc'[p].new = {}
      BY <1>2, OutsideEmpty
    <2>. QED  BY <1>1, <2>1, QuietImport DEF ImportOK
  <1>3. CASE pc[p] \in InTx
    <2>1. (Syncing(p)' <=> Syncing(p)) /\ Target(p)' = Target(p)
          /\ \A f : Writing(p, f)' <=> Writing(p, f)
      BY DEF Syncing, Target, Writing
    <2>2. ImportSpares(p)'
      BY <1>0, <1>3, <2>1 DEF ImportOK, ImportSpares, Undisturbed
    <2>3. pc[p] = "insert" => Target(p) \in {loc[p].id} \X Names
      BY <1>0, <1>3, LocTyped, TargetTyped DEF LocalOK, Procs
    <2>4. ImportStores(p)'
      BY <1>0, <1>3, <2>1, <2>3 DEF ImportOK, ImportStores, Stored, Undisturbed
    <2>5. Syncing(p) => \A name \in Names \cup loc[p].old :
              files'[<<loc[p].id, name>>] # NoFile => files[<<loc[p].id, name>>] # NoFile
      BY <1>3 DEF Undisturbed
    <2>6. ImportRebuilds(p)'
      BY <1>0, <2>1, <2>5 DEF ImportOK, ImportRebuilds, Syncing
    <2>. QED  BY <1>1, <2>2, <2>4, <2>6 DEF ImportOK
  <1>. QED  BY <1>2, <1>3

\* A step of an import within the transaction meets no other import.
LEMMA OtherImports ==
    ASSUME IInv, NEW p \in Imps, pc[p] \in InTx, NEW q \in Imps, q # p,
           pc'[q] = pc[q], loc'[q] = loc[q], used \subseteq used'
    PROVE  ImportOK(q)'
  <1>1. pc[q] \notin InTx
    BY DEF IInv, Control
  <1>. QED  BY <1>1, ImportSame

LEMMA UploadSame ==
    ASSUME IInv, NEW u \in Ups, pc'[u] = pc[u], loc'[u].path = loc[u].path,
           loc'[u].body = loc[u].body, loc'[u].kept => loc[u].kept, used \subseteq used',
           \A r \in promised' \ promised : pc[u] # "idle" => r.path # loc[u].path,
           pc[u] # "idle" /\ loc'[u].kept =>
              /\ files'[loc[u].path] = files[loc[u].path]
              /\ \A p \in Imps : pc'[p] = "remove" /\ loc'[p].id = loc[u].path[1] =>
                                    loc[u].path[2] \notin loc'[p].entries
    PROVE  UploadOK(u)'
  <1>1. UploadOK(u)
    BY DEF IInv
  <1>. QED  BY <1>1 DEF UploadOK

LEMMA StampedSame ==
    ASSUME IInv, chal' < nextId', used \subseteq used',
           \A f \in Paths : f[2] \in Stamps /\ files'[f] # NoFile =>
                               files[f] # NoFile \/ f[2] \in used',
           \A r \in rows' \ rows : r.path[2] \in Stamps => r.path[2] \in used',
           \A u \in Ups : pc'[u] # "idle" =>
                             pc[u] # "idle" /\ loc'[u].path = loc[u].path
    PROVE  Stamped'
  <1>1. Stamped
    BY DEF IInv
  <1>2. /\ \A f \in Paths : f[2] \in Stamps /\ files'[f] # NoFile => f[2] \in used'
        /\ \A r \in rows' : r.path[2] \in Stamps => r.path[2] \in used'
    BY <1>1 DEF Stamped
  <1>3. \A u, v \in Ups : pc'[u] # "idle" /\ pc'[v] # "idle"
                          /\ loc'[u].path[2] = loc'[v].path[2] => u = v
    BY <1>1 DEF Stamped
  <1>. QED  BY <1>2, <1>3 DEF Stamped

LEMMA PromisedSame ==
    ASSUME IInv, promised' = promised, promised \subseteq rows',
           \A r \in promised : files'[r.path] = files[r.path]
    PROVE  PromisedKept'
  BY DEF IInv, PromisedKept

-----------------------------------------------------------------------------
(* Steps of an import that change neither rows nor files.                    *)

LEMMA ControlStep ==
    ASSUME Control, NEW p \in Imps, pc'[p] \in InTx \cup {"idle", "upsert"},
           \A q \in Procs : q # p => pc'[q] = pc[q],
           pc'[p] \in InTx /\ pc[p] \notin InTx => \A q \in Imps : pc[q] \notin InTx
    PROVE  Control'
  <1>1. \A q \in Imps : q # p => pc'[q] = pc[q]
    BY DEF Procs
  <1>2. \A u \in Ups : pc'[u] = pc[u]
    BY AttachmentAssumption DEF Procs
  <1>3. \A q \in Imps : pc'[q] \in InTx \cup {"idle", "upsert"}
    BY <1>1 DEF Control
  <1>4. ASSUME NEW q \in Imps, NEW r \in Imps, pc'[q] \in InTx, pc'[r] \in InTx
        PROVE  q = r
    BY <1>1, <1>4 DEF Control
  <1>. QED  BY <1>2, <1>3, <1>4 DEF Control

LEMMA LocalStep ==
    ASSUME IInv, TypeOK', NEW p \in Imps, NEW step, NEW l,
           step \in (InTx \cup {"idle", "upsert"}) \ {"remove"},
           pc' = [pc EXCEPT ![p] = step], loc' = [loc EXCEPT ![p] = l],
           step \in InTx /\ pc[p] \notin InTx => \A q \in Imps : pc[q] \notin InTx,
           chal' < nextId', UNCHANGED <<rows, files, used, promised>>, ImportOK(p)'
    PROVE  IInv'
  <1>1. /\ p \in Procs /\ pc'[p] = step /\ loc'[p] = l
        /\ \A q \in Procs : q # p => pc'[q] = pc[q] /\ loc'[q] = loc[q]
    BY DEF Procs, IInv, TypeOK
  <1>2. Control'
    BY <1>1, ControlStep DEF IInv
  <1>3. \A u \in Ups : u \in Procs /\ u # p
    BY AttachmentAssumption DEF Procs
  <1>4. Stamped'
    BY <1>1, <1>3, StampedSame
  <1>5. promised \subseteq rows
    BY DEF IInv, PromisedKept
  <1>6. PromisedKept'
    BY <1>5, PromisedSame
  <1>7. ASSUME NEW q \in Imps
        PROVE  ImportOK(q)'
    <2>1. CASE q = p
      BY <2>1
    <2>2. CASE q # p
      <3>1. pc'[q] = pc[q] /\ loc'[q] = loc[q]
        BY <1>1, <2>2 DEF Procs
      <3>2. Undisturbed(q)
        BY DEF Undisturbed
      <3>. QED  BY <3>1, <3>2, ImportSame
    <2>. QED  BY <2>1, <2>2
  <1>8. ASSUME NEW u \in Ups
        PROVE  UploadOK(u)'
    <2>1. pc'[u] = pc[u] /\ loc'[u] = loc[u] /\ UploadOK(u)
      BY <1>1, <1>3 DEF IInv
    <2>2. \A q \in Imps : pc'[q] = "remove" => pc[q] = "remove" /\ loc'[q] = loc[q]
      BY <1>1 DEF Procs
    <2>. QED  BY <2>1, <2>2 DEF UploadOK
  <1>. QED  BY <1>2, <1>4, <1>6, <1>7, <1>8, PartsNext

LEMMA IdleImport ==
    ASSUME NEW p \in Imps, pc'[p] = "idle", loc'[p] = NoLoc
    PROVE  ImportOK(p)'
  <1>1. ImportSteps(p)'
    BY NoLocTyped DEF ImportSteps
  <1>. QED  BY <1>1, NoLocTyped, QuietImport DEF ImportOK

LEMMA ImportSpecKeeps ==
    ASSUME IInv, NEW p \in Imps, NEW spec \in Specs, ImportSpec(p, spec)
    PROVE  IInv'
  <1>. DEFINE l == [NoLoc EXCEPT !.todo = spec, !.kept = FALSE]
  <1>1. TypeOK' /\ TypeOK /\ p \in Procs
    BY Parts, ImportSpecTyped DEF Procs
  <1>2. /\ pc' = [pc EXCEPT ![p] = "upsert"] /\ loc' = [loc EXCEPT ![p] = l]
        /\ UNCHANGED <<rows, files, used, promised, chal, nextId>> /\ pc[p] = "idle"
    BY DEF ImportSpec, Goto, disk, db
  <1>3. l.kept = FALSE /\ l.gone = {} /\ l.new = {} /\ l.entries = {}
    BY NoLocTyped, LocUpdate, AttachmentAssumption
  <1>. HIDE DEF l
  <1>4. pc'[p] = "upsert" /\ loc'[p] = l
    BY <1>1, <1>2 DEF TypeOK
  <1>5. ImportOK(p)'
    BY <1>3, <1>4, QuietImport DEF ImportOK, ImportSteps
  <1>6. chal' < nextId'
    BY <1>2 DEF IInv, Stamped
  <1>. QED  BY <1>1, <1>2, <1>5, <1>6, LocalStep DEF InTx

LEMMA UpsertChallengeKeeps ==
    ASSUME IInv, NEW p \in Imps, UpsertChallenge(p)
    PROVE  IInv'
  <1>. DEFINE id == IF chal = 0 THEN nextId ELSE chal
              l  == [loc[p] EXCEPT !.id = id]
  <1>0. p \in Procs /\ TypeOK /\ ImportSteps(p) /\ chal < nextId /\ pc[p] = "upsert"
    BY DEF Procs, IInv, Stamped, UpsertChallenge, Goto
  <1>1. loc[p].kept = FALSE /\ loc[p].new = {} /\ loc[p].gone = {} /\ loc[p].entries = {}
    BY <1>0, LocTyped DEF ImportSteps
  <1>2. TypeOK'
    BY <1>0, <1>1, UpsertChallengeTyped
  <1>3. /\ pc' = [pc EXCEPT ![p] = AfterUpsert(p)] /\ loc' = [loc EXCEPT ![p] = l]
        /\ UNCHANGED <<chal, rows, files, used, promised>>
        /\ \A q \in Imps : pc[q] \notin InTx
        /\ nextId' = IF chal = 0 THEN nextId + 1 ELSE nextId
    BY DEF UpsertChallenge, Goto, disk
  <1>4. /\ l.kept = FALSE /\ l.new = {} /\ l.gone = {} /\ l.entries = {}
        /\ l.todo = loc[p].todo /\ l.old = loc[p].old
    BY <1>0, <1>1, LocTyped DEF Loc
  <1>. HIDE DEF l
  <1>5. pc'[p] = AfterUpsert(p) /\ loc'[p] = l
    BY <1>0, <1>3 DEF TypeOK
  <1>6. AfterUpsert(p) \in {"clear", "commit"} /\ (AfterUpsert(p) = "clear" => l.todo # <<>>)
    BY <1>4 DEF AfterUpsert
  <1>7. ImportSteps(p)' /\ ~Syncing(p)'
    BY <1>4, <1>5, <1>6 DEF ImportSteps, Syncing
  <1>8. ImportOK(p)'
    BY <1>4, <1>5, <1>6, <1>7 DEF ImportOK, ImportSpares, ImportStores, ImportRebuilds
  <1>9. chal' < nextId'
    BY <1>0, <1>3 DEF TypeOK
  <1>. QED  BY <1>0, <1>2, <1>3, <1>6, <1>8, <1>9, LocalStep DEF InTx

LEMMA ClearAttachmentsKeeps ==
    ASSUME IInv, NEW p \in Imps, ClearAttachments(p)
    PROVE  IInv'
  <1>. DEFINE gone == {r \in rows : r.path[1] = loc[p].id}
              l == [loc[p] EXCEPT !.gone = gone]
  <1>0. p \in Procs /\ TypeOK /\ ImportSteps(p) /\ chal < nextId /\ pc[p] = "clear"
    BY DEF Procs, IInv, Stamped, ClearAttachments, Goto
  <1>1. loc[p].kept = FALSE /\ loc[p].new = {} /\ loc[p].entries = {} /\ loc[p].todo # <<>>
    BY <1>0, LocTyped DEF ImportSteps
  <1>2. TypeOK'
    BY <1>0, <1>1, ClearAttachmentsTyped
  <1>3. /\ pc' = [pc EXCEPT ![p] = "readdir"] /\ loc' = [loc EXCEPT ![p] = l]
        /\ UNCHANGED <<chal, nextId, rows, files, used, promised>>
    BY DEF ClearAttachments, Goto, disk, db
  <1>4. /\ l.kept = FALSE /\ l.new = {} /\ l.gone = gone /\ l.entries = {}
        /\ l.todo = loc[p].todo /\ l.id = loc[p].id
    BY <1>0, <1>1, LocTyped DEF Loc
  <1>5. gone \subseteq rows /\ \A r \in gone : r.path[1] = loc[p].id
    OBVIOUS
  <1>. HIDE DEF gone, l
  <1>6. pc'[p] = "readdir" /\ loc'[p] = l
    BY <1>0, <1>3 DEF TypeOK
  <1>7. ImportSteps(p)' /\ ~Syncing(p)'
    BY <1>1, <1>4, <1>6 DEF ImportSteps, Syncing
  <1>8. ImportOK(p)'
    BY <1>3, <1>4, <1>5, <1>6, <1>7 DEF ImportOK, ImportSpares, ImportStores, ImportRebuilds
  <1>. QED  BY <1>0, <1>2, <1>3, <1>8, LocalStep DEF InTx

LEMMA ImportFailsKeeps ==
    ASSUME IInv, NEW p \in Imps, ImportFails(p)
    PROVE  IInv'
  <1>0. p \in Procs /\ TypeOK /\ chal < nextId
    BY DEF Procs, IInv, Stamped
  <1>1. TypeOK'
    BY <1>0, ImportFailsTyped
  <1>2. /\ pc' = [pc EXCEPT ![p] = "idle"] /\ loc' = [loc EXCEPT ![p] = NoLoc]
        /\ UNCHANGED <<chal, nextId, rows, files, used, promised>>
    BY DEF ImportFails, Return, disk, db
  <1>3. ImportOK(p)'
    BY <1>0, <1>2, IdleImport DEF TypeOK
  <1>. QED  BY <1>0, <1>1, <1>2, <1>3, LocalStep DEF InTx

LEMMA InsertAttachmentKeeps ==
    ASSUME IInv, NEW p \in Imps, InsertAttachment(p)
    PROVE  IInv'
  <1>0. /\ p \in Procs /\ TypeOK /\ ImportOK(p) /\ chal < nextId /\ pc[p] = "insert"
        /\ pc[p] \in InTx /\ loc[p].todo # <<>>
    BY LocTyped DEF Procs, IInv, ImportOK, Stamped, InsertAttachment, Goto, InTx, LocalOK
  <1>1. loc[p].kept = FALSE /\ loc[p].entries = {}
    BY <1>0, LocTyped DEF ImportOK, ImportSteps
  <1>2. TypeOK'
    BY <1>0, <1>1, InsertAttachmentTyped
  <1>3. PICK step \in {"commit", "move"} : step = IF Len(loc[p].todo) = 1 THEN "commit" ELSE "move"
    OBVIOUS
  <1>4. PICK r, l : r = NewRow(p) /\ l = Inserted(p)
    OBVIOUS
  <1>5. /\ pc' = [pc EXCEPT ![p] = step] /\ loc' = [loc EXCEPT ![p] = l]
        /\ UNCHANGED <<chal, nextId, rows, files, used, promised>>
    BY <1>3, <1>4 DEF InsertAttachment, Goto, Inserted, NewRow, disk, db
  <1>6. pc'[p] = step /\ loc'[p] = l
    BY <1>0, <1>5 DEF TypeOK
  <1>7. /\ l.kept = FALSE /\ l.id = loc[p].id /\ l.gone = loc[p].gone /\ l.entries = {}
        /\ l.old = loc[p].old /\ l.new = loc[p].new \cup {r}
        /\ r.path = Target(p) /\ r.body = Head(loc[p].todo).body
        /\ r.path \in {l.id} \X Names /\ r.body \in Bodies
    BY <1>0, <1>1, <1>4, InsertedFields, TargetTyped
  <1>8. files[r.path] = r.body /\ r.body \notin {NoFile, Torn}
    BY <1>0, <1>7, AttachmentAssumption DEF ImportOK, ImportStores
  <1>9. ImportSteps(p)'
    BY <1>3, <1>6, <1>7 DEF ImportSteps
  <1>10. ImportSpares(p)'
    BY <1>0, <1>5, <1>6, <1>7 DEF ImportOK, ImportSpares, Syncing
  <1>11. ASSUME NEW s \in l.new
         PROVE  s.path \in {l.id} \X Names /\ Stored(s, l.new)'
    <2>1. CASE s.path = Target(p)
      BY <1>5, <1>6, <1>7, <1>8, <2>1 DEF Stored
    <2>2. CASE s.path # Target(p)
      <3>1. s \in loc[p].new /\ s.path \in {l.id} \X Names /\ Stored(s, loc[p].new)
        BY <1>0, <1>6, <1>7, <2>2 DEF ImportOK, ImportStores, Writing
      <3>. QED  BY <1>5, <1>6, <1>7, <3>1 DEF Stored
    <2>. QED  BY <2>1, <2>2
  <1>12. ImportStores(p)'
    BY <1>3, <1>6, <1>11 DEF ImportStores
  <1>13. ImportRebuilds(p)'
    <2>1. Syncing(p)
      BY <1>0 DEF Syncing
    <2>. QED  BY <1>0, <1>3, <1>5, <1>6, <1>7, <2>1 DEF ImportOK, ImportRebuilds, Writing
  <1>14. ImportOK(p)'
    BY <1>9, <1>10, <1>12, <1>13 DEF ImportOK
  <1>. QED  BY <1>0, <1>2, <1>3, <1>5, <1>14, LocalStep DEF InTx

-----------------------------------------------------------------------------
(* Steps of an import that change rows or files.                             *)

LEMMA ReadDirKeeps ==
    ASSUME IInv, NEW p \in Imps, ReadDir(p)
    PROVE  IInv'
  <1>. DEFINE l == [loc[p] EXCEPT !.entries = Present(loc[p].id), !.old = used]
              m(q) == [loc[q] EXCEPT !.kept = @ /\ loc[q].path[1] # loc[p].id]
  <1>0. /\ p \in Procs /\ TypeOK /\ ImportOK(p) /\ pc[p] = "readdir" /\ pc[p] \in InTx
        /\ loc[p].id \in Ids /\ Stamped /\ Control /\ PromisedKept
    BY LocTyped DEF Procs, IInv, ImportOK, ReadDir, Listed, Goto, LocalOK, InTx
  <1>1. loc[p].kept = FALSE /\ loc[p].new = {} /\ loc[p].todo # <<>>
    BY <1>0, LocTyped DEF ImportOK, ImportSteps
  <1>2. TypeOK'
    BY <1>0, <1>1, ReadDirTyped
  <1>3. /\ pc' = [pc EXCEPT ![p] = "remove"]
        /\ loc' = [q \in Procs |-> IF q = p THEN l ELSE m(q)]
        /\ UNCHANGED <<chal, nextId, rows, files, used>>
        /\ promised' = {r \in promised : r.path[1] # loc[p].id}
    BY DEF ReadDir, Listed, Goto, db
  <1>4. /\ l.kept = FALSE /\ l.new = {} /\ l.gone = loc[p].gone /\ l.id = loc[p].id
        /\ l.todo = loc[p].todo /\ l.old = used /\ l.entries = Present(loc[p].id)
    BY <1>0, <1>1, LocTyped DEF Loc
  <1>5. ASSUME NEW q \in Procs
        PROVE  /\ m(q).id = loc[q].id /\ m(q).todo = loc[q].todo /\ m(q).gone = loc[q].gone
               /\ m(q).entries = loc[q].entries /\ m(q).new = loc[q].new
               /\ m(q).path = loc[q].path /\ m(q).body = loc[q].body
               /\ m(q).kept <=> loc[q].kept /\ loc[q].path[1] # loc[p].id
    BY <1>0, LocTyped DEF Loc
  <1>. HIDE DEF l, m
  <1>6. pc'[p] = "remove" /\ loc'[p] = l
        /\ \A q \in Procs : q # p => pc'[q] = pc[q] /\ loc'[q] = m(q)
    BY <1>0, <1>3 DEF TypeOK
  <1>7. Control'
    BY <1>0, <1>6, ControlStep DEF InTx
  <1>8. \A u \in Ups : u \in Procs /\ u # p
    BY AttachmentAssumption DEF Procs
  <1>9. Stamped'
    BY <1>0, <1>3, <1>5, <1>6, <1>8, StampedSame DEF Stamped
  <1>10. PromisedKept'
    BY <1>0, <1>3 DEF PromisedKept
  <1>11. ImportOK(p)'
    <2>1. ImportSteps(p)'
      BY <1>1, <1>4, <1>6 DEF ImportSteps
    <2>2. \A name \in Present(loc[p].id) : name \in Stamps => name \in used
      BY <1>0 DEF Present, Stamped, Paths
    <2>3. ImportSpares(p)'
      <3>1. loc[p].gone \subseteq rows /\ \A r \in loc[p].gone : r.path[1] = loc[p].id
        BY <1>0 DEF ImportOK, ImportSpares
      <3>. QED  BY <1>3, <1>4, <1>6, <2>2, <3>1 DEF ImportSpares
    <2>4. ImportStores(p)'
      BY <1>4, <1>6 DEF ImportStores
    <2>5. used \subseteq Stamps
      BY <1>0 DEF TypeOK
    <2>6. ImportRebuilds(p)'
      BY <1>3, <1>4, <1>6, <2>5 DEF ImportRebuilds, Present
    <2>. QED  BY <2>1, <2>3, <2>4, <2>6 DEF ImportOK
  <1>12. ASSUME NEW q \in Imps, q # p
         PROVE  ImportOK(q)'
    <2>1. q \in Procs /\ pc[q] \notin InTx /\ ImportSteps(q)
      BY <1>0, <1>12 DEF Procs, Control, IInv
    <2>2. /\ pc'[q] \in {"idle", "upsert"} /\ pc'[q] = pc[q] /\ loc'[q] = m(q)
          /\ m(q).new = {} /\ m(q).gone = {} /\ m(q).entries = {}
      BY <1>5, <1>6, <1>12, <2>1, OutsideEmpty
    <2>3. ImportSteps(q)'
      BY <1>5, <2>1, <2>2 DEF ImportSteps
    <2>. QED  BY <2>2, <2>3, QuietImport DEF ImportOK
  <1>13. ASSUME NEW u \in Ups
         PROVE  UploadOK(u)'
    <2>1. /\ pc'[u] = pc[u] /\ loc'[u].path = loc[u].path /\ loc'[u].body = loc[u].body
          /\ loc'[u].kept <=> loc[u].kept /\ loc[u].path[1] # loc[p].id
      BY <1>5, <1>6, <1>8
    <2>2. \A q \in Imps : pc'[q] = "remove" => q = p
      BY <1>0, <1>6 DEF Control, Procs, InTx
    <2>. QED  BY <1>3, <1>4, <1>6, <2>1, <2>2, UploadSame
  <1>. QED  BY <1>2, <1>7, <1>9, <1>10, <1>11, <1>12, <1>13, PartsNext

\* The files of a promised row, and of an upload, that an import in the
\* transaction does not write to.
LEMMA RemoveAllKeeps ==
    ASSUME IInv, NEW p \in Imps, RemoveAll(p)
    PROVE  IInv'
  <1>0. /\ p \in Procs /\ TypeOK /\ ImportOK(p) /\ pc[p] = "remove" /\ pc[p] \in InTx
        /\ loc[p].id \in Ids /\ Stamped /\ Control /\ PromisedKept
    BY LocTyped DEF Procs, IInv, ImportOK, RemoveAll, Goto, LocalOK, InTx
  <1>1. loc[p].kept = FALSE /\ loc[p].new = {} /\ loc[p].todo # <<>>
    BY <1>0, LocTyped DEF ImportOK, ImportSteps
  <1>2. TypeOK'
    BY <1>0, <1>1, RemoveAllTyped
  <1>3. UNCHANGED <<chal, nextId, rows, used, promised>>
    BY DEF RemoveAll, db
  <1>4. CASE loc[p].entries = {} /\ Goto(p, "remove", "move") /\ UNCHANGED <<files, loc>>
    <2>1. pc' = [pc EXCEPT ![p] = "move"] /\ loc' = [loc EXCEPT ![p] = loc[p]]
      BY <1>0, <1>4 DEF Goto, TypeOK
    <2>2. pc'[p] = "move" /\ loc'[p] = loc[p]
      BY <1>0, <2>1 DEF TypeOK
    <2>3. ImportSteps(p)'
      BY <1>1, <1>4, <2>2 DEF ImportSteps
    <2>4. ImportSpares(p)'
      BY <1>0, <1>3, <2>2 DEF ImportOK, ImportSpares, Syncing, InTx
    <2>5. ImportStores(p)'
      BY <1>1, <2>2 DEF ImportStores
    <2>6. ImportRebuilds(p)'
      BY <1>0, <1>4, <2>2 DEF ImportOK, ImportRebuilds
    <2>7. ImportOK(p)'
      BY <2>3, <2>4, <2>5, <2>6 DEF ImportOK
    <2>8. chal' < nextId'
      BY <1>0, <1>3 DEF Stamped
    <2>. QED  BY <1>0, <1>2, <1>3, <1>4, <2>1, <2>7, <2>8, LocalStep DEF InTx
  <1>5. ASSUME NEW name \in loc[p].entries, Write(<<loc[p].id, name>>, NoFile),
               loc' = [loc EXCEPT ![p].entries = @ \ {name}], UNCHANGED pc
        PROVE  IInv'
    <2>. DEFINE l == [loc[p] EXCEPT !.entries = @ \ {name}]
    <2>1. /\ l.kept = FALSE /\ l.id = loc[p].id /\ l.todo = loc[p].todo /\ l.gone = loc[p].gone
          /\ l.new = {} /\ l.old = loc[p].old /\ l.entries = loc[p].entries \ {name}
      BY <1>0, <1>1, LocTyped DEF Loc
    <2>2. loc'[p] = l /\ \A q \in Procs : q # p => loc'[q] = loc[q]
      BY <1>0, <1>5 DEF TypeOK
    <2>. HIDE DEF l
    <2>3. <<loc[p].id, name>> \in Paths /\ name \in Names \cup Stamps
      BY <1>0, LocTyped DEF Paths
    <2>4. PICK f \in Paths : f = <<loc[p].id, name>> /\ f[1] = loc[p].id /\ f[2] = name
      BY <2>3
    <2>5. /\ files' = [files EXCEPT ![f] = NoFile] /\ files'[f] = NoFile
          /\ \A g \in Paths : g # f => files'[g] = files[g]
      BY <1>0, <1>5, <2>4 DEF Write, TypeOK
    <2>6. \A u \in Ups : u \in Procs /\ u # p
      BY AttachmentAssumption DEF Procs
    <2>7. Control'
      BY <1>0, <1>5 DEF Control
    <2>8. Stamped'
      BY <1>0, <1>3, <1>5, <2>2, <2>5, <2>6, StampedSame DEF Stamped
    <2>9. PromisedKept'
      <3>1. \A r \in promised : r \in rows /\ r.path \in Paths /\ r.path # f
        BY <1>0, <2>4 DEF PromisedKept, TypeOK, Row, ImportOK, ImportSpares, Syncing
      <3>. QED  BY <1>3, <2>5, <3>1, PromisedSame
    <2>10. ImportOK(p)'
      <3>1. ImportSteps(p)'
        BY <1>0, <1>1, <1>5, <2>1, <2>2 DEF ImportSteps, ImportOK
      <3>2. ImportSpares(p)'
        BY <1>0, <1>3, <1>5, <2>1, <2>2 DEF ImportOK, ImportSpares, Syncing
      <3>3. ImportStores(p)'
        BY <1>0, <1>5, <2>1, <2>2 DEF ImportStores
      <3>4. ImportRebuilds(p)'
        <4>1. ASSUME NEW n \in Names \cup loc[p].old, files'[<<loc[p].id, n>>] # NoFile
              PROVE  n \in l.entries
          <5>1. <<loc[p].id, n>> \in Paths
            BY <1>0, LocTyped DEF Paths
          <5>2. <<loc[p].id, n>> # f
            BY <2>5, <4>1
          <5>3. n \in loc[p].entries
            BY <1>0, <2>5, <4>1, <5>1, <5>2 DEF ImportOK, ImportRebuilds
          <5>. QED  BY <2>1, <2>4, <5>2, <5>3
        <4>. QED  BY <1>0, <1>5, <2>1, <2>2, <4>1 DEF ImportRebuilds
      <3>. QED  BY <3>1, <3>2, <3>3, <3>4 DEF ImportOK
    <2>11. ASSUME NEW q \in Imps, q # p
           PROVE  ImportOK(q)'
      BY <1>0, <1>3, <1>5, <2>2, <2>11, OtherImports DEF Procs
    <2>12. ASSUME NEW u \in Ups
           PROVE  UploadOK(u)'
      <3>1. pc'[u] = pc[u] /\ loc'[u] = loc[u] /\ UploadOK(u)
        BY <1>5, <2>2, <2>6 DEF IInv
      <3>2. ASSUME pc[u] # "idle", loc[u].kept
            PROVE  files'[loc[u].path] = files[loc[u].path]
        <4>1. loc[u].path \in Paths /\ loc[u].path # f
          BY <1>0, <2>4, <3>1, <3>2 DEF UploadOK, Paths, TypeOK
        <4>. QED  BY <2>5, <4>1
      <3>3. ASSUME pc[u] # "idle", loc[u].kept, NEW q \in Imps, pc[q] = "remove",
                   loc'[q].id = loc[u].path[1]
            PROVE  loc[u].path[2] \notin loc'[q].entries
        BY <2>1, <2>2, <3>1, <3>3 DEF UploadOK, Procs
      <3>. QED  BY <1>3, <1>5, <3>1, <3>2, <3>3, UploadSame
    <2>. QED  BY <1>2, <2>7, <2>8, <2>9, <2>10, <2>11, <2>12, PartsNext
  <1>. QED  BY <1>4, <1>5 DEF RemoveAll

\* The import writes to the file that it puts in place.
LEMMA PlaceKeeps ==
    ASSUME IInv, NEW p \in Imps, Rename(p) \/ CopyFile(p)
    PROVE  IInv'
  <1>0. /\ p \in Procs /\ TypeOK /\ ImportOK(p) /\ pc[p] \in {"move", "copy"}
        /\ pc[p] \in InTx /\ Stamped /\ Control /\ PromisedKept
    BY DEF Procs, IInv, ImportOK, Rename, CopyFile, Goto, InTx
  <1>1. loc[p].kept = FALSE /\ loc[p].todo # <<>> /\ loc[p].id \in Ids /\ Syncing(p)
    BY <1>0, LocTyped DEF ImportOK, ImportSteps, LocalOK, Syncing
  <1>2. TypeOK'
    BY <1>0, <1>1, PlaceTyped
  <1>3. UNCHANGED <<chal, nextId, rows, used, promised, loc>>
    BY DEF Rename, CopyFile, db
  <1>4. PICK f \in Paths : f = Target(p) /\ f[1] = loc[p].id /\ f[2] \in Names /\ f[2] \notin Stamps
    BY <1>0, <1>1, TargetTyped, AttachmentAssumption
  <1>5. PICK step, body :
            /\ step \in {"copy", "insert"}
            /\ pc' = [pc EXCEPT ![p] = step] /\ files' = [files EXCEPT ![f] = body]
            /\ step = "insert" => body = Head(loc[p].todo).body
    BY <1>4 DEF Rename, CopyFile, Goto, Write
  <1>6. /\ step \in {"copy", "insert"} /\ pc'[p] = step /\ files'[f] = body
        /\ \A q \in Procs : q # p => pc'[q] = pc[q]
        /\ \A g \in Paths : g # f => files'[g] = files[g]
    BY <1>0, <1>5 DEF TypeOK
  <1>7. \A u \in Ups : u \in Procs /\ u # p
    BY AttachmentAssumption DEF Procs
  <1>8. Control'
    BY <1>0, <1>6, ControlStep DEF InTx
  <1>9. Stamped'
    BY <1>0, <1>3, <1>4, <1>6, <1>7, StampedSame DEF Stamped
  <1>10. PromisedKept'
    <2>1. \A r \in promised : r \in rows /\ r.path \in Paths /\ r.path # f
      BY <1>0, <1>1, <1>4 DEF PromisedKept, TypeOK, Row, ImportOK, ImportSpares
    <2>. QED  BY <1>3, <1>6, <2>1, PromisedSame
  <1>11. ImportOK(p)'
    <2>1. ImportSteps(p)'
      BY <1>0, <1>1, <1>3, <1>6 DEF ImportSteps, ImportOK
    <2>2. ImportSpares(p)'
      BY <1>0, <1>1, <1>3, <1>6 DEF ImportOK, ImportSpares
    <2>3. Target(p)' = f
      BY <1>3, <1>4 DEF Target
    <2>4. ImportStores(p)'
      <3>1. ASSUME NEW r \in loc[p].new, r.path # f
            PROVE  Stored(r, loc[p].new)'
        <4>1. Stored(r, loc[p].new) /\ r.path \in Paths
          BY <1>0, <1>4, <3>1, LocTyped DEF ImportOK, ImportStores, Writing, Row
        <4>. QED  BY <1>3, <1>6, <3>1, <4>1 DEF Stored
      <3>. QED  BY <1>0, <1>3, <1>5, <1>6, <2>3, <3>1 DEF ImportOK, ImportStores, Writing
    <2>5. ImportRebuilds(p)'
      <3>1. ASSUME NEW n \in Names \cup loc[p].old, files'[<<loc[p].id, n>>] # NoFile,
                   <<loc[p].id, n>> # f
            PROVE  \E r \in loc[p].new : r.path = <<loc[p].id, n>>
        <4>1. <<loc[p].id, n>> \in Paths
          BY <1>0, <1>1, LocTyped DEF Paths
        <4>2. files[<<loc[p].id, n>>] # NoFile
          BY <1>6, <3>1, <4>1
        <4>3. ~Writing(p, <<loc[p].id, n>>)
          BY <1>4, <3>1 DEF Writing
        <4>. QED  BY <1>0, <1>1, <4>2, <4>3 DEF ImportOK, ImportRebuilds
      <3>. QED  BY <1>3, <1>6, <2>3, <3>1 DEF ImportRebuilds, Writing
    <2>. QED  BY <2>1, <2>2, <2>4, <2>5 DEF ImportOK
  <1>12. ASSUME NEW q \in Imps, q # p
         PROVE  ImportOK(q)'
    BY <1>0, <1>3, <1>6, <1>12, OtherImports DEF Procs
  <1>13. ASSUME NEW u \in Ups
         PROVE  UploadOK(u)'
    <2>1. pc'[u] = pc[u] /\ loc'[u] = loc[u] /\ UploadOK(u)
      BY <1>3, <1>6, <1>7 DEF IInv
    <2>2. ASSUME pc[u] # "idle"
          PROVE  files'[loc[u].path] = files[loc[u].path]
      <3>1. loc[u].path \in Paths /\ loc[u].path # f
        BY <1>0, <1>4, <2>1, <2>2 DEF UploadOK, Paths, TypeOK
      <3>. QED  BY <1>6, <3>1
    <2>3. \A q \in Imps : pc'[q] = "remove" => pc[q] = "remove"
      BY <1>6 DEF Procs
    <2>. QED  BY <1>3, <2>1, <2>2, <2>3 DEF UploadOK
  <1>. QED  BY <1>2, <1>8, <1>9, <1>10, <1>11, <1>12, <1>13, PartsNext

LEMMA CommitImportKeeps ==
    ASSUME IInv, NEW p \in Imps, CommitImport(p)
    PROVE  IInv'
  <1>0. /\ p \in Procs /\ TypeOK /\ ImportOK(p) /\ pc[p] = "commit"
        /\ pc[p] \in InTx /\ Stamped /\ Control /\ PromisedKept
    BY DEF Procs, IInv, ImportOK, CommitImport, InTx
  <1>1. loc[p].id \in Ids /\ loc[p].id < nextId
    BY <1>0, LocTyped DEF LocalOK
  <1>2. TypeOK'
    BY <1>0, CommitImportTyped
  <1>3. /\ UNCHANGED <<nextId, files, used>> /\ chal' = loc[p].id
        /\ rows' = (rows \ loc[p].gone) \cup loc[p].new
        /\ promised' = promised \cup loc[p].new
        /\ pc' = [pc EXCEPT ![p] = "idle"] /\ loc' = [loc EXCEPT ![p] = NoLoc]
    BY DEF CommitImport, Return
  <1>4. /\ pc'[p] = "idle" /\ loc'[p] = NoLoc
        /\ \A q \in Procs : q # p => pc'[q] = pc[q] /\ loc'[q] = loc[q]
    BY <1>0, <1>3 DEF TypeOK
  <1>5. \A r \in loc[p].new : r.path[2] \in Names /\ r.path[2] \notin Stamps
                              /\ Stored(r, loc[p].new)
    BY <1>0, AttachmentAssumption DEF ImportOK, ImportStores, Writing
  <1>6. \A r \in promised : r \notin loc[p].gone
    BY <1>0 DEF ImportOK, ImportSpares, ImportSteps, Syncing
  <1>7. \A u \in Ups : u \in Procs /\ u # p
    BY AttachmentAssumption DEF Procs
  <1>8. Control'
    BY <1>0, <1>4, ControlStep DEF InTx
  <1>9. Stamped'
    BY <1>0, <1>1, <1>3, <1>4, <1>5, <1>7, StampedSame DEF Stamped
  <1>10. PromisedKept'
    BY <1>0, <1>3, <1>5, <1>6 DEF PromisedKept, Stored
  <1>11. ImportOK(p)'
    BY <1>4, IdleImport
  <1>12. ASSUME NEW q \in Imps, q # p
         PROVE  ImportOK(q)'
    BY <1>0, <1>3, <1>4, <1>12, OtherImports DEF Procs
  <1>13. ASSUME NEW u \in Ups
         PROVE  UploadOK(u)'
    <2>1. pc'[u] = pc[u] /\ loc'[u] = loc[u] /\ UploadOK(u) /\ used \subseteq Stamps
      BY <1>0, <1>4, <1>7 DEF IInv, TypeOK
    <2>2. \A q \in Imps : pc'[q] = "remove" => pc[q] = "remove" /\ loc'[q] = loc[q]
      BY <1>4 DEF Procs
    <2>3. pc[u] # "idle" => \A r \in loc[p].new : r.path # loc[u].path
      BY <1>5, <2>1 DEF UploadOK
    <2>. QED  BY <1>3, <2>1, <2>2, <2>3 DEF UploadOK
  <1>. QED  BY <1>2, <1>8, <1>9, <1>10, <1>11, <1>12, <1>13, PartsNext

-----------------------------------------------------------------------------
(* Steps of an upload.                                                       *)

LEMMA UploadControl ==
    ASSUME Control, NEW u \in Ups, pc'[u] \in {"idle", "write", "create", "undo"},
           \A q \in Procs : q # u => pc'[q] = pc[q]
    PROVE  Control'
  <1>1. \A q \in Imps : pc'[q] = pc[q]
    BY AttachmentAssumption DEF Procs
  <1>2. \A v \in Ups : v # u => pc'[v] = pc[v]
    BY DEF Procs
  <1>. QED  BY <1>1, <1>2 DEF Control

\* An upload that goes on with the same path, or returns.
LEMMA UploadStep ==
    ASSUME IInv, TypeOK', NEW u \in Ups, NEW step \in {"idle", "create", "undo"},
           pc[u] # "idle", pc' = [pc EXCEPT ![u] = step],
           \/ loc' = loc
           \/ step = "idle" /\ loc' = [loc EXCEPT ![u] = NoLoc],
           \A g \in Paths : g # loc[u].path => files'[g] = files[g],
           files[loc[u].path] = NoFile => files'[loc[u].path] = NoFile,
           rows \subseteq rows',
           \A r \in rows' : r \in rows \/ r.path = loc[u].path,
           \A r \in promised' : r \in promised \/ (r \in rows' /\ r \notin rows /\ loc[u].kept),
           UNCHANGED <<chal, nextId, used>>, PromisedKept', UploadOK(u)'
    PROVE  IInv'
  <1>0. u \in Procs /\ TypeOK /\ UploadOK(u) /\ Stamped /\ Control
    BY DEF Procs, IInv
  <1>1. /\ pc'[u] = step /\ (pc'[u] # "idle" => loc'[u] = loc[u])
        /\ \A q \in Procs : q # u => pc'[q] = pc[q] /\ loc'[q] = loc[q]
    BY <1>0 DEF TypeOK
  <1>2. PICK f \in Paths : f = loc[u].path /\ f[2] \in used /\ f[2] \in Stamps
                           /\ f[1] \in Ids /\ f[2] \notin Names
    BY <1>0, AttachmentAssumption DEF UploadOK, Paths, TypeOK
  <1>3. Control'
    BY <1>0, <1>1, UploadControl
  <1>4. Stamped'
    <2>1. \A r \in rows' \ rows : r.path[2] \in used
      BY <1>2
    <2>2. \A v \in Ups : pc'[v] # "idle" => pc[v] # "idle" /\ loc'[v].path = loc[v].path
      BY <1>1 DEF Procs
    <2>3. \A g \in Paths : g[2] \in Stamps /\ files'[g] # NoFile => files[g] # NoFile
      BY <1>2
    <2>. QED  BY <1>0, <2>1, <2>2, <2>3, StampedSame DEF Stamped
  <1>5. ASSUME NEW q \in Imps
        PROVE  ImportOK(q)'
    <2>1. q \in Procs /\ q # u /\ pc'[q] = pc[q] /\ loc'[q] = loc[q] /\ ImportOK(q)
      BY <1>1, AttachmentAssumption DEF Procs, IInv, ImportOK
    <2>2. CASE pc[q] \notin InTx
      BY <2>1, <2>2, ImportSame
    <2>3. CASE pc[q] \in InTx
      <3>0. loc[q].id \in Ids /\ loc[q].old \subseteq Stamps
        BY <1>0, <2>1, <2>3, LocTyped DEF LocalOK
      <3>1. \A r \in promised' \ promised :
                /\ r \notin loc[q].gone
                /\ (r.path[1] = loc[q].id => r.path[2] \in Stamps \ loc[q].entries)
        <4>. SUFFICES ASSUME NEW r \in promised' \ promised
                      PROVE  /\ r \notin loc[q].gone
                             /\ r.path[2] \in Stamps
                             /\ (r.path[1] = loc[q].id => r.path[2] \notin loc[q].entries)
          OBVIOUS
        <4>1. r \notin rows /\ r.path = f /\ loc[u].kept
          BY <1>2
        <4>2. loc[q].gone \subseteq rows
          BY <2>1, <2>3 DEF ImportOK, ImportSpares
        <4>3. pc[q] # "remove" => loc[q].entries = {}
          BY <2>1 DEF ImportOK, ImportSteps
        <4>4. pc[q] = "remove" /\ loc[q].id = f[1] => f[2] \notin loc[q].entries
          BY <1>0, <1>2, <4>1 DEF UploadOK
        <4>. QED  BY <1>2, <4>1, <4>2, <4>3, <4>4
      <3>2. \A g \in {loc[q].id} \X Names : files'[g] = files[g]
        BY <1>2, <3>0 DEF Paths
      <3>3. \A name \in loc[q].old :
                files'[<<loc[q].id, name>>] # NoFile => files[<<loc[q].id, name>>] # NoFile
        BY <1>2, <3>0 DEF Paths
      <3>4. Undisturbed(q)
        BY <3>1, <3>2, <3>3 DEF Undisturbed
      <3>. QED  BY <2>1, <3>4, ImportSame
    <2>. QED  BY <2>2, <2>3
  <1>6. ASSUME NEW v \in Ups, v # u
        PROVE  UploadOK(v)'
    <2>1. v \in Procs /\ pc'[v] = pc[v] /\ loc'[v] = loc[v] /\ UploadOK(v)
      BY <1>1, <1>6 DEF Procs, IInv
    <2>2. pc[v] # "idle" => loc[v].path[2] # loc[u].path[2] /\ loc[v].path \in Paths
      BY <1>0, <1>6, <2>1 DEF Stamped, UploadOK, Paths, TypeOK
    <2>3. \A q \in Imps : pc'[q] = pc[q] /\ loc'[q] = loc[q]
      BY <1>1, AttachmentAssumption DEF Procs
    <2>4. pc[v] # "idle" => \A r \in promised' \ promised : r.path # loc[v].path
      BY <2>2
    <2>5. pc[v] # "idle" => files'[loc[v].path] = files[loc[v].path]
      BY <2>2
    <2>. QED  BY <2>1, <2>3, <2>4, <2>5 DEF UploadOK
  <1>. QED  BY <1>3, <1>4, <1>5, <1>6, PartsNext

LEMMA IdleUpload ==
    ASSUME NEW u \in Ups, pc'[u] = "idle"
    PROVE  UploadOK(u)'
  BY DEF UploadOK

LEMMA WriteFileKeeps ==
    ASSUME IInv, NEW u \in Ups, WriteFile(u)
    PROVE  IInv'
  <1>0. u \in Procs /\ TypeOK /\ UploadOK(u) /\ pc[u] = "write" /\ PromisedKept
    BY DEF Procs, IInv, WriteFile, Goto
  <1>1. loc[u].path \in Paths /\ loc[u].body \in Bodies
    BY <1>0 DEF UploadOK, Paths, TypeOK
  <1>2. TypeOK'
    BY <1>0, <1>1, WriteFileTyped
  <1>3. /\ pc' = [pc EXCEPT ![u] = "create"] /\ UNCHANGED <<chal, nextId, rows, used, promised, loc>>
        /\ files' = [files EXCEPT ![loc[u].path] = IF @ = NoFile THEN NoFile ELSE loc[u].body]
    BY DEF WriteFile, Goto, db
  <1>4. /\ pc'[u] = "create" /\ \A q \in Procs : q # u => pc'[q] = pc[q]
        /\ files'[loc[u].path] = IF files[loc[u].path] = NoFile THEN NoFile ELSE loc[u].body
        /\ \A g \in Paths : g # loc[u].path => files'[g] = files[g]
    BY <1>0, <1>1, <1>3 DEF TypeOK
  <1>5. PromisedKept'
    <2>1. \A r \in promised : r \in rows /\ r.path \in Paths /\ r.path # loc[u].path
      BY <1>0 DEF PromisedKept, UploadOK, TypeOK, Row
    <2>. QED  BY <1>3, <1>4, <2>1, PromisedSame
  <1>6. UploadOK(u)'
    <2>1. \A q \in Imps : pc'[q] = pc[q]
      BY <1>4, AttachmentAssumption DEF Procs
    <2>2. loc[u].kept => files'[loc[u].path] = loc[u].body
      BY <1>0, <1>4, AttachmentAssumption DEF UploadOK
    <2>. QED  BY <1>0, <1>3, <1>4, <2>1, <2>2 DEF UploadOK
  <1>. QED  BY <1>0, <1>2, <1>3, <1>4, <1>5, <1>6, UploadStep

LEMMA CreateAttachmentKeeps ==
    ASSUME IInv, NEW u \in Ups, CreateAttachment(u)
    PROVE  IInv'
  <1>0. u \in Procs /\ TypeOK /\ UploadOK(u) /\ pc[u] = "create" /\ PromisedKept
    BY DEF Procs, IInv, CreateAttachment
  <1>1. loc[u].path \in Paths /\ loc[u].body \in Bodies
    BY <1>0 DEF UploadOK, Paths, TypeOK
  <1>2. TypeOK'
    BY <1>0, <1>1, CreateAttachmentTyped
  <1>3. PICK r : r = [path |-> loc[u].path, body |-> loc[u].body]
    OBVIOUS
  <1>4. r \in Row /\ r.path = loc[u].path /\ r.body = loc[u].body
    BY <1>1, <1>3, RowTyped
  <1>5. /\ pc' = [pc EXCEPT ![u] = "idle"] /\ loc' = [loc EXCEPT ![u] = NoLoc]
        /\ UNCHANGED <<chal, nextId, files, used>> /\ rows' = rows \cup {r}
        /\ promised' = IF loc[u].kept THEN promised \cup (rows' \ rows) ELSE promised
    BY <1>3 DEF CreateAttachment, InsertRow, Return
  <1>6. pc'[u] = "idle"
    BY <1>0, <1>5 DEF TypeOK
  <1>7. PromisedKept'
    <2>1. loc[u].kept => files[r.path] = r.body /\ r.body \notin {NoFile, Torn}
      BY <1>0, <1>1, <1>4, AttachmentAssumption DEF UploadOK
    <2>. QED  BY <1>0, <1>5, <2>1 DEF PromisedKept
  <1>8. UploadOK(u)'
    BY <1>6, IdleUpload
  <1>9. /\ \A s \in rows' : s \in rows \/ s.path = loc[u].path
        /\ \A s \in promised' : s \in promised \/ (s \in rows' /\ s \notin rows /\ loc[u].kept)
    BY <1>4, <1>5
  <1>. QED  BY <1>0, <1>2, <1>5, <1>7, <1>8, <1>9, UploadStep

\* The upload goes on to remove its file; its row may be there.
LEMMA UndoKeeps ==
    ASSUME IInv, TypeOK', NEW u \in Ups, Goto(u, "create", "undo"),
           UNCHANGED <<chal, nextId, files, used, promised, loc>>,
           UNCHANGED rows \/ rows' = rows \cup {[path |-> loc[u].path, body |-> loc[u].body]}
    PROVE  IInv'
  <1>0. u \in Procs /\ TypeOK /\ UploadOK(u) /\ pc[u] = "create" /\ PromisedKept
    BY DEF Procs, IInv, Goto
  <1>1. loc[u].path \in Paths /\ loc[u].body \in Bodies
    BY <1>0 DEF UploadOK, Paths, TypeOK
  <1>2. PICK r \in Row : /\ r = [path |-> loc[u].path, body |-> loc[u].body]
                         /\ r.path = loc[u].path
    BY <1>1, RowTyped
  <1>3. rows' = rows \/ rows' = rows \cup {r}
    BY <1>2
  <1>4. rows \subseteq rows' /\ \A s \in rows' : s \in rows \/ s.path = loc[u].path
    BY <1>2, <1>3
  <1>5. PromisedKept'
    BY <1>0, <1>4, PromisedSame DEF PromisedKept
  <1>6. pc' = [pc EXCEPT ![u] = "undo"] /\ pc'[u] = "undo"
        /\ \A q \in Imps : pc'[q] = pc[q]
    BY <1>0, AttachmentAssumption DEF Goto, TypeOK, Procs
  <1>7. UploadOK(u)'
    BY <1>0, <1>6 DEF UploadOK
  <1>. QED  BY <1>0, <1>4, <1>5, <1>6, <1>7, UploadStep

LEMMA AttachmentRefusedKeeps ==
    ASSUME IInv, NEW u \in Ups, AttachmentRefused(u)
    PROVE  IInv'
  <1>1. TypeOK'
    BY AttachmentRefusedTyped DEF IInv
  <1>. QED  BY <1>1, UndoKeeps DEF AttachmentRefused, disk, db

\* A step that returns, and at most removes the upload's file.
LEMMA ReturnKeeps ==
    ASSUME IInv, TypeOK', NEW u \in Ups, pc[u] # "idle", Return(u),
           UNCHANGED <<chal, nextId, rows, used, promised>>,
           UNCHANGED files \/ Write(loc[u].path, NoFile)
    PROVE  IInv'
  <1>0. u \in Procs /\ TypeOK /\ UploadOK(u) /\ PromisedKept
    BY DEF Procs, IInv
  <1>1. loc[u].path \in Paths
    BY <1>0 DEF UploadOK, Paths, TypeOK
  <1>2. /\ pc' = [pc EXCEPT ![u] = "idle"] /\ loc' = [loc EXCEPT ![u] = NoLoc]
        /\ pc'[u] = "idle"
    BY <1>0 DEF Return, TypeOK
  <1>3. /\ \A g \in Paths : g # loc[u].path => files'[g] = files[g]
        /\ files[loc[u].path] = NoFile => files'[loc[u].path] = NoFile
    BY <1>0, <1>1 DEF Write, TypeOK
  <1>4. PromisedKept'
    <2>1. \A r \in promised : r \in rows /\ r.path \in Paths /\ r.path # loc[u].path
      BY <1>0 DEF PromisedKept, UploadOK, TypeOK, Row
    <2>. QED  BY <1>3, <2>1, PromisedSame
  <1>5. UploadOK(u)'
    BY <1>2, IdleUpload
  <1>. QED  BY <1>0, <1>2, <1>3, <1>4, <1>5, UploadStep

LEMMA RemoveFileKeeps ==
    ASSUME IInv, NEW u \in Ups, RemoveFile(u)
    PROVE  IInv'
  <1>1. TypeOK'
    BY RemoveFileTyped DEF IInv
  <1>. QED  BY <1>1, ReturnKeeps DEF RemoveFile, db

LEMMA UploadFailsKeeps ==
    ASSUME IInv, NEW u \in Ups, UploadFails(u)
    PROVE  IInv'
  <1>0. TypeOK /\ UploadOK(u)
    BY DEF IInv
  <1>1. pc[u] # "idle" => loc[u].path \in Paths /\ loc[u].body \in Bodies
    BY <1>0 DEF UploadOK, Paths, TypeOK
  <1>2. TypeOK'
    BY <1>0, <1>1, UploadFailsTyped
  <1>3. UNCHANGED <<chal, nextId, files, used, promised>>
    BY DEF UploadFails, disk
  <1>4. CASE pc[u] \in {"write", "undo"} /\ Return(u) /\ UNCHANGED rows
    BY <1>2, <1>3, <1>4, ReturnKeeps
  <1>5. CASE Goto(u, "create", "undo") /\ UNCHANGED loc /\ (UNCHANGED rows \/ InsertRow(u))
    BY <1>2, <1>3, <1>5, UndoKeeps DEF InsertRow
  <1>. QED  BY <1>4, <1>5 DEF UploadFails

LEMMA CreateFileKeeps ==
    ASSUME IInv, NEW u \in Ups, NEW id \in Ids, NEW stamp \in Stamps, NEW body \in Bodies,
           CreateFile(u, id, stamp, body)
    PROVE  IInv'
  <1>0. u \in Procs /\ TypeOK /\ Stamped /\ Control /\ PromisedKept
    BY DEF Procs, IInv
  <1>1. TypeOK'
    BY <1>0, CreateFileTyped
  <1>2. PICK f \in Paths : f = <<id, stamp>> /\ f[1] = id /\ f[2] = stamp /\ stamp \notin Names
    <2>1. <<id, stamp>> \in Paths /\ stamp \notin Names
      BY AttachmentAssumption DEF Paths
    <2>2. <<id, stamp>>[1] = id /\ <<id, stamp>>[2] = stamp
      OBVIOUS
    <2>. QED  BY <2>1, <2>2
  <1>. DEFINE l == [NoLoc EXCEPT !.path = f, !.body = body]
  <1>3. l.path = f /\ l.body = body /\ l.kept = TRUE
    BY <1>2, NoLocTyped DEF Loc
  <1>4. /\ pc' = [pc EXCEPT ![u] = "write"] /\ loc' = [loc EXCEPT ![u] = l] /\ pc[u] = "idle"
        /\ files' = [files EXCEPT ![f] = Torn] /\ stamp \notin used /\ used' = used \cup {stamp}
        /\ UNCHANGED <<chal, nextId, rows, promised>>
    BY <1>2 DEF CreateFile, Goto, Write, db
  <1>. HIDE DEF l
  <1>5. /\ pc'[u] = "write" /\ loc'[u] = l /\ files'[f] = Torn
        /\ \A q \in Procs : q # u => pc'[q] = pc[q] /\ loc'[q] = loc[q]
        /\ \A g \in Paths : g # f => files'[g] = files[g]
    BY <1>0, <1>4 DEF TypeOK
  <1>6. Control'
    BY <1>0, <1>5, UploadControl
  <1>7. \A v \in Ups : v # u /\ pc[v] # "idle" =>
            loc[v].path \in Paths /\ loc[v].path[2] \in used /\ loc[v].path[2] # stamp
    BY <1>0, <1>4 DEF IInv, UploadOK, Paths, TypeOK
  <1>8. Stamped'
    <2>1. \A g \in Paths : g[2] \in Stamps /\ files'[g] # NoFile => g[2] \in used'
      BY <1>0, <1>2, <1>4, <1>5 DEF Stamped
    <2>2. \A r \in rows' : r.path[2] \in Stamps => r.path[2] \in used'
      BY <1>0, <1>4 DEF Stamped
    <2>3. \A v, w \in Ups : pc'[v] # "idle" /\ pc'[w] # "idle"
                            /\ loc'[v].path[2] = loc'[w].path[2] => v = w
      <3>1. \A v \in Ups : v # u => pc'[v] = pc[v] /\ loc'[v] = loc[v]
        BY <1>5 DEF Procs
      <3>2. \A v, w \in Ups : v # u /\ w # u /\ pc[v] # "idle" /\ pc[w] # "idle"
                              /\ loc[v].path[2] = loc[w].path[2] => v = w
        BY <1>0 DEF Stamped
      <3>. QED  BY <1>2, <1>3, <1>5, <1>7, <3>1, <3>2
    <2>. QED  BY <1>0, <1>4, <2>1, <2>2, <2>3 DEF Stamped
  <1>9. \A r \in promised : r \in rows /\ r.path \in Paths /\ r.path # f
    BY <1>0, <1>2, <1>4 DEF PromisedKept, Stamped, TypeOK, Row
  <1>10. PromisedKept'
    BY <1>4, <1>5, <1>9, PromisedSame
  <1>11. ASSUME NEW q \in Imps
         PROVE  ImportOK(q)'
    <2>1. q \in Procs /\ q # u /\ pc'[q] = pc[q] /\ loc'[q] = loc[q] /\ ImportOK(q)
      BY <1>5, AttachmentAssumption DEF Procs, IInv, ImportOK
    <2>2. ASSUME pc[q] \in InTx
          PROVE  Undisturbed(q)
      <3>1. loc[q].id \in Ids /\ loc[q].old \subseteq Stamps
        BY <1>0, <2>1, <2>2, LocTyped DEF LocalOK
      <3>2. \A g \in {loc[q].id} \X Names : files'[g] = files[g]
        BY <1>2, <1>5, <3>1 DEF Paths
      <3>3. Syncing(q) => \A name \in loc[q].old : name # stamp
        BY <1>4, <2>1 DEF ImportOK, ImportSpares
      <3>4. \A name \in loc[q].old : name # stamp =>
                files'[<<loc[q].id, name>>] = files[<<loc[q].id, name>>]
        BY <1>2, <1>5, <3>1 DEF Paths
      <3>. QED  BY <1>4, <3>2, <3>3, <3>4 DEF Undisturbed
    <2>. QED  BY <1>4, <2>1, <2>2, ImportSame
  <1>12. ASSUME NEW v \in Ups, v # u
         PROVE  UploadOK(v)'
    <2>1. v \in Procs /\ pc'[v] = pc[v] /\ loc'[v] = loc[v] /\ UploadOK(v)
      BY <1>5, <1>12 DEF Procs, IInv
    <2>2. pc[v] # "idle" => files'[loc[v].path] = files[loc[v].path]
      BY <1>2, <1>5, <1>7, <1>12
    <2>3. \A q \in Imps : pc'[q] = pc[q] /\ loc'[q] = loc[q]
      BY <1>5, AttachmentAssumption DEF Procs
    <2>. QED  BY <1>4, <2>1, <2>2, <2>3 DEF UploadOK
  <1>13. UploadOK(u)'
    <2>1. f \in Ids \X used'
      BY <1>2, <1>4 DEF Paths
    <2>2. \A q \in Imps : pc'[q] = pc[q] /\ loc'[q] = loc[q]
      BY <1>5, AttachmentAssumption DEF Procs
    <2>3. \A q \in Imps : pc[q] = "remove" => stamp \notin loc[q].entries
      BY <1>4 DEF IInv, ImportSpares, Syncing
    <2>. QED  BY <1>2, <1>3, <1>4, <1>5, <1>9, <2>1, <2>2, <2>3 DEF UploadOK
  <1>. QED  BY <1>1, <1>6, <1>8, <1>10, <1>11, <1>12, <1>13, PartsNext

-----------------------------------------------------------------------------
(* The invariant, and what it says.                                          *)

LEMMA CrashKeeps ==
    ASSUME IInv, Crash
    PROVE  IInv'
  <1>0. TypeOK /\ Stamped /\ PromisedKept
    BY DEF IInv
  <1>1. TypeOK'
    BY <1>0, CrashTyped
  <1>2. UNCHANGED <<chal, nextId, rows, files, used, promised>>
    BY DEF Crash, disk, db
  <1>3. \A q \in Procs : pc'[q] = "idle" /\ loc'[q] = NoLoc
    BY DEF Crash
  <1>4. \A q \in Imps : pc'[q] = "idle" /\ loc'[q] = NoLoc
    BY <1>3 DEF Procs
  <1>5. \A u \in Ups : pc'[u] = "idle"
    BY <1>3 DEF Procs
  <1>6. Control'
    BY <1>4, <1>5 DEF Control, InTx
  <1>7. Stamped'
    BY <1>0, <1>2, <1>5 DEF Stamped
  <1>8. PromisedKept'
    BY <1>0, <1>2 DEF PromisedKept
  <1>9. \A q \in Imps : ImportOK(q)'
    BY <1>4, IdleImport
  <1>10. \A u \in Ups : UploadOK(u)'
    BY <1>5, IdleUpload
  <1>. QED  BY <1>1, <1>6, <1>7, <1>8, <1>9, <1>10, PartsNext

LEMMA StutterKeeps ==
    ASSUME IInv, UNCHANGED vars
    PROVE  IInv'
  BY DEF IInv, vars, TypeOK, Control, Stamped, PromisedKept, ImportSteps, ImportSpares,
         ImportStores, ImportRebuilds, UploadOK, Stored, Syncing, Writing, Target

LEMMA InitIInv ==
    ASSUME Init
    PROVE  IInv
  <1>1. TypeOK
    <2>1. \A p \in Procs : pc[p] = "idle" /\ loc[p] = NoLoc
      BY DEF Init
    <2>2. \A p \in Procs : LocalOK(pc[p], loc[p], nextId)
      BY <2>1, NoLocTyped DEF LocalOK, Steps, InTx
    <2>3. pc \in [Procs -> Steps] /\ loc \in [Procs -> Loc]
      BY NoLocTyped DEF Init, Steps
    <2>4. SharedOK
      BY AttachmentAssumption DEF Init, SharedOK
    <2>. QED  BY <2>2, <2>3, <2>4, TypeParts
  <1>2. /\ \A p \in Imps : pc[p] = "idle" /\ loc[p] = NoLoc
        /\ \A u \in Ups : pc[u] = "idle"
    BY DEF Init, Procs
  <1>3. Control /\ Stamped /\ PromisedKept
    BY <1>2 DEF Init, Control, Stamped, PromisedKept, InTx
  <1>4. ASSUME NEW p \in Imps
        PROVE  ImportSteps(p) /\ ImportSpares(p) /\ ImportStores(p) /\ ImportRebuilds(p)
    BY <1>2, NoLocTyped DEF ImportSteps, ImportSpares, ImportStores, ImportRebuilds, Syncing, InTx
  <1>5. \A u \in Ups : UploadOK(u)
    BY <1>2 DEF UploadOK
  <1>. QED  BY <1>1, <1>3, <1>4, <1>5 DEF IInv

LEMMA NextIInv ==
    ASSUME IInv, [Next]_vars
    PROVE  IInv'
  <1>1. ASSUME NEW p \in Imps, NEW spec \in Specs, ImportSpec(p, spec)
        PROVE  IInv'
    BY <1>1, ImportSpecKeeps
  <1>2. ASSUME NEW p \in Imps,
               \/ UpsertChallenge(p) \/ ClearAttachments(p) \/ ReadDir(p) \/ RemoveAll(p)
               \/ Rename(p) \/ CopyFile(p) \/ InsertAttachment(p) \/ CommitImport(p)
               \/ ImportFails(p)
        PROVE  IInv'
    BY <1>2, UpsertChallengeKeeps, ClearAttachmentsKeeps, ReadDirKeeps, RemoveAllKeeps,
       PlaceKeeps, InsertAttachmentKeeps, CommitImportKeeps, ImportFailsKeeps
  <1>3. ASSUME NEW u \in Ups, NEW id \in Ids, NEW stamp \in Stamps, NEW body \in Bodies,
               CreateFile(u, id, stamp, body)
        PROVE  IInv'
    BY <1>3, CreateFileKeeps
  <1>4. ASSUME NEW u \in Ups,
               \/ WriteFile(u) \/ CreateAttachment(u) \/ AttachmentRefused(u)
               \/ RemoveFile(u) \/ UploadFails(u)
        PROVE  IInv'
    BY <1>4, WriteFileKeeps, CreateAttachmentKeeps, AttachmentRefusedKeeps,
       RemoveFileKeeps, UploadFailsKeeps
  <1>5. CASE Crash
    BY <1>5, CrashKeeps
  <1>6. CASE UNCHANGED vars
    BY <1>6, StutterKeeps
  <1>. QED  BY <1>1, <1>2, <1>3, <1>4, <1>5, <1>6 DEF Next

\* The invariant holds in every state of every behaviour.
THEOREM Invariance == Spec => []IInv
  BY InitIInv, NextIInv, PTL DEF Spec

\* Imports and uploads keep their types: within the transaction an import has
\* the id of a challenge, and when it puts a file in place or inserts a row it
\* has a file to do it for.
THEOREM Typed == Spec => []TypeOK
  <1>1. IInv => TypeOK
    BY DEF IInv
  <1>. QED  BY <1>1, Invariance, PTL

\* A committed import and an answered upload have their row and their complete
\* file until an import begins to remove files, whatever imports, uploads,
\* failures and deaths of the process come in between.
THEOREM PromisesKept == Spec => []PromisedKept
  <1>1. IInv => PromisedKept
    BY DEF IInv
  <1>. QED  BY <1>1, Invariance, PTL

\* When an import that replaces attachments is about to commit, nothing is left
\* in the directory of what was there when it listed it, except under a name
\* that it has put in place itself.
THEOREM Rebuilt == Spec => []DirectoryRebuilt
  <1>1. IInv => DirectoryRebuilt
    BY DEF IInv, ImportRebuilds, Syncing, Writing, DirectoryRebuilt
  <1>. QED  BY <1>1, Invariance, PTL

===============================================================================
