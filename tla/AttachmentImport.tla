--------------------------- MODULE AttachmentImport ---------------------------
(* The attachments of one challenge: rows of challenge_attachments and files *)
(* below the attachment directory.  Importer.ImportSpec replaces them inside *)
(* a transaction, admin.CreateAttachment adds one without, and each of them  *)
(* changes files and rows in separate steps that can fail, die or meet.      *)
(*                                                                           *)
(* An import copies the sources to temporary files before it touches         *)
(* anything shared; only the copies that the spec lists are modelled.        *)
EXTENDS Naturals, Sequences

CONSTANTS
    Imps,       \* goroutines and commands that import the challenge
    Ups,        \* goroutines that upload an attachment
    Names,      \* sanitized file names of specs
    Stamps,     \* bound: names made from the time of an upload
    Bodies,     \* what a file may hold
    Specs,      \* the attachment lists of the challenge.yaml that are imported
    NoFile,     \* there is no file of this name
    Torn,       \* a file that is being written, or whose writer failed
    MaxIds,     \* bound: challenge ids ever drawn
    MaxFaults   \* bound: failures and deaths of the process

\* An attachment as stageAttachments has copied it.
Attachment == [name : Names, body : Bodies]

ASSUME AttachmentAssumption ==
    /\ Specs \subseteq Seq(Attachment)
    /\ Names \cap Stamps = {} /\ Imps \cap Ups = {}
    /\ NoFile # Torn /\ {NoFile, Torn} \cap Bodies = {}
    /\ MaxIds \in Nat \ {0} /\ MaxFaults \in Nat

VARIABLES
    chal,      \* the id of the challenge, 0 before the first import
    nextId,    \* the sequence of challenge ids
    rows,      \* the challenge_attachments table
    files,     \* files[<<id, name>>]: what is in challenge-<id>/<name>
    used,      \* stamps of the uploads so far
    promised,  \* history: rows a client was told of, until an import begins to
               \* remove files
    pc,        \* pc[p]: the next step of goroutine p
    loc,       \* loc[p]: its local variables, and what its transaction did
    faults     \* failures so far

vars == <<chal, nextId, rows, files, used, promised, pc, loc, faults>>

Ids   == 1..MaxIds
Procs == Imps \cup Ups
Paths == Ids \X (Names \cup Stamps)
Row   == [path : Paths, body : Bodies]

NoPath == <<0, NoFile>>
Loc == [id : 0..MaxIds, todo : Seq(Attachment), gone : SUBSET Row,
        entries : SUBSET (Names \cup Stamps), old : SUBSET Stamps, new : SUBSET Row,
        path : Paths \cup {NoPath}, body : Bodies \cup {NoFile}, kept : BOOLEAN]
NoLoc == [id |-> 0, todo |-> <<>>, gone |-> {}, entries |-> {}, old |-> {}, new |-> {},
          path |-> NoPath, body |-> NoFile, kept |-> TRUE]

InTx  == {"clear", "readdir", "remove", "move", "copy", "insert", "commit"}
Steps == InTx \cup {"idle", "upsert", "write", "create", "undo"}

\* Who writes to the directory of a challenge has its id.
TypeOK ==
    /\ chal \in 0..MaxIds /\ nextId \in 1..(MaxIds + 1) /\ faults \in 0..MaxFaults
    /\ rows \subseteq Row /\ promised \subseteq Row
    /\ files \in [Paths -> Bodies \cup {NoFile, Torn}]
    /\ used \subseteq Stamps
    /\ pc \in [Procs -> Steps] /\ loc \in [Procs -> Loc]
    /\ \A p \in Procs : /\ pc[p] = "idle" <=> loc[p] = NoLoc
                        /\ pc[p] \in InTx => loc[p].id \in Ids /\ loc[p].id < nextId
                        /\ pc[p] \in {"move", "insert"} => loc[p].todo # <<>>

Init ==
    /\ chal = 0 /\ nextId = 1 /\ rows = {} /\ used = {} /\ promised = {}
    /\ files = [f \in Paths |-> NoFile]
    /\ pc = [p \in Procs |-> "idle"]
    /\ loc = [p \in Procs |-> NoLoc]
    /\ faults = 0

-----------------------------------------------------------------------------
Goto(p, from, to) == pc[p] = from /\ pc' = [pc EXCEPT ![p] = to]

\* Fault: the rows of one import are inserted again by the next.
ReturnKeepsLocals(p) == pc' = [pc EXCEPT ![p] = "idle"] /\ UNCHANGED loc

Return(p) ==
    /\ pc' = [pc EXCEPT ![p] = "idle"]
    /\ loc' = [loc EXCEPT ![p] = NoLoc]

Write(path, content) == files' = [files EXCEPT ![path] = content]

disk == <<files, used, promised>>
db   == <<chal, nextId, rows>>

-----------------------------------------------------------------------------
(* ImportSpec                                                              *)

\* NormalizeSpec and stageAttachments.
ImportSpec(p, spec) ==
    /\ Goto(p, "idle", "upsert")
    /\ loc' = [loc EXCEPT ![p] = [NoLoc EXCEPT !.todo = spec, !.kept = FALSE]]
    /\ UNCHANGED faults /\ UNCHANGED disk /\ UNCHANGED db

\* Authors and runtime configuration come first, in other tables; a spec without
\* attachments leaves those of the challenge alone.
AfterUpsert(p) == IF loc[p].todo = <<>> THEN "commit" ELSE "clear"

\* Fault: the upsert does not keep the row of the challenge.
UpsertUnlocked(p) ==
    LET id == IF chal = 0 THEN nextId ELSE chal IN
    /\ id \in Ids
    /\ nextId' = IF chal = 0 THEN nextId + 1 ELSE nextId
    /\ Goto(p, "upsert", AfterUpsert(p))
    /\ loc' = [loc EXCEPT ![p].id = id]
    /\ UNCHANGED <<chal, rows, faults>> /\ UNCHANGED disk

\* The upsert waits for a transaction that inserted or updated the challenge.
UpsertChallenge(p) ==
    LET id == IF chal = 0 THEN nextId ELSE chal IN
    /\ \A q \in Imps : pc[q] \notin InTx
    /\ id \in Ids
    /\ nextId' = IF chal = 0 THEN nextId + 1 ELSE nextId
    /\ Goto(p, "upsert", AfterUpsert(p))
    /\ loc' = [loc EXCEPT ![p].id = id]
    /\ UNCHANGED <<chal, rows, faults>> /\ UNCHANGED disk

\* syncAttachments: the DELETE finds the rows that are committed by now.
ClearAttachments(p) ==
    /\ Goto(p, "clear", "readdir")
    /\ loc' = [loc EXCEPT ![p].gone = {r \in rows : r.path[1] = loc[p].id}]
    /\ UNCHANGED faults /\ UNCHANGED disk /\ UNCHANGED db

Present(id) == {name \in Names \cup Stamps : files[<<id, name>>] # NoFile}

\* What is in the directory now will be removed: no promise about it is left,
\* and an upload that is about to insert its row will have lost its file.
Listed(p, entries) ==
    /\ Goto(p, "readdir", "remove")
    /\ loc' = [q \in Procs |->
                 IF q = p THEN [loc[p] EXCEPT !.entries = entries, !.old = used]
                 ELSE [loc[q] EXCEPT !.kept = @ /\ loc[q].path[1] # loc[p].id]]
    /\ promised' = {r \in promised : r.path[1] # loc[p].id}
    /\ UNCHANGED <<files, used, faults>> /\ UNCHANGED db

\* Fault: only the files of the deleted rows are removed.
ReadDirOfRows(p) ==
    Listed(p, {name \in Present(loc[p].id) : \E r \in loc[p].gone : r.path = <<loc[p].id, name>>})

ReadDir(p) == Listed(p, Present(loc[p].id))

RemoveAll(p) ==
    /\ pc[p] = "remove"
    /\ \/ \E name \in loc[p].entries :
            /\ Write(<<loc[p].id, name>>, NoFile)
            /\ loc' = [loc EXCEPT ![p].entries = @ \ {name}] /\ UNCHANGED pc
       \/ loc[p].entries = {} /\ Goto(p, "remove", "move") /\ UNCHANGED <<files, loc>>
    /\ UNCHANGED <<used, promised, faults>> /\ UNCHANGED db

Target(p) == <<loc[p].id, Head(loc[p].todo).name>>

\* The temporary file is renamed, or copied if it is on another device.
Rename(p) ==
    /\ Goto(p, "move", "insert") /\ Write(Target(p), Head(loc[p].todo).body)
    /\ UNCHANGED <<used, promised, loc, faults>> /\ UNCHANGED db

CopyFile(p) ==
    /\ \/ Goto(p, "move", "copy") /\ Write(Target(p), Torn)
       \/ Goto(p, "copy", "insert") /\ Write(Target(p), Head(loc[p].todo).body)
    /\ UNCHANGED <<used, promised, loc, faults>> /\ UNCHANGED db

InsertAttachment(p) ==
    /\ Goto(p, "insert", IF Len(loc[p].todo) = 1 THEN "commit" ELSE "move")
    /\ loc' = [loc EXCEPT ![p].todo = Tail(@),
                          ![p].new = @ \cup {[path |-> Target(p), body |-> Head(loc[p].todo).body]}]
    /\ UNCHANGED faults /\ UNCHANGED disk /\ UNCHANGED db

CommitImport(p) ==
    /\ pc[p] = "commit" /\ Return(p)
    /\ chal' = loc[p].id
    /\ rows' = (rows \ loc[p].gone) \cup loc[p].new
    /\ promised' = promised \cup loc[p].new
    /\ UNCHANGED <<nextId, files, used, faults>>

-----------------------------------------------------------------------------
(* CreateAttachment                                                        *)

\* writeAttachmentFile comes before any look at the challenge.
CreateFile(u, id, stamp, body) ==
    /\ stamp \notin used /\ used' = used \cup {stamp}
    /\ Goto(u, "idle", "write") /\ Write(<<id, stamp>>, Torn)
    /\ loc' = [loc EXCEPT ![u] = [NoLoc EXCEPT !.path = <<id, stamp>>, !.body = body]]
    /\ UNCHANGED <<promised, faults>> /\ UNCHANGED db

\* A file that was removed meanwhile is written to no avail.
WriteFile(u) ==
    /\ Goto(u, "write", "create")
    /\ files' = [files EXCEPT ![loc[u].path] = IF @ = NoFile THEN NoFile ELSE loc[u].body]
    /\ UNCHANGED <<used, promised, loc, faults>> /\ UNCHANGED db

InsertRow(u) ==
    /\ loc[u].path[1] = chal
    /\ rows' = rows \cup {[path |-> loc[u].path, body |-> loc[u].body]}
    /\ UNCHANGED <<chal, nextId>>

CreateAttachment(u) ==
    /\ pc[u] = "create" /\ InsertRow(u) /\ Return(u)
    /\ promised' = IF loc[u].kept THEN promised \cup (rows' \ rows) ELSE promised
    /\ UNCHANGED <<files, used, faults>>

\* The challenge does not exist, or is not the author's own.
AttachmentRefused(u) ==
    /\ Goto(u, "create", "undo")
    /\ UNCHANGED <<loc, faults>> /\ UNCHANGED disk /\ UNCHANGED db

RemoveFile(u) ==
    /\ pc[u] = "undo" /\ Write(loc[u].path, NoFile) /\ Return(u)
    /\ UNCHANGED <<used, promised, faults>> /\ UNCHANGED db

-----------------------------------------------------------------------------
Fault == faults < MaxFaults /\ faults' = faults + 1

\* A statement or a file operation fails, or a command dies: the transaction
\* is rolled back, and what was done to the files stays.
ImportFails(p) ==
    /\ Fault /\ pc[p] \in InTx \cup {"upsert"} /\ Return(p)
    /\ UNCHANGED disk /\ UNCHANGED db

\* A half-written file stays; an INSERT that fails, or whose reply is lost,
\* makes CreateAttachment remove the file, and os.Remove may fail.
UploadFails(u) ==
    /\ Fault
    /\ \/ pc[u] = "write" /\ Return(u) /\ UNCHANGED rows
       \/ Goto(u, "create", "undo") /\ UNCHANGED <<rows, loc>>
       \/ Goto(u, "create", "undo") /\ InsertRow(u) /\ UNCHANGED loc
       \/ pc[u] = "undo" /\ Return(u) /\ UNCHANGED rows
    /\ UNCHANGED <<chal, nextId>> /\ UNCHANGED disk

Crash ==
    /\ Fault /\ \E p \in Procs : pc[p] # "idle"
    /\ pc' = [p \in Procs |-> "idle"]
    /\ loc' = [p \in Procs |-> NoLoc]
    /\ UNCHANGED disk /\ UNCHANGED db

Next ==
    \/ \E p \in Imps, spec \in Specs : ImportSpec(p, spec)
    \/ \E p \in Imps :
          \/ UpsertChallenge(p) \/ ClearAttachments(p) \/ ReadDir(p) \/ RemoveAll(p)
          \/ Rename(p) \/ CopyFile(p) \/ InsertAttachment(p) \/ CommitImport(p)
          \/ ImportFails(p)
    \/ \E u \in Ups, id \in Ids, stamp \in Stamps, body \in Bodies : CreateFile(u, id, stamp, body)
    \/ \E u \in Ups :
          \/ WriteFile(u) \/ CreateAttachment(u) \/ AttachmentRefused(u) \/ RemoveFile(u)
          \/ UploadFails(u)
    \/ Crash

Spec == Init /\ [][Next]_vars

-----------------------------------------------------------------------------
(* Properties                                                              *)

\* An import that was committed, and an upload that was answered, has its row
\* and its file as long as no import begins to remove files, whatever other
\* imports and uploads do, fail at or leave behind.  Of two attachments of one
\* name in a spec the later one stays.
PromisedKept ==
    \A r \in promised :
        /\ r \in rows /\ files[r.path] \notin {NoFile, Torn}
        /\ (\A s \in promised : s.path = r.path => s = r) => files[r.path] = r.body

\* challenges/README.md:91: an import rebuilds the directory.  When it commits,
\* nothing is left of what was there before, not even the remains of failed
\* imports and uploads.
DirectoryRebuilt ==
    \A p \in Imps : pc[p] = "commit" /\ loc[p].new # {} =>
        \A name \in Names \cup loc[p].old :
            files[<<loc[p].id, name>>] # NoFile
                => \E r \in loc[p].new : r.path = <<loc[p].id, name>>

=============================================================================
