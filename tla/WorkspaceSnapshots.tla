------------------------- MODULE WorkspaceSnapshots -------------------------
(***************************************************************************)
(* Snapshots of the workspace and their restore: create_workspace_snapshot *)
(* and restore_workspace_snapshot of copilot/service/workspace_service.py, *)
(* each in the transaction of its request, among the edits of other        *)
(* requests.                                                               *)
(*                                                                         *)
(* The tables a snapshot covers are one set of rows, and a snapshot is the *)
(* set of rows that it copied, as in copilot_workspace_snapshot_items, its *)
(* documents in the order of their listing: the latest written first. When *)
(* each was written is left out, so that any order may be the listing's.   *)
(* ids of rules and memories, which a restore renews, are left out: their  *)
(* key names the rule or the fact. The row of the memory summary is always *)
(* there; a user without one has the blank summary.                        *)
(*                                                                         *)
(* PostgreSQL runs READ COMMITTED: each SELECT sees what is committed then *)
(* and the transaction's own writes, whose rows stay locked to its end.    *)
(***************************************************************************)
EXTENDS Naturals, FiniteSets, Sequences

CONSTANTS
  Requests,      \* requests that take or restore a snapshot
  Rows,          \* rows the workspace may have: [type, key, val]
  Fresh,         \* the rows of the workspace at first
  Earlier,       \* snapshots of requests that were over by then
  Protected,     \* keys of the ledger and the journal
  DefaultSkills, \* rows of the built-in skills
  Stripped,      \* content -> what create_document makes of it
  Suffixed,      \* key of a document -> the keys create_document tries next
  NoRequest, NoRow,
  MaxWork        \* bound: requests begun and edits of others, together

Tables == <<"document", "rule", "skill", "memory", "memory_summary">>

ASSUME SnapshotsAssumption ==
  /\ \A row \in Rows : /\ row = [type |-> row.type, key |-> row.key, val |-> row.val]
                       /\ \E i \in DOMAIN Tables : row.type = Tables[i]
  /\ Fresh \subseteq Rows /\ DefaultSkills \subseteq Rows
  /\ \A s \in Earlier : s.items \subseteq Rows /\ s.id \in Requests
  /\ \A s, t \in Earlier : s.id = t.id => s = t
  /\ \A rows \in {Fresh} \cup {s.items : s \in Earlier} :
       /\ \A row, other \in rows :
            row.type = "document" /\ other.type = "document" /\ row.key = other.key => row = other
       /\ \A key \in Protected : \E row \in rows : row.type = "document" /\ row.key = key
  /\ \A row \in DefaultSkills : row.type = "skill"
  /\ NoRequest \notin Requests /\ NoRow \notin Rows
  /\ MaxWork \in Nat

VARIABLES
  ws,         \* the committed rows
  snapshots,  \* the committed snapshots, each named by its request
  req,        \* request -> its progress
  begun,      \* transactions begun so far: the order of created_at
  edits

snapshotVars == <<ws, snapshots, req, begun, edits>>

Key(row) == <<row.type, row.key>>
Keys(rows) == {Key(row) : row \in rows}
OfType(rows, type) == {row \in rows : row.type = type}

Snapshot(id) == CHOOSE s \in snapshots : s.id = id

Unstarted == [at |-> "idle", type |-> 1, since |-> 0, target |-> NoRequest,
              doomed |-> {}, todo |-> {}, now |-> NoRow,
              dels |-> {}, ins |-> {}, found |-> {}, copy |-> {}, rank |-> <<>>,
              parent |-> NoRequest, calm |-> TRUE]

Active(r) == req[r].at \notin {"idle", "done", "failed"}

(* What a transaction sees. *)
View(r) == {row \in ws : Key(row) \notin req[r].dels} \cup req[r].ins

(* The keys that a transaction has written stay locked to its end. *)
Held(r) == req[r].dels \cup Keys(req[r].ins)
Locked(r) == UNION {Held(q) : q \in Requests \ {r}}

(* A commit of one disturbs the others that are under way. *)
Disturbed(by) == [q \in Requests |->
  IF q # by /\ Active(q) THEN [req[q] EXCEPT !.calm = FALSE] ELSE req[q]]

-----------------------------------------------------------------------------
Begin(r, target, at) ==
  /\ req[r].at = "idle" /\ begun + edits < MaxWork
  /\ begun' = begun + 1
  /\ req' = [req EXCEPT ![r].at = at, ![r].since = begun + 1, ![r].target = target]
  /\ UNCHANGED <<ws, snapshots, edits>>

Create(r) == Begin(r, NoRequest, "read")
Restore(r, s) == Begin(r, s.id, "documents")

Wanted(r, type) == OfType(Snapshot(req[r].target).items, type)

(* A skill of the snapshot that is in the table. *)
Clash(r) ==
  LET type == Tables[req[r].type]
  IN  /\ type = "skill"
      /\ Keys(Wanted(r, type)) \cap Keys(View(r)) # {}

(* The document as the session has it: it keeps what it has read first. *)
Unchanged(r) ==
  \/ req[r].now \in req[r].ins
  \/ req[r].now \in req[r].found /\ Key(req[r].now) \notin Keys(req[r].ins)

Present(r) == Key(req[r].now) \in Keys(View(r))

(* The rows that the next statement of r writes. It waits for others that have
   written one of them; the INSERT of a rule or a memory has a key of its own. *)
Writes(r) ==
  CASE req[r].at = "delete" /\ Present(r) -> {Key(req[r].now)}
    [] req[r].at = "update" /\ Present(r) /\ ~Unchanged(r) -> {Key(req[r].now)}
    [] req[r].at = "insert" -> {Key(req[r].now)}
    [] req[r].at = "flush" ->
         (IF Clash(r) THEN {} ELSE Keys(req[r].found))
         \cup (IF Tables[req[r].type] = "skill" THEN Keys(Wanted(r, "skill")) ELSE {})
    [] OTHER -> {}
Waits(r) == Writes(r) \cap Locked(r) # {}

(* An exception leaves the request without any of what it has written. *)
RollBack(r, calm) ==
  /\ req' = [req EXCEPT ![r] = [Unstarted EXCEPT !.at = "failed", !.calm = calm]]
  /\ UNCHANGED <<ws, snapshots, begun, edits>>

(* PostgreSQL aborts one of the transactions that wait in a circle. *)
DeadlockVictim(r) ==
  /\ Waits(r)
  /\ \E circle \in SUBSET {q \in Requests : Waits(q)} : \E for \in [circle -> circle] :
       /\ r \in circle /\ {for[q] : q \in circle} = circle
       /\ \A q \in circle : for[q] # q /\ Writes(q) \cap Held(for[q]) # {}
  /\ RollBack(r, FALSE)

-----------------------------------------------------------------------------
(* The operators named Mutant_... are faults a maintainer could introduce into
   the definition below them; each breaks one of the properties. *)
Mutant_RestoreOnlyAdds(r) ==
  /\ req[r].at = "documents"
  /\ req' = [req EXCEPT ![r].at = "heads", ![r].found = OfType(ws, "document"),
                        ![r].todo = Wanted(r, "document")]
  /\ UNCHANGED <<ws, snapshots, begun, edits>>

(* The documents are listed: those that the snapshot lacks are to be deleted,
   those of the snapshot to be written... *)
ListDocuments(r) ==
  LET found == OfType(ws, "document")
      wanted == Wanted(r, "document")
  IN  /\ req[r].at = "documents"
      /\ req' = [req EXCEPT
           ![r].at = "heads", ![r].found = found, ![r].todo = wanted,
           ![r].doomed = {d \in found : Key(d) \notin Keys(wanted) /\ d.key \notin Protected}]
      /\ UNCHANGED <<ws, snapshots, begun, edits>>

(* ...and then their heads: one whose document has gone since cannot be made
   again, which fails a restore and a snapshot alike. *)
ReadHeads(r) ==
  /\ req[r].at = "heads"
  /\ req' = [req EXCEPT ![r].at = "next"]
  /\ UNCHANGED <<ws, snapshots, begun, edits>>

HeadsFail(r) ==
  /\ \/ req[r].at = "heads" /\ ~ (Keys(req[r].found) \subseteq Keys(View(r)))
     \/ req[r].at = "read" /\ req[r].type = 2 /\ ~ (Keys(req[r].copy) \subseteq Keys(View(r)))
  /\ RollBack(r, req[r].calm)

(* One document after the other: delete_document looks for it first... *)
LookToDelete(r) ==
  /\ req[r].at = "next"
  /\ \E d \in req[r].doomed :
       IF Key(d) \in Keys(View(r))
       THEN /\ req' = [req EXCEPT ![r].at = "delete", ![r].now = d, ![r].doomed = @ \ {d}]
            /\ UNCHANGED <<ws, snapshots, begun, edits>>
       ELSE RollBack(r, req[r].calm)

(* ...and deletes what is still there when the row is free. *)
DeleteDocument(r) ==
  /\ req[r].at = "delete" /\ ~Waits(r)
  /\ req' = [req EXCEPT ![r].at = "next", ![r].now = NoRow, ![r].dels = @ \cup Writes(r)]
  /\ UNCHANGED <<ws, snapshots, begun, edits>>

(* The documents of the snapshot follow, in its order. *)
First(r, row) ==
  /\ row \in req[r].todo
  /\ \A other \in req[r].todo :
       Snapshot(req[r].target).rank[row] <= Snapshot(req[r].target).rank[other]

Look(r, at, row, now) ==
  /\ req[r].at = "next" /\ req[r].doomed = {}
  /\ First(r, row)
  /\ req' = [req EXCEPT ![r].at = at, ![r].now = now, ![r].todo = @ \ {row}]
  /\ UNCHANGED <<ws, snapshots, begun, edits>>

LookToUpdate(r, row) ==
  Key(row) \in Keys(req[r].found) \cap Keys(View(r)) /\ Look(r, "update", row, row)

(* One that was listed and has gone since is passed over... *)
PassOver(r, row) ==
  Key(row) \in Keys(req[r].found) \ Keys(View(r)) /\ Look(r, "next", row, NoRow)

(* ...and one that was not listed is created, without the blank space around
   its content, under another key when its own has been taken since. *)
LookToCreate(r, row) ==
  /\ Key(row) \notin Keys(req[r].found)
  /\ \E key \in {row.key} \cup Suffixed[row.key] :
       /\ <<"document", key>> \notin Keys(View(r))
       /\ key = row.key \/ Key(row) \in Keys(View(r))
       /\ Look(r, "insert", row, [row EXCEPT !.key = key, !.val = Stripped[@]])

(* The row is sent at once, but an UPDATE that changes nothing is not. *)
WriteDocument(r) ==
  /\ req[r].at \in {"update", "insert"} /\ ~Waits(r)
  /\ req[r].at = "update" => Present(r) \/ Unchanged(r)
  /\ req[r].at = "insert" => ~Present(r)
  /\ req' = [req EXCEPT ![r].at = "next", ![r].now = NoRow, ![r].dels = @ \cup Writes(r),
       ![r].ins = {x \in @ : Key(x) \notin Writes(r)}
                    \cup {x \in {req[r].now} : Key(x) \in Writes(r)}]
  /\ UNCHANGED <<ws, snapshots, begun, edits>>

(* A document that has gone cannot be updated, and one that has come cannot be
   created: the whole request fails. *)
WriteFails(r) ==
  /\ \/ req[r].at = "update" /\ ~Present(r)
     \/ req[r].at = "insert" /\ ~Waits(r) /\ Present(r)
  /\ RollBack(r, req[r].calm)

DocumentsDone(r) ==
  /\ req[r].at = "next" /\ req[r].doomed = {} /\ req[r].todo = {}
  /\ req' = [req EXCEPT ![r].at = "select", ![r].type = 2, ![r].found = {}]
  /\ UNCHANGED <<ws, snapshots, begun, edits>>

RestoreDocument(r) ==
  \/ LookToDelete(r) \/ DeleteDocument(r)
  \/ \E row \in req[r].todo : LookToUpdate(r, row) \/ PassOver(r, row) \/ LookToCreate(r, row)
  \/ WriteDocument(r) \/ WriteFails(r)

(* Rules, skills, memories and the summary: the rows there are... *)
Select(r) ==
  /\ req[r].at = "select"
  /\ req' = [req EXCEPT ![r].at = "flush",
                        ![r].found = OfType(View(r), Tables[req[r].type])]
  /\ UNCHANGED <<ws, snapshots, begun, edits>>

(* ...are deleted, and the rows of the snapshot are added. One flush sends
   both, the INSERTs first: a skill that is in both meets the unique
   constraint on skill_id and the whole request fails. *)
Flushed(r) ==
  LET type == Tables[req[r].type]
  IN  [req[r] EXCEPT !.dels = @ \cup Keys(req[r].found),
                     !.ins = @ \cup Wanted(r, type),
                     !.found = {},
                     !.at = IF req[r].type = Len(Tables) THEN "read" ELSE "select",
                     !.type = IF req[r].type = Len(Tables) THEN 1 ELSE @ + 1]

Flush(r) ==
  /\ req[r].at = "flush" /\ ~Waits(r)
  /\ ~Clash(r)
  /\ req' = [req EXCEPT ![r] = Flushed(r)]
  /\ UNCHANGED <<ws, snapshots, begun, edits>>

Mutant_FailsWithoutRollback(r) ==
  /\ req[r].at = "flush" /\ Clash(r)
  /\ req' = [req EXCEPT ![r].at = "failed"]
  /\ UNCHANGED <<ws, snapshots, begun, edits>>

FlushFails(r) ==
  /\ req[r].at = "flush" /\ ~Waits(r)
  /\ Clash(r)
  /\ RollBack(r, req[r].calm)

(* The orders in which documents may be listed. *)
Ranks(docs) ==
  {rank \in [docs -> 1..Cardinality(docs)] : {rank[d] : d \in docs} = 1..Cardinality(docs)}

Reads(r, rows) ==
  /\ req[r].at = "read"
  /\ \E rank \in IF req[r].type = 1 THEN Ranks(rows) ELSE {req[r].rank} :
       req' = [req EXCEPT ![r].copy = @ \cup rows, ![r].rank = rank,
                          ![r].at = IF req[r].type = Len(Tables) THEN "parent" ELSE "read",
                          ![r].type = IF req[r].type = Len(Tables) THEN @ ELSE @ + 1]
  /\ UNCHANGED <<ws, snapshots, begun, edits>>

Mutant_ReadCommitted(r) == Reads(r, OfType(ws, Tables[req[r].type]))

(* create_workspace_snapshot reads one table after the other... *)
Read(r) == Reads(r, OfType(View(r), Tables[req[r].type]))

(* ...then the latest snapshot, which becomes the parent. created_at is the
   start of the transaction. *)
Latest ==
  IF snapshots = {} THEN NoRequest
  ELSE (CHOOSE s \in snapshots : \A t \in snapshots : t.since <= s.since).id

ReadParent(r) ==
  /\ req[r].at = "parent"
  /\ req' = [req EXCEPT ![r].parent = Latest, ![r].at = "commit"]
  /\ UNCHANGED <<ws, snapshots, begun, edits>>

Commit(r) ==
  /\ req[r].at = "commit"
  /\ ws' = View(r)
  /\ snapshots' = snapshots \cup {[id |-> r, parent |-> req[r].parent, since |-> req[r].since,
                                   items |-> req[r].copy, rank |-> req[r].rank,
                                   calm |-> req[r].calm]}
  /\ req' = [Disturbed(r) EXCEPT ![r] = [Unstarted EXCEPT !.at = "done"]]
  /\ UNCHANGED <<begun, edits>>

-----------------------------------------------------------------------------
(* Other requests, each in one step: a row is added or changed, ... *)
Edit(rows) ==
  /\ begun + edits < MaxWork
  /\ edits' = edits + 1
  /\ ws' = rows
  /\ req' = Disturbed(NoRequest)
  /\ UNCHANGED <<snapshots, begun>>

Put(row) ==
  /\ row \notin ws /\ Key(row) \notin Locked(NoRequest)
  /\ Edit({x \in ws : Key(x) # Key(row)} \cup {row})

(* ...or deleted, ... *)
Delete(row) ==
  /\ row \in ws /\ Key(row) \notin Locked(NoRequest)
  /\ row.type # "memory_summary" /\ row.key \notin Protected
  /\ Edit(ws \ {row})

(* ...or skills are listed, which first adds the built-in ones that are missing. *)
MissingSkills == {row \in DefaultSkills : Key(row) \notin Keys(ws)}

AddBuiltins ==
  /\ MissingSkills # {}
  /\ Keys(MissingSkills) \cap Locked(NoRequest) = {}
  /\ Edit(ws \cup MissingSkills)

-----------------------------------------------------------------------------
SnapshotsInit ==
  /\ ws = Fresh /\ snapshots = Earlier
  /\ req = [r \in Requests |-> IF \E s \in Earlier : s.id = r
                               THEN [Unstarted EXCEPT !.at = "done"] ELSE Unstarted]
  /\ begun = Cardinality(Earlier) /\ edits = 0

Step(r) ==
  \/ ListDocuments(r) \/ ReadHeads(r) \/ HeadsFail(r)
  \/ RestoreDocument(r) \/ DocumentsDone(r)
  \/ Select(r) \/ Flush(r) \/ FlushFails(r)
  \/ Read(r) \/ ReadParent(r) \/ Commit(r)
  \/ DeadlockVictim(r)

SnapshotsNext ==
  \/ \E r \in Requests : Create(r) \/ (\E s \in snapshots : Restore(r, s)) \/ Step(r)
  \/ \E row \in Rows : Put(row) \/ Delete(row)
  \/ AddBuiltins

SnapshotsSpec == SnapshotsInit /\ [][SnapshotsNext]_snapshotVars

-----------------------------------------------------------------------------
IsSnapshot(s) ==
  /\ s \in [id : Requests, parent : Requests \cup {NoRequest}, since : Nat,
             items : SUBSET Rows, rank : {s.rank}, calm : BOOLEAN]
  /\ s.rank \in Ranks(OfType(s.items, "document"))

AtDocuments == {"documents", "heads", "next", "delete", "update", "insert"}

SnapshotsTypeOK ==
  /\ ws \subseteq Rows /\ \A s \in snapshots : IsSnapshot(s)
  /\ \A r \in Requests : req[r] \in
       [at : AtDocuments \cup {"idle", "select", "flush", "read", "parent", "commit", "done", "failed"},
        type : DOMAIN Tables, since : Nat, target : Requests \cup {NoRequest},
        doomed : SUBSET Rows, todo : SUBSET Rows, now : Rows \cup {NoRow},
        dels : SUBSET Keys(Rows), ins : SUBSET Rows, found : SUBSET Rows,
        copy : SUBSET Rows, rank : {req[r].rank}, parent : Requests \cup {NoRequest},
        calm : BOOLEAN]
  /\ begun \in 0..MaxWork /\ edits \in 0..MaxWork

RestoreCommits(r) == req[r].at = "commit" /\ req'[r].at = "done" /\ req[r].target # NoRequest

(* A restore during which nothing else is committed brings back every table
   as the snapshot has it: what was added since is gone, what was deleted or
   changed is back, and a document that had to be created again has the
   content create_document makes of the saved one. *)
RestoreIsComplete ==
  [][\A r \in Requests : RestoreCommits(r) /\ req[r].calm =>
       ws' = {row \in Snapshot(req[r].target).items :
                row.type # "document" \/ Key(row) \in Keys(ws)}
             \cup {[row EXCEPT !.val = Stripped[row.val]] :
                     row \in {x \in Snapshot(req[r].target).items :
                                x.type = "document" /\ Key(x) \notin Keys(ws)}}]_snapshotVars

(* A snapshot during which nothing else is committed is the whole workspace as
   its transaction leaves it, although it is read table by table; also the
   one that a restore takes of its own, still uncommitted, work. *)
SnapshotIsWorkspace ==
  [][\A s \in snapshots' \ snapshots : s.calm => s.items = ws']_snapshotVars

(* Only documents, which each restore writes in the order of its snapshot, can
   make requests wait for each other in a circle. Of those that are past them
   one waits for nobody: the other tables are locked in one order, a snapshot
   takes no lock, and a failed or aborted request leaves none behind. *)
PastDocuments(r) == Active(r) /\ req[r].at \notin AtDocuments

CirclesAreOfDocuments ==
  (\E r \in Requests : PastDocuments(r)) => \E r \in Requests : PastDocuments(r) /\ ~Waits(r)

(* What the roadmap says of the code: restoring a snapshot works. A restore
   that nothing disturbs does not fail. *)
RestoreWorks == \A r \in Requests : req[r].at = "failed" => ~req[r].calm
=============================================================================
