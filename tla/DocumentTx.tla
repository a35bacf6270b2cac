----------------------------- MODULE DocumentTx -----------------------------
(***************************************************************************)
(* The document store under overlapping requests. Every request to         *)
(* copilot/api/router.py, and every call of the agent's document tools,    *)
(* opens its own session and runs one transaction at READ COMMITTED: each  *)
(* SELECT sees what is committed when it runs, an UPDATE or DELETE locks   *)
(* its row until COMMIT, and an object the session already holds is not    *)
(* refreshed by a later SELECT.                                            *)
(*                                                                         *)
(* doc, head, revs and recency are the committed tables. What a request    *)
(* wrote but did not commit is visible to itself only; the action that     *)
(* commits applies it. docLock and headLock are the row locks.             *)
(***************************************************************************)
EXTENDS Naturals, FiniteSets

CONSTANTS
  Keys, Protected, Contents, NoDoc, NoRev,  \* as in DocumentHistory
  Requests,   \* requests; each runs once
  Opening,    \* the request that opened the workspace and wrote revision 1
  Kinds,      \* the operations the requests choose from
  None        \* "no holder" of a lock

AllKinds == {"create", "update", "revert", "checkpoint", "delete"}
EditKinds == {"create", "update", "delete"}

ASSUME TxAssumption ==
  /\ Protected \subseteq Keys
  /\ NoDoc \notin Contents
  /\ NoRev \notin (Requests \cup {Opening}) \X Keys
  /\ Kinds \subseteq AllKinds
  /\ Opening \notin Requests
  /\ None \notin Requests

VARIABLES
  doc, head, revs,  \* the committed tables, as in DocumentHistory
  recency,          \* key -> place in the order of updated_at, newest first
  docLock,          \* key -> the request holding the document row, or None
  headLock,         \* key -> the request holding the head row, or None
  pc,               \* request -> the statement it runs next
  tx                \* request -> what its session holds

tables == <<doc, head, revs, recency>>
locks == <<docLock, headLock>>
vars == <<tables, locks, pc, tx>>

(* A request writes at most one revision of a document: the pair names it. *)
RevIds == (Requests \cup {Opening}) \X Keys

(* The store that runs its requests one at a time, over the same tables. *)
History == INSTANCE DocumentHistory WITH
  RevIds <- RevIds, doc <- doc, head <- head, revs <- revs

(* Orders of the rows by updated_at. updated_at is the start of the last
   transaction that wrote the row, so a document that is written moves ahead
   of some of the others and never falls behind one. *)
Orders == {o \in [Keys -> 1..Cardinality(Keys)] :
             \A d, e \in Keys : o[d] = o[e] => d = e}

MoveUp(d) ==
  /\ recency' \in Orders
  /\ \A x, y \in Keys \ {d} : recency'[x] < recency'[y] <=> recency[x] < recency[y]
  /\ \A x \in Keys : recency[d] < recency[x] => recency'[d] < recency'[x]

NoTx == [keys  |-> {},                        \* documents it works on
         text  |-> [d \in Keys |-> NoDoc],    \* texts it read or will write
         heads |-> [d \in Keys |-> NoRev],    \* heads it read
         base  |-> NoRev,                     \* target revision of a revert
         order |-> [d \in Keys |-> 0]]        \* recency it read

Live == {d \in Keys : doc[d] # NoDoc}
Running == {"insert", "lock", "heads", "write", "remove"}
Ended == {"ok", "error"}

Goto(r, label) == pc' = [pc EXCEPT ![r] = label]

(* COMMIT and ROLLBACK end the session and release its row locks. *)
Close(r, label) ==
  /\ Goto(r, label)
  /\ tx' = [tx EXCEPT ![r] = NoTx]
  /\ docLock' = [d \in Keys |-> IF docLock[d] = r THEN None ELSE docLock[d]]
  /\ headLock' = [d \in Keys |-> IF headLock[d] = r THEN None ELSE headLock[d]]

Fail(r) == Close(r, "error") /\ UNCHANGED tables
Begin(r, kind) == pc[r] = "start" /\ kind \in Kinds

-----------------------------------------------------------------------------
(* create_document: the last SELECT of the suffix loop found key d free. *)
StartCreate(r, d, c) ==
  /\ Begin(r, "create")
  /\ doc[d] = NoDoc
  /\ tx' = [tx EXCEPT ![r].keys = {d}, ![r].text[d] = c]
  /\ Goto(r, "insert")
  /\ UNCHANGED <<tables, locks>>

(* INSERT of the document, its head and its first revision, and COMMIT. The
   primary key refuses a key that another request has inserted since. *)
Insert(r, d) ==
  /\ pc[r] = "insert" /\ d \in tx[r].keys
  /\ docLock[d] = None
  /\ IF doc[d] # NoDoc
     THEN Fail(r)
     ELSE History!Create(d, tx[r].text[d], <<r, d>>) /\ MoveUp(d) /\ Close(r, "ok")

(* update_working_document reads the document: 400 if there is none, and no
   UPDATE at all if its text is already the one to write. *)
StartUpdate(r, d, c) ==
  /\ Begin(r, "update")
  /\ IF doc[d] \in {NoDoc, c}
     THEN Close(r, IF doc[d] = c THEN "ok" ELSE "error")
     ELSE /\ tx' = [tx EXCEPT ![r].keys = {d}, ![r].text[d] = c]
          /\ Goto(r, "lock")
          /\ UNCHANGED locks
  /\ UNCHANGED tables

(* revert_document_to_revision reads the target revision and the document.
   The document row is updated, hence locked, only if the texts differ. *)
StartRevert(r, d, target) ==
  /\ Begin(r, "revert")
  /\ IF target \notin History!RevsOf(d)
     THEN Close(r, "error")
     ELSE /\ tx' = [tx EXCEPT ![r].keys = {d}, ![r].base = target,
                              ![r].text[d] = revs[target].content]
          /\ Goto(r, IF doc[d] = revs[target].content THEN "heads" ELSE "lock")
          /\ UNCHANGED locks
  /\ UNCHANGED tables

Mutant_LockWithoutWaiting(r, d) ==
  /\ pc[r] = "lock" /\ d \in tx[r].keys
  /\ doc[d] # NoDoc
  /\ docLock' = [docLock EXCEPT ![d] = r]
  /\ Goto(r, "heads")
  /\ UNCHANGED <<tables, headLock, tx>>

(* The SELECT of the head autoflushes the pending UPDATE of the document
   first, which waits for the row and fails if the row is gone. *)
LockDocument(r, d) ==
  /\ pc[r] = "lock" /\ d \in tx[r].keys
  /\ docLock[d] = None
  /\ IF doc[d] = NoDoc
     THEN Fail(r)
     ELSE /\ docLock' = [docLock EXCEPT ![d] = r]
          /\ Goto(r, "heads")
          /\ UNCHANGED <<tables, headLock, tx>>

(* checkpoint_workspace: list_documents reads every text in one SELECT. *)
StartCheckpoint(r) ==
  /\ Begin(r, "checkpoint")
  /\ tx' = [tx EXCEPT ![r].keys = Live, ![r].text = doc, ![r].order = recency]
  /\ Goto(r, "heads")
  /\ UNCHANGED <<tables, locks>>

(* The SELECT of the heads, a later statement than the one that read the
   texts. A head that went with its document ends the request. *)
ReadHeads(r) ==
  /\ pc[r] = "heads"
  /\ IF \E d \in tx[r].keys : head[d] = NoRev
     THEN Fail(r)
     ELSE /\ tx' = [tx EXCEPT ![r].heads = head]
          /\ Goto(r, "write")
          /\ UNCHANGED <<tables, locks>>

(* The document whose revision the request writes next: a checkpoint goes
   through them in the order in which it read them. *)
IsNext(r, d) ==
  /\ pc[r] = "write" /\ d \in tx[r].keys
  /\ headLock[d] # r
  /\ \A e \in tx[r].keys : tx[r].order[e] < tx[r].order[d] => headLock[e] = r

Mutant_NoForeignKeys(r, d) == TRUE

(* The foreign keys of the new revision: its document, parent and base. *)
LinksExist(r, d) ==
  /\ doc[d] # NoDoc
  /\ {tx[r].heads[d], tx[r].base} \subseteq DOMAIN revs \cup {NoRev}

(* INSERT of one document's revision and UPDATE of its head, which waits for
   the head row and keeps it. *)
WriteRevision(r, d) ==
  /\ IsNext(r, d)
  /\ headLock[d] = None
  /\ IF LinksExist(r, d)
     THEN headLock' = [headLock EXCEPT ![d] = r]
          /\ UNCHANGED <<tables, docLock, pc, tx>>
     ELSE Fail(r)

Row(r, d) == [doc |-> d, content |-> tx[r].text[d], parent |-> tx[r].heads[d],
              base |-> IF tx[r].base = NoRev THEN tx[r].heads[d] ELSE tx[r].base]

(* COMMIT: the text, if it was updated, and the revisions and heads. *)
Commit(r) ==
  /\ pc[r] = "write"
  /\ \A d \in tx[r].keys : headLock[d] = r
  /\ doc' = [d \in Keys |-> IF docLock[d] = r THEN tx[r].text[d] ELSE doc[d]]
  /\ History!AppendRevisions([i \in {r} \X tx[r].keys |-> Row(r, i[2])])
  /\ IF \E d \in Keys : docLock[d] = r
     THEN \E d \in tx[r].keys : MoveUp(d)
     ELSE UNCHANGED recency
  /\ Close(r, "ok")

(* delete_document finds the document; the ledger and the journal stay. *)
StartDelete(r, d) ==
  /\ Begin(r, "delete")
  /\ IF d \in Protected \/ doc[d] = NoDoc
     THEN Close(r, "error")
     ELSE /\ tx' = [tx EXCEPT ![r].keys = {d}]
          /\ Goto(r, "remove")
          /\ UNCHANGED locks
  /\ UNCHANGED tables

(* DELETE and its cascade, and COMMIT. It waits for the document row and for
   the head row; a row that is already gone makes it a DELETE of nothing. *)
Remove(r, d) ==
  /\ pc[r] = "remove" /\ d \in tx[r].keys
  /\ docLock[d] = None /\ headLock[d] = None
  /\ IF doc[d] = NoDoc THEN UNCHANGED <<doc, head, revs>> ELSE History!Delete(d)
  /\ UNCHANGED recency
  /\ Close(r, "ok")

-----------------------------------------------------------------------------
Mutant_AbandonKeepsText(r) ==
  /\ pc[r] \in Running
  /\ doc' = [d \in Keys |-> IF docLock[d] = r THEN tx[r].text[d] ELSE doc[d]]
  /\ UNCHANGED <<head, revs, recency>>
  /\ Close(r, "error")

Mutant_AbandonKeepsRevisions(r) ==
  /\ pc[r] \in Running
  /\ History!AppendRevisions(
       [i \in {r} \X {d \in tx[r].keys : headLock[d] = r} |-> Row(r, i[2])])
  /\ UNCHANGED <<doc, recency>>
  /\ Close(r, "error")

Mutant_AbandonKeepsLocks(r) ==
  pc[r] \in Running /\ Goto(r, "error") /\ UNCHANGED <<tables, locks, tx>>

(* The client goes away or the process dies: the session closes unfinished. *)
Abandon(r) == pc[r] \in Running /\ Fail(r)

(* PostgreSQL aborts one of the transactions that wait for each other's head
   rows. WaitsFor(r) holds at most one request. *)
WaitsFor(r) == {headLock[d] : d \in {e \in Keys : IsNext(r, e)}} \ {None}

DeadlockVictim(r) ==
  /\ \E cycle \in SUBSET Requests :
       r \in cycle /\ UNION {WaitsFor(x) : x \in cycle} = cycle
  /\ Fail(r)

(* A workspace that has been opened before: the protected documents exist,
   and every document has its first revision. *)
Init ==
  /\ \E live \in SUBSET Keys : \E c \in Contents :
       /\ Protected \subseteq live
       /\ doc = [d \in Keys |-> IF d \in live THEN c ELSE NoDoc]
       /\ head = [d \in Keys |-> IF d \in live THEN <<Opening, d>> ELSE NoRev]
       /\ revs = [i \in {Opening} \X live |->
                    [doc |-> i[2], content |-> c, parent |-> NoRev, base |-> NoRev]]
  /\ recency \in Orders
  /\ docLock = [d \in Keys |-> None]
  /\ headLock = [d \in Keys |-> None]
  /\ pc = [r \in Requests |-> "start"]
  /\ tx = [r \in Requests |-> NoTx]

Start(r) ==
  \/ \E d \in Keys, c \in Contents : StartCreate(r, d, c)
  \/ \E d \in Keys, c \in Contents : StartUpdate(r, d, c)
  \/ \E d \in Keys, i \in RevIds : StartRevert(r, d, i)
  \/ StartCheckpoint(r)
  \/ \E d \in Keys : StartDelete(r, d)

Proceed(r) ==
  \/ \E d \in Keys : Insert(r, d)
  \/ \E d \in Keys : LockDocument(r, d)
  \/ ReadHeads(r)
  \/ \E d \in Keys : WriteRevision(r, d)
  \/ Commit(r)
  \/ \E d \in Keys : Remove(r, d)
  \/ DeadlockVictim(r)

AllEnded == \A r \in Requests : pc[r] \in Ended

Next ==
  \/ \E r \in Requests : Start(r) \/ Proceed(r) \/ Abandon(r)
  \/ AllEnded /\ UNCHANGED vars

Spec == Init /\ [][Next]_vars

(* As long as a request can go on, the event loop runs some request, and
   PostgreSQL grants locks and breaks deadlocks; nobody has to send one. *)
FairSpec == Spec /\ WF_vars(\E r \in Requests : Proceed(r))

-----------------------------------------------------------------------------
Transaction == [keys : SUBSET Keys, text : [Keys -> Contents \cup {NoDoc}],
                heads : [Keys -> RevIds \cup {NoRev}],
                base : RevIds \cup {NoRev}, order : [Keys -> Nat]]

TypeOK ==
  /\ History!TypeOK
  /\ recency \in Orders
  /\ docLock \in [Keys -> Requests \cup {None}]
  /\ headLock \in [Keys -> Requests \cup {None}]
  /\ pc \in [Requests -> {"start"} \cup Running \cup Ended]
  /\ tx \in [Requests -> Transaction]

(* With creations, updates and deletions only, overlapping requests have the
   effect of requests that run one after the other: every commit is a step of
   DocumentHistory. The head an update reads after its row lock is still the
   head when it commits. An update that waited for another one with the same
   text still commits a revision: a revert to the head, in the history. *)
ActsAsHistory == History!Spec

(* A document shows the text of its current revision, whichever requests meet
   (see DocumentHistory). It holds for the kinds of ActsAsHistory. *)
HeadMatchesDocument == History!HeadMatchesDocument

(* Whatever the requests do, a head, a parent and a base are revisions of
   their own document, and a deletion leaves nothing of it behind. *)
LinksStayInDocument == History!LinksStayInDocument

(* No text is ever shown that the trail does not hold: a document's text is
   that of one of its own revisions, even when the head names another. *)
TextIsRecorded ==
  \A d \in Live : \E i \in History!RevsOf(d) : revs[i].content = doc[d]

(* A request that failed, was abandoned or lost a deadlock left no revision
   of any document behind, not even a checkpoint that got half way. *)
FailureLeavesNothing ==
  \A r \in Requests : pc[r] # "ok" => \A d \in Keys : <<r, d>> \notin DOMAIN revs

(* The requests that were sent all end, whatever rows the others hold: again
   and again there is none under way. *)
RequestsEnd == []<>(\A r \in Requests : pc[r] \notin Running)
=============================================================================
