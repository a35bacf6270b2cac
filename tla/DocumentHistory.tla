-------------------------- MODULE DocumentHistory --------------------------
(***************************************************************************)
(* What the canonical document store of the workspace promises: documents, *)
(* the revisions recorded for each, and the head that names the current    *)
(* revision, when every request of copilot/service/workspace_service.py    *)
(* runs alone, from its first SELECT to its COMMIT, as one atomic step.    *)
(*                                                                         *)
(* DocumentTx is the same store with requests that overlap.                *)
(***************************************************************************)

CONSTANTS
  Keys,       \* document keys (doc_key)
  Protected,  \* the ledger and the journal, which cannot be deleted
  Contents,   \* texts a document may hold
  RevIds,     \* revision identifiers (uuid4 strings)
  NoDoc,      \* "no such row" in place of a text
  NoRev       \* NULL in place of a revision identifier

ASSUME ConstantsAssumption ==
  /\ Protected \subseteq Keys
  /\ NoDoc \notin Contents
  /\ NoRev \notin RevIds

VARIABLES
  doc,   \* copilot_canonical_documents: key -> text, or NoDoc
  head,  \* copilot_document_heads.current_revision_id, or NoRev
  revs   \* copilot_document_revisions: identifier -> row

vars == <<doc, head, revs>>

Revision == [doc : Keys, content : Contents,
             parent : RevIds \cup {NoRev}, base : RevIds \cup {NoRev}]

Live == {d \in Keys : doc[d] # NoDoc}
RevsOf(d) == {i \in DOMAIN revs : revs[i].doc = d}
FreshIds == RevIds \ DOMAIN revs

(* _append_revision followed by the assignment of head.current_revision_id:
   rows is a function from fresh identifiers to revision rows. *)
AppendRevisions(rows) ==
  /\ revs' = [i \in DOMAIN revs \cup DOMAIN rows |->
                IF i \in DOMAIN rows THEN rows[i] ELSE revs[i]]
  /\ head' = [d \in Keys |->
                IF \E i \in DOMAIN rows : rows[i].doc = d
                THEN CHOOSE i \in DOMAIN rows : rows[i].doc = d
                ELSE head[d]]

AppendRevision(i, d, c, parent, base) ==
  AppendRevisions([j \in {i} |->
     [doc |-> d, content |-> c, parent |-> parent, base |-> base]])

(* The rows a new document gets: create_document with ensure_document_head. *)
Create(d, c, i) ==
  /\ doc[d] = NoDoc
  /\ i \in FreshIds
  /\ doc' = [doc EXCEPT ![d] = c]
  /\ AppendRevision(i, d, c, NoRev, NoRev)

(* An operator named Mutant_... is a fault a maintainer could introduce into
   the definition that follows it; the specification does not use it. *)
Mutant_UpdateWithoutRevision(d, c, i) ==
  /\ doc[d] \notin {NoDoc, c}
  /\ i \in FreshIds
  /\ doc' = [doc EXCEPT ![d] = c]
  /\ UNCHANGED <<head, revs>>

(* update_working_document: an unchanged text writes nothing at all. *)
Update(d, c, i) ==
  /\ doc[d] \notin {NoDoc, c}
  /\ i \in FreshIds
  /\ doc' = [doc EXCEPT ![d] = c]
  /\ AppendRevision(i, d, c, head[d], head[d])

(* revert_document_to_revision: always a new revision, based on the target. *)
Revert(d, target, i) ==
  /\ doc[d] # NoDoc
  /\ target \in RevsOf(d)
  /\ i \in FreshIds
  /\ doc' = [doc EXCEPT ![d] = revs[target].content]
  /\ AppendRevision(i, d, revs[target].content, head[d], target)

(* checkpoint_workspace: one revision for every document, in one COMMIT;
   id names the identifier each document's revision gets. *)
Checkpoint(id) ==
  /\ \A d1, d2 \in Live : id[d1] = id[d2] => d1 = d2
  /\ AppendRevisions([i \in {id[d] : d \in Live} |->
       LET d == CHOOSE k \in Live : id[k] = i
       IN  [doc |-> d, content |-> doc[d], parent |-> head[d], base |-> head[d]]])
  /\ UNCHANGED doc

(* delete_document: the foreign keys cascade to the head and the revisions. *)
Delete(d) ==
  /\ d \notin Protected
  /\ doc[d] # NoDoc
  /\ doc' = [doc EXCEPT ![d] = NoDoc]
  /\ head' = [head EXCEPT ![d] = NoRev]
  /\ revs' = [i \in DOMAIN revs \ RevsOf(d) |-> revs[i]]

(* A workspace that has been opened: the protected documents exist, and
   every document has its "Initial state" revision, named by id. *)
Opened(live, c, id) ==
  /\ Protected \subseteq live
  /\ \A d1, d2 \in live : id[d1] = id[d2] => d1 = d2
  /\ doc = [d \in Keys |-> IF d \in live THEN c ELSE NoDoc]
  /\ head = [d \in Keys |-> IF d \in live THEN id[d] ELSE NoRev]
  /\ revs = [i \in {id[d] : d \in live} |->
               [doc |-> CHOOSE d \in live : id[d] = i, content |-> c,
                parent |-> NoRev, base |-> NoRev]]

Init ==
  \E live \in SUBSET Keys, c \in Contents :
    \E id \in [live -> RevIds] : Opened(live, c, id)

Next ==
  \/ \E d \in Keys, c \in Contents, i \in RevIds : Create(d, c, i)
  \/ \E d \in Keys, c \in Contents, i \in RevIds : Update(d, c, i)
  \/ \E d \in Keys, t \in RevIds, i \in RevIds : Revert(d, t, i)
  \/ \E id \in [Live -> FreshIds] : Checkpoint(id)
  \/ \E d \in Keys : Delete(d)

Spec == Init /\ [][Next]_vars

-----------------------------------------------------------------------------
TypeOK ==
  /\ doc \in [Keys -> Contents \cup {NoDoc}]
  /\ head \in [Keys -> RevIds \cup {NoRev}]
  /\ DOMAIN revs \subseteq RevIds
  /\ \A i \in DOMAIN revs : revs[i] \in Revision

(* The head of a document, and the parent and the base of each revision, are
   revisions of the same document, and a document that does not exist has
   neither head nor revisions: no cascade of a deletion reaches too far or
   leaves a row behind. *)
LinksStayInDocument ==
  /\ \A d \in Live : head[d] \in RevsOf(d)
  /\ \A d \in Keys \ Live : head[d] = NoRev /\ RevsOf(d) = {}
  /\ \A d \in Keys : \A i \in RevsOf(d) :
       {revs[i].parent, revs[i].base} \subseteq RevsOf(d) \cup {NoRev}

(* The text a document shows is the text of the revision its head names, so
   the documents and the revision trail are one source of truth. *)
HeadMatchesDocument ==
  \A d \in Live : head[d] \in DOMAIN revs /\ revs[head[d]].content = doc[d]

(* The revision trail is one line: whatever set of revisions holds the head
   and is closed under "parent" holds every revision of the document. No
   edit, checkpoint or revert ever leaves the chain that a reader walks
   back from the head, and no two revisions follow the same one. *)
LinearHistory ==
  \A d \in Live : \A S \in SUBSET RevsOf(d) :
    (head[d] \in S /\ \A i \in S : revs[i].parent \in S \cup {NoRev})
      => S = RevsOf(d)

(* A revision is never rewritten, and disappears only with its document. *)
RevisionsImmutable ==
  [][\A i \in DOMAIN revs :
       \/ i \in DOMAIN revs' /\ revs'[i] = revs[i]
       \/ i \notin DOMAIN revs' /\ doc'[revs[i].doc] = NoDoc]_vars
=============================================================================
