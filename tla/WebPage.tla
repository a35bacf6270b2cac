------------------------------ MODULE WebPage ------------------------------
(***************************************************************************)
(* The workspace page (frontend/src/app/page.tsx) and the document store   *)
(* it works on, here DocumentHistory: the page keeps a copy of the         *)
(* documents and one editor with a draft, and every call it makes to the   *)
(* server is under way for a while. Calls that are under way together are  *)
(* served, and their answers arrive, in any order; an answer may be lost.  *)
(*                                                                         *)
(* The store is also written by the agent of a turn that the page has      *)
(* submitted, and by other pages. Rules stand for the items that are       *)
(* fetched when they are opened: rules, memories and skills; their texts,  *)
(* the threads and their messages are left out.                            *)
(***************************************************************************)
EXTENDS DocumentHistory, Naturals, FiniteSets

CONSTANTS
  Rules,     \* items that are no documents
  NoItem,    \* the editor is empty
  MaxCalls   \* bound: calls the page makes, and writes of other pages

ASSUME PageAssumption ==
  /\ Rules \cap Keys = {} /\ NoItem \notin Keys \cup Rules
  /\ MaxCalls \in Nat

VARIABLES
  workspace, \* the documents the page shows: key -> text, or NoDoc
  editor,    \* editorEntity and editorDraft; from: the item opened with it
  turnOn,    \* submittingTurn: the agent is at work
  calls,     \* calls under way
  sent,      \* calls made, and writes of other pages, so far
  reads,     \* times the server has read the documents for this page
  shown,     \* the read that the page shows
  needed     \* the first read that shows all that this page should know of

screen == <<workspace, editor, turnOn>>
seen == <<shown, needed>>
pageVars == <<screen, calls, sent, reads, seen>>
allVars == <<vars, pageVars>>

Empty == [item |-> NoItem, draft |-> NoDoc, from |-> NoItem]
Entity(item, text) == [item |-> item, draft |-> text, from |-> item]

(* savingEntity and deletingEntity, until the handler has ended. *)
Saving == \E c \in calls : c.then = "saved"
Deleting == \E c \in calls : c.then = "deleted"

Shown == {d \in Keys : workspace[d] # NoDoc}

FreeNumber == CHOOSE n \in 1..MaxCalls : \A c \in calls : c.no # n

(* then: what the page does after the load of a save or of a deletion. *)
CallNo(n, kind, item, text, from, then) ==
  [no |-> n, kind |-> kind, at |-> "sent", item |-> item, text |-> text,
   from |-> from, then |-> then, docs |-> [d \in Keys |-> NoDoc], read |-> 0]
Call(kind, item, text, from, then) == CallNo(FreeNumber, kind, item, text, from, then)
Load(then) == Call("load", NoItem, NoDoc, NoItem, then)

Send(rest, c) ==
  /\ sent < MaxCalls
  /\ calls' = rest \cup {c} /\ sent' = sent + 1

Answered(c, at) == calls' = (calls \ {c}) \cup {[c EXCEPT !.at = at]}

-----------------------------------------------------------------------------
(* The user: onSelectExplorerItem sets the entity and the draft at once. *)
OpenDocument(d) ==
  /\ d \in Shown
  /\ editor' = Entity(d, workspace[d])
  /\ UNCHANGED <<vars, workspace, turnOn, calls, sent, reads, seen>>

Mutant_OpenRuleAtOnce(r) ==
  /\ editor' = [editor EXCEPT !.item = r]
  /\ Send(calls, Call("open", r, NoDoc, r, "nothing"))
  /\ UNCHANGED <<vars, workspace, turnOn, reads, seen>>

(* A rule is fetched first; until it is here the editor stays as it is. *)
OpenRule(r) ==
  /\ Send(calls, Call("open", r, NoDoc, r, "nothing"))
  /\ UNCHANGED <<vars, screen, reads, seen>>

Type(text) ==
  /\ editor.item \in Keys /\ editor.draft # text
  /\ editor' = [editor EXCEPT !.draft = text]
  /\ UNCHANGED <<vars, workspace, turnOn, calls, sent, reads, seen>>

(* onSaveEditorEntity: no revision goes along with the draft. *)
Save ==
  /\ editor.item # NoItem /\ ~Saving
  /\ Send(calls, Call("save", editor.item, editor.draft, editor.from, "saved"))
  /\ UNCHANGED <<vars, screen, reads, seen>>

(* onDeleteEditorEntity *)
DeleteItem ==
  /\ editor.item \in Keys /\ ~Deleting
  /\ Send(calls, Call("delete", editor.item, NoDoc, NoItem, "deleted"))
  /\ UNCHANGED <<vars, screen, reads, seen>>

(* onCreateDocument; also what loads the workspace and no more: a thread that
   is chosen, or a snapshot that is taken. *)
CreateItem(d, text) ==
  /\ Send(calls, Call("create", d, text, d, "nothing"))
  /\ UNCHANGED <<vars, screen, reads, seen>>

LoadWorkspace ==
  /\ Send(calls, Load("nothing"))
  /\ UNCHANGED <<vars, screen, reads, seen>>

SubmitTurn ==
  /\ ~turnOn
  /\ turnOn' = TRUE
  /\ UNCHANGED <<vars, workspace, editor, calls, sent, reads, seen>>

-----------------------------------------------------------------------------
(* The server *)
ServeLoad(c) ==
  /\ c.kind = "load" /\ c.at = "sent"
  /\ reads' = reads + 1
  /\ calls' = (calls \ {c}) \cup {[c EXCEPT !.at = "done", !.docs = doc, !.read = reads + 1]}
  /\ UNCHANGED <<vars, screen, sent, seen>>

Refused(c) == Answered(c, "refused") /\ UNCHANGED vars

ServeSave(c, i) ==
  /\ c.kind = "save" /\ c.at = "sent"
  /\ IF c.item \in Rules
     THEN Answered(c, "done") /\ UNCHANGED vars
     ELSE IF doc[c.item] = NoDoc THEN Refused(c)
     ELSE /\ \/ Update(c.item, c.text, i)
             \/ doc[c.item] = c.text /\ UNCHANGED vars
          /\ Answered(c, "done")
  /\ UNCHANGED <<screen, sent, reads, seen>>

ServeDelete(c) ==
  /\ c.kind = "delete" /\ c.at = "sent"
  /\ IF c.item \in Protected \/ doc[c.item] = NoDoc
     THEN Refused(c)
     ELSE Delete(c.item) /\ Answered(c, "done")
  /\ UNCHANGED <<screen, sent, reads, seen>>

(* A title whose key is taken gets another key: here, only free keys. *)
ServeCreate(c, i) ==
  /\ c.kind = "create" /\ c.at = "sent"
  /\ IF doc[c.item] # NoDoc
     THEN Refused(c)
     ELSE Create(c.item, c.text, i) /\ Answered(c, "done")
  /\ UNCHANGED <<screen, sent, reads, seen>>

ServeOpen(c) ==
  /\ c.kind = "open" /\ c.at = "sent"
  /\ Answered(c, "done")
  /\ UNCHANGED <<vars, screen, sent, reads, seen>>

(* The tools of the agent, before the turn ends. *)
AgentWrites(d, text, i) ==
  /\ turnOn
  /\ Update(d, text, i) \/ Create(d, text, i)
  /\ UNCHANGED pageVars

(* Another page, or a client of the API, writes at any time. *)
WrittenElsewhere ==
  /\ Next
  /\ sent < MaxCalls /\ sent' = sent + 1
  /\ needed' = reads + 1
  /\ UNCHANGED <<screen, calls, reads, shown>>

-----------------------------------------------------------------------------
(* The answers. An empty editor opens the first document that is shown: the
   order is that of the last change, so that any may be the first. *)
FirstDocument(docs) == {Entity(d, docs[d]) : d \in {k \in Keys : docs[k] # NoDoc}}

EditorAfter(docs, cleared) ==
  IF cleared \/ editor = Empty
  THEN editor' \in (IF FirstDocument(docs) = {} THEN {Empty} ELSE FirstDocument(docs))
  ELSE UNCHANGED editor

(* setWorkspace, then the end of the handler that waits for the load. *)
LoadArrives(c) ==
  /\ c.kind = "load" /\ c.at = "done"
  /\ workspace' = c.docs
  /\ shown' = c.read /\ needed' = (IF needed < c.read THEN c.read ELSE needed)
  /\ calls' = calls \ {c}
  /\ EditorAfter(c.docs, c.then = "deleted")
  /\ UNCHANGED <<vars, turnOn, sent, reads>>

Mutant_NoLoadAfterWrite(c) ==
  /\ c.kind \in {"save", "delete", "create"} /\ c.at = "done"
  /\ calls' = calls \ {c}
  /\ UNCHANGED <<vars, screen, sent, reads, seen>>

(* A write that succeeded is followed by a load. *)
WriteArrives(c) ==
  /\ c.kind \in {"save", "delete", "create"} /\ c.at = "done"
  /\ IF c.item \in Rules
     THEN calls' = calls \ {c} /\ UNCHANGED sent
     ELSE Send(calls \ {c}, Load(c.then))
  /\ UNCHANGED <<vars, screen, reads, seen>>

OpenArrives(c) ==
  /\ c.kind = "open" /\ c.at = "done"
  /\ editor' = [item |-> c.item, draft |-> c.text, from |-> c.from]
  /\ calls' = calls \ {c}
  /\ UNCHANGED <<vars, workspace, turnOn, sent, reads, seen>>

(* An error: the server refused, or the call or its answer was lost; a call that
   the page has given up is not served later. The page shows the error and loads
   nothing. A load that fails does not stop its handler: a deletion still empties
   the editor. *)
CallFails(c) ==
  /\ c \in calls
  /\ calls' = calls \ {c}
  /\ needed' = reads + 1
  /\ EditorAfter(workspace, c.kind = "load" /\ c.then = "deleted")
  /\ UNCHANGED <<vars, workspace, turnOn, sent, reads, shown>>

(* onCompleted loads the workspace, onFailed does not. *)
TurnCompleted ==
  /\ turnOn
  /\ turnOn' = FALSE
  /\ Send(calls, Load("nothing"))
  /\ UNCHANGED <<vars, workspace, editor, reads, seen>>

TurnFailed ==
  /\ turnOn
  /\ turnOn' = FALSE
  /\ needed' = reads + 1
  /\ UNCHANGED <<vars, workspace, editor, calls, sent, reads, shown>>

-----------------------------------------------------------------------------
(* A page whose first load has arrived, and another one, say of a thread that
   was chosen, is under way. *)
PageInit ==
  /\ Init
  /\ workspace = doc
  /\ editor \in FirstDocument(doc) \cup (IF FirstDocument(doc) = {} THEN {Empty} ELSE {})
  /\ turnOn = FALSE
  /\ sent = 1 /\ reads = 0 /\ shown = 0 /\ needed = 0
  /\ calls = {CallNo(1, "load", NoItem, NoDoc, NoItem, "nothing")}

PageNext ==
  \/ \E d \in Keys : OpenDocument(d)
  \/ \E r \in Rules : OpenRule(r)
  \/ \E text \in Contents : Type(text)
  \/ Save \/ DeleteItem \/ LoadWorkspace
  \/ \E d \in Keys, text \in Contents : CreateItem(d, text)
  \/ SubmitTurn \/ TurnCompleted \/ TurnFailed
  \/ \E d \in Keys, text \in Contents, i \in RevIds : AgentWrites(d, text, i)
  \/ WrittenElsewhere
  \/ \E c \in calls :
       \/ ServeLoad(c) \/ ServeDelete(c)
       \/ ServeOpen(c)
       \/ \E i \in RevIds : ServeSave(c, i) \/ ServeCreate(c, i)
       \/ LoadArrives(c) \/ WriteArrives(c) \/ OpenArrives(c) \/ CallFails(c)

PageSpec == PageInit /\ [][PageNext]_allVars

-----------------------------------------------------------------------------
(* What is saved as an item was opened as that item: no late answer, switch
   of items or deletion brings one item's text into another. *)
SavesOwnText == \A c \in calls : c.kind = "save" => c.from = c.item

(* Once no call is under way and no turn is running, the page shows the
   documents as they are, unless answers overtook each other, a call or a
   turn failed or another page wrote, and no load was sent since. *)
ShowsTheStore == (calls = {} /\ ~turnOn /\ shown >= needed) => workspace = doc

(* The page saves whatever draft it has over whatever text there is. The text
   that it, or the agent, overwrites is a revision that can be reverted to. *)
OverwrittenIsRecorded ==
  [][\A d \in Keys : doc[d] # NoDoc /\ doc'[d] \notin {doc[d], NoDoc} =>
       \E i \in DOMAIN revs' : revs'[i].doc = d /\ revs'[i].content = doc[d]]_allVars
=============================================================================
