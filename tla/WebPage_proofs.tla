--------------------------- MODULE WebPage_proofs ---------------------------
(***************************************************************************)
(* What the page may count on, for any number of documents, rules, texts   *)
(* and calls under way: it works on the store that DocumentHistory         *)
(* promises, saves no text under another name, and whatever its saves      *)
(* overwrite can be reverted to.                                           *)
(***************************************************************************)
EXTENDS WebPage, DocumentHistory_proofs

Texts == [Keys -> Contents \cup {NoDoc}]
Items == Keys \cup Rules \cup {NoItem}

IsCall(c) ==
  c \in [no : {c.no}, kind : {"load", "save", "delete", "create", "open"}, at : {c.at},
         item : Items, text : Contents \cup {NoDoc}, from : Items, then : {c.then},
         docs : Texts, read : {c.read}]

(* What a call carries was taken from the editor, or from a form, as a whole. *)
CallOK(c) ==
  /\ IsCall(c)
  /\ c.kind \in {"save", "open"} => c.from = c.item
  /\ c.kind = "save" => c.item \in Keys \cup Rules
  /\ c.kind = "save" /\ c.item \in Keys => c.text \in Contents
  /\ c.kind = "open" => c.item \in Rules
  /\ c.kind = "delete" => c.item \in Keys
  /\ c.kind = "create" => c.item \in Keys /\ c.text \in Contents

EditorOK ==
  /\ editor \in [item : Items, draft : Contents \cup {NoDoc}, from : Items]
  /\ editor.from = editor.item
  /\ editor.item \in Keys => editor.draft \in Contents

PageInv ==
  /\ HistoryInv
  /\ workspace \in Texts
  /\ EditorOK
  /\ \A c \in calls : CallOK(c)

-----------------------------------------------------------------------------
(* Every step of the page, the agent or another page is one of the store, or
   leaves the store alone. *)
LEMMA PageStepIsHistoryStep ==
  ASSUME PageInv, PageNext
  PROVE  Next \/ UNCHANGED vars
  <1>1. CASE \E c \in calls, i \in RevIds : ServeSave(c, i)
    <2>1. PICK c \in calls, i \in RevIds : ServeSave(c, i)
      BY <1>1
    <2>2. CallOK(c) /\ c.kind = "save"
      BY <2>1 DEF PageInv, ServeSave
    <2>3. c.item \notin Rules => c.item \in Keys /\ c.text \in Contents
      BY <2>2 DEF CallOK
    <2> QED  BY <2>1, <2>3 DEF ServeSave, Refused, Next
  <1>2. CASE \E c \in calls, i \in RevIds : ServeCreate(c, i)
    <2>1. PICK c \in calls, i \in RevIds : ServeCreate(c, i)
      BY <1>2
    <2>2. c.item \in Keys /\ c.text \in Contents
      BY <2>1 DEF PageInv, ServeCreate, CallOK
    <2> QED  BY <2>1, <2>2 DEF ServeCreate, Refused, Next
  <1>3. CASE \E c \in calls : ServeDelete(c)
    <2>1. PICK c \in calls : ServeDelete(c)
      BY <1>3
    <2>2. c.item \in Keys
      BY <2>1 DEF PageInv, ServeDelete, CallOK
    <2> QED  BY <2>1, <2>2 DEF ServeDelete, Refused, Next
  <1>4. CASE \E d \in Keys, text \in Contents, i \in RevIds : AgentWrites(d, text, i)
    BY <1>4 DEF AgentWrites, Next
  <1>5. CASE WrittenElsewhere
    BY <1>5 DEF WrittenElsewhere
  <1>6. CASE \E c \in calls : \/ ServeLoad(c) \/ ServeOpen(c) \/ LoadArrives(c)
                            \/ WriteArrives(c) \/ OpenArrives(c) \/ CallFails(c)
    BY <1>6 DEF ServeLoad, ServeOpen, LoadArrives, WriteArrives, OpenArrives, CallFails
  <1>7. CASE \/ \E d \in Keys : OpenDocument(d)
             \/ \E r \in Rules : OpenRule(r)
             \/ \E text \in Contents : Type(text)
             \/ Save \/ DeleteItem \/ LoadWorkspace
             \/ \E d \in Keys, text \in Contents : CreateItem(d, text)
             \/ SubmitTurn \/ TurnCompleted \/ TurnFailed
    BY <1>7 DEF OpenDocument, OpenRule, Type, Save, DeleteItem, LoadWorkspace, CreateItem,
                SubmitTurn, TurnCompleted, TurnFailed
  <1> QED  BY <1>1, <1>2, <1>3, <1>4, <1>5, <1>6, <1>7 DEF PageNext

-----------------------------------------------------------------------------
(* New calls and answered ones *)
LEMMA NewCallOK ==
  ASSUME NEW n, NEW kind \in {"load", "save", "delete", "create", "open"}, NEW item \in Items,
         NEW text \in Contents \cup {NoDoc}, NEW from \in Items, NEW then,
         kind \in {"save", "open"} => from = item,
         kind = "save" => item \in Keys \cup Rules,
         kind = "save" /\ item \in Keys => text \in Contents,
         kind = "open" => item \in Rules,
         kind = "delete" => item \in Keys,
         kind = "create" => item \in Keys /\ text \in Contents
  PROVE  CallOK(CallNo(n, kind, item, text, from, then))
  BY DEF CallOK, CallNo, IsCall, Texts

LEMMA AnsweredOK ==
  ASSUME NEW c, CallOK(c), NEW at
  PROVE  CallOK([c EXCEPT !.at = at])
  BY DEF CallOK, IsCall

LEMMA ReadOK ==
  ASSUME NEW c, CallOK(c), NEW at, NEW docs \in Texts, NEW read
  PROVE  CallOK([c EXCEPT !.at = at, !.docs = docs, !.read = read])
  BY DEF CallOK, IsCall

LEMMA EditorAfterOK ==
  ASSUME EditorOK, NEW docs \in Texts, NEW cleared, EditorAfter(docs, cleared)
  PROVE  EditorOK'
  <1>1. Empty.item \notin Keys /\ Empty \in [item : Items, draft : Contents \cup {NoDoc}, from : Items]
        /\ Empty.from = Empty.item
    BY PageAssumption DEF Empty, Items
  <1>2. ASSUME NEW e \in FirstDocument(docs)
        PROVE  /\ e \in [item : Items, draft : Contents \cup {NoDoc}, from : Items]
               /\ e.from = e.item /\ e.draft \in Contents
    BY DEF FirstDocument, Entity, Texts, Items
  <1>3. editor' \in FirstDocument(docs) \cup {Empty} \/ editor' = editor
    BY DEF EditorAfter
  <1> QED  BY <1>1, <1>2, <1>3 DEF EditorOK

(* The calls under way are the old ones, but for one that is done, and a new one. *)
LEMMA CallsStayOK ==
  ASSUME \A c \in calls : CallOK(c), NEW rest \in SUBSET calls, NEW c, CallOK(c), Send(rest, c)
  PROVE  \A x \in calls' : CallOK(x)
  BY DEF Send

LEMMA LoadOK ==
  ASSUME NEW then
  PROVE  CallOK(Load(then))
  BY NewCallOK DEF Load, Call, Items

LEMMA UserKeepsInv ==
  ASSUME PageInv,
         \/ \E d \in Keys : OpenDocument(d)
         \/ \E r \in Rules : OpenRule(r)
         \/ \E text \in Contents : Type(text)
         \/ Save \/ DeleteItem \/ LoadWorkspace
         \/ \E d \in Keys, text \in Contents : CreateItem(d, text)
         \/ SubmitTurn \/ TurnCompleted \/ TurnFailed
  PROVE  /\ workspace' = workspace /\ EditorOK'
         /\ \A c \in calls' : CallOK(c)
  <1>1. ASSUME NEW d \in Keys, OpenDocument(d)
        PROVE  workspace' = workspace /\ EditorOK' /\ \A c \in calls' : CallOK(c)
    <2>1. workspace[d] \in Contents
      BY <1>1 DEF PageInv, OpenDocument, Shown, Texts
    <2> QED  BY <1>1, <2>1 DEF PageInv, OpenDocument, EditorOK, Entity, Items
  <1>2. ASSUME NEW r \in Rules, OpenRule(r)
        PROVE  workspace' = workspace /\ EditorOK' /\ \A c \in calls' : CallOK(c)
    <2>1. CallOK(Call("open", r, NoDoc, r, "nothing"))
      BY NewCallOK DEF Call, Items
    <2>2. \A c \in calls' : CallOK(c)
      BY <1>2, <2>1, CallsStayOK DEF PageInv, OpenRule
    <2> QED  BY <1>2, <2>2 DEF PageInv, OpenRule, screen, EditorOK
  <1>3. ASSUME NEW text \in Contents, Type(text)
        PROVE  workspace' = workspace /\ EditorOK' /\ \A c \in calls' : CallOK(c)
    BY <1>3 DEF PageInv, Type, EditorOK
  <1>4. CASE Save
    <2>1. /\ editor.item \in Keys \cup Rules /\ editor.from = editor.item
          /\ editor.draft \in Contents \cup {NoDoc}
          /\ editor.item \in Keys => editor.draft \in Contents
      BY <1>4 DEF PageInv, EditorOK, Save, Items
    <2>2. PICK item \in Keys \cup Rules, draft \in Contents \cup {NoDoc} :
            item = editor.item /\ draft = editor.draft
      BY <2>1
    <2>3. PICK n : n = FreeNumber
      OBVIOUS
    <2>4. CallOK(CallNo(n, "save", item, draft, item, "saved"))
      BY <2>1, <2>2, NewCallOK DEF Items
    <2>5. Send(calls, CallNo(n, "save", item, draft, item, "saved"))
      BY <1>4, <2>1, <2>2, <2>3 DEF Save, Call
    <2>6. \A c \in calls' : CallOK(c)
      BY <2>4, <2>5 DEF Send, PageInv
    <2> QED  BY <1>4, <2>6 DEF PageInv, Save, screen, EditorOK
  <1>5. CASE DeleteItem
    <2>1. PICK item \in Keys : item = editor.item
      BY <1>5 DEF DeleteItem
    <2>2. PICK n : n = FreeNumber
      OBVIOUS
    <2>3. CallOK(CallNo(n, "delete", item, NoDoc, NoItem, "deleted"))
      BY NewCallOK DEF Items
    <2>4. Send(calls, CallNo(n, "delete", item, NoDoc, NoItem, "deleted"))
      BY <1>5, <2>1, <2>2 DEF DeleteItem, Call
    <2>5. \A c \in calls' : CallOK(c)
      BY <2>3, <2>4 DEF Send, PageInv
    <2> QED  BY <1>5, <2>5 DEF PageInv, DeleteItem, screen, EditorOK
  <1>6. CASE LoadWorkspace
    <2>1. \A c \in calls' : CallOK(c)
      BY <1>6, LoadOK DEF PageInv, LoadWorkspace, Send
    <2> QED  BY <1>6, <2>1 DEF PageInv, LoadWorkspace, screen, EditorOK
  <1>7. ASSUME NEW d \in Keys, NEW text \in Contents, CreateItem(d, text)
        PROVE  workspace' = workspace /\ EditorOK' /\ \A c \in calls' : CallOK(c)
    <2>1. CallOK(Call("create", d, text, d, "nothing"))
      BY NewCallOK DEF Call, Items
    <2>2. \A c \in calls' : CallOK(c)
      BY <1>7, <2>1, CallsStayOK DEF PageInv, CreateItem
    <2> QED  BY <1>7, <2>2 DEF PageInv, CreateItem, screen, EditorOK
  <1>8. CASE TurnCompleted
    <2>1. \A c \in calls' : CallOK(c)
      BY <1>8, LoadOK DEF PageInv, TurnCompleted, Send
    <2> QED  BY <1>8, <2>1 DEF PageInv, TurnCompleted, EditorOK
  <1>9. CASE SubmitTurn \/ TurnFailed
    BY <1>9 DEF PageInv, SubmitTurn, TurnFailed, EditorOK
  <1> QED  BY <1>1, <1>2, <1>3, <1>4, <1>5, <1>6, <1>7, <1>8, <1>9

LEMMA ServerKeepsInv ==
  ASSUME PageInv, NEW c \in calls,
         \/ ServeLoad(c) \/ ServeDelete(c) \/ ServeOpen(c)
         \/ \E i \in RevIds : ServeSave(c, i) \/ ServeCreate(c, i)
  PROVE  /\ workspace' = workspace /\ EditorOK'
         /\ \A x \in calls' : CallOK(x)
  <1>1. CallOK(c) /\ doc \in Texts
    BY DEF PageInv, HistoryInv, TypeOK, Texts
  <1>2. CASE ServeLoad(c)
    <2>1. PICK docs, read : docs \in Texts /\ docs = doc /\ read = reads + 1
      BY <1>1
    <2>2. calls' = (calls \ {c}) \cup {[c EXCEPT !.at = "done", !.docs = docs, !.read = read]}
      BY <1>2, <2>1 DEF ServeLoad
    <2>3. CallOK([c EXCEPT !.at = "done", !.docs = docs, !.read = read])
      BY <1>1, <2>1, ReadOK
    <2>4. \A x \in calls' : CallOK(x)
      BY <2>2, <2>3, Zenon DEF PageInv
    <2> QED  BY <1>2, <2>4 DEF PageInv, ServeLoad, screen, EditorOK
  <1>3. CASE ~ServeLoad(c)
    <2>1. /\ Answered(c, "done") \/ Answered(c, "refused")
          /\ UNCHANGED screen
      BY <1>3 DEF ServeDelete, ServeOpen, ServeSave, ServeCreate, Refused
    <2>2. \A x \in calls' : CallOK(x)
      BY <1>1, <2>1, AnsweredOK DEF PageInv, Answered
    <2> QED  BY <2>1, <2>2 DEF PageInv, screen, EditorOK
  <1> QED  BY <1>2, <1>3

LEMMA ArrivalKeepsInv ==
  ASSUME PageInv, NEW c \in calls,
         LoadArrives(c) \/ WriteArrives(c) \/ OpenArrives(c) \/ CallFails(c)
  PROVE  /\ workspace' \in Texts /\ EditorOK'
         /\ \A x \in calls' : CallOK(x)
  <1>1. CallOK(c)
    BY DEF PageInv
  <1>2. CASE LoadArrives(c)
    <2>1. c.docs \in Texts
      BY <1>1 DEF CallOK, IsCall
    <2>2. EditorOK'
      BY <1>2, <2>1, EditorAfterOK DEF PageInv, LoadArrives
    <2> QED  BY <1>2, <2>1, <2>2 DEF PageInv, LoadArrives
  <1>3. CASE WriteArrives(c)
    <2>1. calls' \subseteq calls \/ \E then : calls' = (calls \ {c}) \cup {Load(then)}
      BY <1>3 DEF WriteArrives, Send
    <2>2. \A x \in calls' : CallOK(x)
      BY <2>1, LoadOK DEF PageInv
    <2> QED  BY <1>3, <2>2 DEF PageInv, WriteArrives, screen, EditorOK
  <1>4. CASE OpenArrives(c)
    <2>1. c.item \in Rules /\ c.from = c.item /\ c.text \in Contents \cup {NoDoc} /\ c.item \notin Keys
      BY <1>1, <1>4, PageAssumption DEF OpenArrives, CallOK, IsCall
    <2> QED  BY <1>4, <2>1 DEF PageInv, OpenArrives, EditorOK, Items
  <1>5. CASE CallFails(c)
    <2>1. PICK docs, cleared :
            docs \in Texts /\ docs = workspace /\ cleared = (c.kind = "load" /\ c.then = "deleted")
      BY DEF PageInv
    <2>2. EditorAfter(docs, cleared)
      BY <1>5, <2>1 DEF CallFails
    <2>3. EditorOK'
      BY <2>1, <2>2, EditorAfterOK DEF PageInv
    <2> QED  BY <1>5, <2>3 DEF PageInv, CallFails
  <1> QED  BY <1>2, <1>3, <1>4, <1>5

LEMMA PageNextKeepsInv == PageInv /\ [PageNext]_allVars => PageInv'
  <1> SUFFICES ASSUME PageInv, [PageNext]_allVars PROVE PageInv'
    OBVIOUS
  <1>1. HistoryInv'
    <2>1. Next \/ UNCHANGED vars
      BY PageStepIsHistoryStep DEF allVars
    <2> QED  BY <2>1, NextKeepsInv DEF PageInv
  <1>2. workspace' \in Texts /\ EditorOK' /\ \A c \in calls' : CallOK(c)
    <2>1. CASE \E c \in calls : LoadArrives(c) \/ WriteArrives(c) \/ OpenArrives(c) \/ CallFails(c)
      BY <2>1, ArrivalKeepsInv
    <2>2. CASE \E c \in calls :
                 \/ ServeLoad(c) \/ ServeDelete(c) \/ ServeOpen(c)
                 \/ \E i \in RevIds : ServeSave(c, i) \/ ServeCreate(c, i)
      BY <2>2, ServerKeepsInv DEF PageInv
    <2>3. CASE \/ \E d \in Keys : OpenDocument(d)
               \/ \E r \in Rules : OpenRule(r)
               \/ \E text \in Contents : Type(text)
               \/ Save \/ DeleteItem \/ LoadWorkspace
               \/ \E d \in Keys, text \in Contents : CreateItem(d, text)
               \/ SubmitTurn \/ TurnCompleted \/ TurnFailed
      BY <2>3, UserKeepsInv DEF PageInv
    <2>4. CASE \/ WrittenElsewhere \/ UNCHANGED allVars
               \/ \E d \in Keys, text \in Contents, i \in RevIds : AgentWrites(d, text, i)
      BY <2>4 DEF PageInv, WrittenElsewhere, AgentWrites, allVars, pageVars, screen, EditorOK
    <2> QED  BY <2>1, <2>2, <2>3, <2>4 DEF PageNext
  <1> QED  BY <1>1, <1>2 DEF PageInv

LEMMA PageInitHasInv == PageInit => PageInv
  <1> SUFFICES ASSUME PageInit PROVE PageInv
    OBVIOUS
  <1>1. HistoryInv /\ doc \in Texts
    BY InitHasInv DEF PageInit, HistoryInv, TypeOK, Texts
  <1>2. EditorOK
    <2>1. editor \in FirstDocument(doc) \cup {Empty}
      BY DEF PageInit
    <2>2. CASE editor = Empty
      BY <2>2, PageAssumption DEF EditorOK, Empty, Items
    <2>3. CASE editor \in FirstDocument(doc)
      BY <1>1, <2>3 DEF EditorOK, FirstDocument, Entity, Texts, Items
    <2> QED  BY <2>1, <2>2, <2>3
  <1>3. \A c \in calls : CallOK(c)
    <2>1. CallOK(CallNo(1, "load", NoItem, NoDoc, NoItem, "nothing"))
      BY NewCallOK DEF Items
    <2> QED  BY <2>1 DEF PageInit
  <1> QED  BY <1>1, <1>2, <1>3 DEF PageInv, PageInit

-----------------------------------------------------------------------------
(* The page sees the store that DocumentHistory promises: nothing it does, in
   whatever order its calls are served, is more than a request there. *)
THEOREM PageWorksOnHistory == PageSpec => Spec
  <1>1. PageInit => Init
    BY DEF PageInit
  <1>2. PageInv /\ [PageNext]_allVars => [Next]_vars
    BY PageStepIsHistoryStep DEF allVars
  <1> QED  BY <1>1, <1>2, PageInitHasInv, PageNextKeepsInv, PTL DEF PageSpec, Spec

(* What is saved as an item was opened as that item, for any number of items
   and calls under way. *)
THEOREM SavesUnderOwnName == PageSpec => []SavesOwnText
  <1>1. PageInv => SavesOwnText
    BY DEF PageInv, CallOK, SavesOwnText
  <1> QED  BY <1>1, PageInitHasInv, PageNextKeepsInv, PTL DEF PageSpec

(* The head of a document has its text; a request appends, or deletes the
   document and all that belongs to it. *)
LEMMA OverwrittenStays ==
  ASSUME PageInv, [PageNext]_allVars, NEW d \in Keys, doc[d] # NoDoc,
         doc'[d] \notin {doc[d], NoDoc}
  PROVE  \E i \in DOMAIN revs' : revs'[i].doc = d /\ revs'[i].content = doc[d]
  <1>1. head[d] \in DOMAIN revs /\ revs[head[d]].doc = d /\ revs[head[d]].content = doc[d]
    BY DEF PageInv, HistoryInv, LinksStayInDocument, HeadMatchesDocument, Live, RevsOf
  <1>2. Next
    BY PageStepIsHistoryStep DEF allVars, vars
  <1>3. HistoryInv
    BY DEF PageInv
  <1>4. CASE \E D \in SUBSET Keys : Appends(D)
    BY <1>1, <1>4 DEF Appends
  <1>5. CASE \E e \in Keys : Delete(e)
    BY <1>3, <1>5 DEF Delete, HistoryInv, TypeOK
  <1> QED  BY <1>2, <1>3, <1>4, <1>5, NextAppendsOrDeletes

(* No text is lost that the page or the agent overwrites. *)
THEOREM NothingOverwrittenIsLost == PageSpec => OverwrittenIsRecorded
  <1>1. PageInv /\ [PageNext]_allVars =>
          [\A d \in Keys : doc[d] # NoDoc /\ doc'[d] \notin {doc[d], NoDoc} =>
             \E i \in DOMAIN revs' : revs'[i].doc = d /\ revs'[i].content = doc[d]]_allVars
    BY OverwrittenStays
  <1> QED  BY <1>1, PageInitHasInv, PageNextKeepsInv, PTL DEF PageSpec, OverwrittenIsRecorded
-----------------------------------------------------------------------------
(* What the page shows. The reads of the server are numbered, so that what is
   on its way is known from what has been overtaken. *)
DoneLoads == {c \in calls : c.kind = "load" /\ c.at = "done"}

ReadsInv ==
  /\ reads \in Nat /\ shown \in Nat /\ needed \in Nat
  /\ shown <= reads /\ shown <= needed
  /\ \A c \in DoneLoads : c.read \in 1..reads /\ c.read # shown
  /\ \A c, e \in DoneLoads : c.read = e.read => c = e

(* Why the page need not show the documents as they are: the turn runs, a load
   is sent or will be, or is on its way with them; or it knows itself late, and
   no answer on its way makes it believe otherwise. *)
LoadIsSent == \E c \in calls : c.kind = "load" /\ c.at = "sent"
WriteIsDone ==
  \E c \in calls : c.kind \in {"save", "delete", "create"} /\ c.at = "done" /\ c.item \notin Rules
LatestIsComing == \E c \in DoneLoads : c.read = reads /\ c.docs = doc
LatestIsShown == shown = reads /\ workspace = doc
KnowsItIsLate == shown < needed /\ \A c \in DoneLoads : c.read < needed

Explained ==
  turnOn \/ LoadIsSent \/ WriteIsDone \/ LatestIsComing \/ LatestIsShown \/ KnowsItIsLate

ShowsInv == PageInv /\ ReadsInv /\ Explained

(* The calls that Explained speaks of. *)
Watched ==
  {c \in calls : \/ c.kind = "load" /\ c.at \in {"sent", "done"}
                 \/ c.kind \in {"save", "delete", "create"} /\ c.at = "done" /\ c.item \notin Rules}

LEMMA ReadsStay ==
  ASSUME ReadsInv, UNCHANGED <<reads, shown>>, needed' \in Nat, needed <= needed',
         DoneLoads' \subseteq DoneLoads
  PROVE  ReadsInv'
  BY DEF ReadsInv

(* A step that takes none of these calls away. *)
LEMMA QuietStep ==
  ASSUME ReadsInv, Explained, UNCHANGED <<reads, shown, needed, workspace, doc>>,
         turnOn => turnOn', Watched \subseteq Watched', DoneLoads' \subseteq DoneLoads
  PROVE  ReadsInv' /\ Explained'
  <1>1. ReadsInv'
    BY ReadsStay DEF ReadsInv
  <1>2. LoadIsSent => LoadIsSent'
    BY DEF LoadIsSent, Watched
  <1>3. WriteIsDone => WriteIsDone'
    <2>1. ASSUME NEW c \in calls, c.kind \in {"save", "delete", "create"}, c.at = "done",
                 c.item \notin Rules
          PROVE  c \in calls'
      BY <2>1 DEF Watched
    <2> QED  BY <2>1 DEF WriteIsDone
  <1>4. LatestIsComing => LatestIsComing'
    BY DEF LatestIsComing, Watched, DoneLoads
  <1>5. LatestIsShown => LatestIsShown'
    BY DEF LatestIsShown
  <1>6. KnowsItIsLate => KnowsItIsLate'
    BY DEF KnowsItIsLate
  <1> QED  BY <1>1, <1>2, <1>3, <1>4, <1>5, <1>6 DEF Explained

(* A step after which a load, or what leads to one, is under way. *)
LEMMA LoadFollows ==
  ASSUME ReadsInv, UNCHANGED <<reads, shown, needed>>, DoneLoads' \subseteq DoneLoads,
         turnOn' \/ LoadIsSent' \/ WriteIsDone'
  PROVE  ReadsInv' /\ Explained'
  BY ReadsStay DEF ReadsInv, Explained

(* A step of which the page would have to be told. *)
LEMMA PageIsLate ==
  ASSUME ReadsInv, UNCHANGED <<reads, shown>>, needed' = reads + 1,
         DoneLoads' \subseteq DoneLoads
  PROVE  ReadsInv' /\ Explained'
  <1>1. /\ needed' \in Nat /\ shown < needed'
        /\ \A c \in DoneLoads : c.read < needed'
    BY DEF ReadsInv
  <1>2. ReadsInv'
    BY <1>1 DEF ReadsInv
  <1>3. KnowsItIsLate'
    BY <1>1 DEF KnowsItIsLate
  <1> QED  BY <1>2, <1>3 DEF Explained

(* Calls that are sent are none of these but the loads, and not done. *)
LEMMA SendingTakesNone ==
  ASSUME NEW n, NEW kind, NEW item, NEW text, NEW from, NEW then, NEW rest \in SUBSET calls,
         Send(rest, CallNo(n, kind, item, text, from, then))
  PROVE  /\ DoneLoads' \subseteq DoneLoads
         /\ rest = calls => Watched \subseteq Watched'
         /\ kind = "load" => LoadIsSent'
  <1>1. PICK e : e = CallNo(n, kind, item, text, from, then)
    OBVIOUS
  <1>2. calls' = rest \cup {e}
    BY <1>1 DEF Send
  <1>3. e.kind = kind /\ e.at = "sent"
    BY <1>1 DEF CallNo
  <1>4. DoneLoads' \subseteq DoneLoads
    BY <1>2, <1>3 DEF DoneLoads
  <1>5. rest = calls => Watched \subseteq Watched'
    BY <1>2 DEF Watched
  <1>6. kind = "load" => LoadIsSent'
    BY <1>2, <1>3 DEF LoadIsSent
  <1> QED  BY <1>4, <1>5, <1>6

LEMMA UserShowsTheStore ==
  ASSUME ShowsInv,
         \/ \E d \in Keys : OpenDocument(d)
         \/ \E r \in Rules : OpenRule(r)
         \/ \E text \in Contents : Type(text)
         \/ Save \/ DeleteItem \/ LoadWorkspace
         \/ \E d \in Keys, text \in Contents : CreateItem(d, text)
         \/ SubmitTurn \/ TurnCompleted \/ TurnFailed
  PROVE  ReadsInv' /\ Explained'
  <1>1. ReadsInv /\ Explained
    BY DEF ShowsInv
  <1>2. CASE \/ \E d \in Keys : OpenDocument(d)
             \/ \E text \in Contents : Type(text)
             \/ SubmitTurn
    <2>1. /\ UNCHANGED <<reads, shown, needed, workspace, doc, calls>> /\ (turnOn => turnOn')
      BY <1>2 DEF OpenDocument, Type, SubmitTurn, seen, vars
    <2>2. Watched' = Watched /\ DoneLoads' = DoneLoads
      BY <2>1 DEF Watched, DoneLoads
    <2> QED  BY <1>1, <2>1, <2>2, QuietStep
  <1>3. CASE \/ \E r \in Rules : OpenRule(r)
             \/ Save \/ DeleteItem \/ LoadWorkspace
             \/ \E d \in Keys, text \in Contents : CreateItem(d, text)
    <2>1. UNCHANGED <<reads, shown, needed, workspace, doc, turnOn>>
      BY <1>3 DEF OpenRule, Save, DeleteItem, LoadWorkspace, CreateItem, screen, seen, vars
    <2>2. \E n, kind, item, text, from, then :
            Send(calls, CallNo(n, kind, item, text, from, then))
      BY <1>3 DEF OpenRule, Save, DeleteItem, LoadWorkspace, CreateItem, Load, Call
    <2>3. Watched \subseteq Watched' /\ DoneLoads' \subseteq DoneLoads
      BY <2>2, SendingTakesNone
    <2> QED  BY <1>1, <2>1, <2>3, QuietStep
  <1>4. CASE TurnCompleted
    <2>1. /\ UNCHANGED <<reads, shown, needed>>
          /\ Send(calls, CallNo(FreeNumber, "load", NoItem, NoDoc, NoItem, "nothing"))
      BY <1>4 DEF TurnCompleted, Load, Call, seen
    <2>2. DoneLoads' \subseteq DoneLoads /\ LoadIsSent'
      BY <2>1, SendingTakesNone
    <2> QED  BY <1>1, <2>1, <2>2, LoadFollows
  <1>5. CASE TurnFailed
    <2>1. UNCHANGED <<reads, shown, calls>> /\ needed' = reads + 1
      BY <1>5 DEF TurnFailed
    <2>2. DoneLoads' = DoneLoads
      BY <2>1 DEF DoneLoads
    <2> QED  BY <1>1, <2>1, <2>2, PageIsLate
  <1> QED  BY <1>2, <1>3, <1>4, <1>5

(* A load that is served now brings what is there now. *)
LEMMA ServedLoadIsLatest ==
  ASSUME ShowsInv, NEW c \in calls, ServeLoad(c)
  PROVE  ReadsInv' /\ Explained'
  <1>1. PICK docs, read : docs = doc /\ read = reads + 1
    OBVIOUS
  <1>2. PICK e : e = [c EXCEPT !.at = "done", !.docs = docs, !.read = read]
    OBVIOUS
  <1>3. /\ UNCHANGED <<doc, workspace, shown, needed>> /\ reads' = read
        /\ calls' = (calls \ {c}) \cup {e}
    BY <1>1, <1>2 DEF ServeLoad, vars, screen, seen
  <1>4. e.kind = "load" /\ e.at = "done" /\ e.docs = docs /\ e.read = read
    BY <1>2 DEF ServeLoad, ShowsInv, PageInv, CallOK, IsCall
  <1>5. DoneLoads' \subseteq DoneLoads \cup {e} /\ e \in DoneLoads'
    BY <1>3, <1>4 DEF DoneLoads
  <1>6. /\ reads \in Nat /\ shown \in Nat /\ needed \in Nat /\ shown <= reads /\ shown <= needed
        /\ \A x \in DoneLoads : x.read \in 1..reads /\ x.read # shown
        /\ \A x, y \in DoneLoads : x.read = y.read => x = y
    BY DEF ShowsInv, ReadsInv
  <1>7. ReadsInv'
    <2>1. /\ reads' \in Nat /\ shown' \in Nat /\ needed' \in Nat
          /\ shown' <= reads' /\ shown' <= needed'
      BY <1>1, <1>3, <1>6
    <2>2. \A x \in DoneLoads' : x.read \in 1..reads' /\ x.read # shown'
      BY <1>1, <1>3, <1>4, <1>5, <1>6
    <2>3. \A x \in DoneLoads : x.read # read
      BY <1>1, <1>6
    <2>4. \A x, y \in DoneLoads' : x.read = y.read => x = y
      BY <1>4, <1>5, <1>6, <2>3
    <2> QED  BY <2>1, <2>2, <2>4 DEF ReadsInv
  <1>8. LatestIsComing'
    BY <1>1, <1>3, <1>4, <1>5 DEF LatestIsComing
  <1> QED  BY <1>7, <1>8 DEF Explained

LEMMA ServerShowsTheStore ==
  ASSUME ShowsInv, NEW c \in calls,
         \/ ServeDelete(c) \/ ServeOpen(c)
         \/ \E i \in RevIds : ServeSave(c, i) \/ ServeCreate(c, i)
  PROVE  ReadsInv' /\ Explained'
  <1>1. /\ ReadsInv /\ Explained
        /\ UNCHANGED <<reads, shown, needed, workspace, turnOn>>
        /\ c.kind # "load" /\ c.at = "sent"
    BY DEF ShowsInv, ServeDelete, ServeOpen, ServeSave, ServeCreate, screen, seen
  <1>2. PICK at : /\ Answered(c, at)
                  /\ \/ UNCHANGED doc
                     \/ /\ at = "done" /\ c.item \notin Rules
                        /\ c.kind \in {"save", "delete", "create"}
    <2>1. c.kind \in {"delete", "create"} => c.item \notin Rules
      BY PageAssumption DEF ShowsInv, PageInv, CallOK
    <2> QED  BY <2>1 DEF ServeDelete, ServeOpen, ServeSave, ServeCreate, Refused, vars
  <1>3. PICK x : x = [c EXCEPT !.at = at]
    OBVIOUS
  <1>4. calls' = (calls \ {c}) \cup {x}
    BY <1>2, <1>3 DEF Answered
  <1>5. x.kind = c.kind /\ x.item = c.item /\ x.at = at
    BY <1>3 DEF ShowsInv, PageInv, CallOK, IsCall
  <1>6. DoneLoads' \subseteq DoneLoads /\ Watched \subseteq Watched'
    BY <1>1, <1>4, <1>5 DEF DoneLoads, Watched
  <1>7. CASE UNCHANGED doc
    BY <1>1, <1>6, <1>7, QuietStep
  <1>8. CASE at = "done" /\ c.item \notin Rules /\ c.kind \in {"save", "delete", "create"}
    <2>1. WriteIsDone'
      BY <1>4, <1>5, <1>8 DEF WriteIsDone
    <2> QED  BY <1>1, <1>6, <2>1, LoadFollows
  <1> QED  BY <1>2, <1>7, <1>8

(* An answer that was overtaken leaves the page knowing that it is late. *)
LEMMA ArrivedLoadIsExplained ==
  ASSUME ShowsInv, NEW c \in calls, LoadArrives(c)
  PROVE  ReadsInv' /\ Explained'
  <1>1. /\ workspace' = c.docs /\ shown' = c.read /\ calls' = calls \ {c}
        /\ needed' = (IF needed < c.read THEN c.read ELSE needed)
        /\ UNCHANGED <<doc, turnOn, reads>> /\ c \in DoneLoads
    BY DEF LoadArrives, vars, DoneLoads
  <1>2. /\ reads \in Nat /\ shown \in Nat /\ needed \in Nat /\ shown <= reads /\ shown <= needed
        /\ \A x \in DoneLoads : x.read \in 1..reads /\ x.read # shown
        /\ \A x, y \in DoneLoads : x.read = y.read => x = y
    BY DEF ShowsInv, ReadsInv
  <1>3. DoneLoads' = DoneLoads \ {c}
    BY <1>1 DEF DoneLoads
  <1>4. /\ c.read \in 1..reads /\ needed' \in Nat /\ needed <= needed' /\ c.read <= needed'
        /\ needed' = needed \/ needed' = c.read
    BY <1>1, <1>2
  <1>5. ReadsInv'
    BY <1>1, <1>2, <1>3, <1>4 DEF ReadsInv
  <1>6. CASE turnOn
    BY <1>1, <1>5, <1>6 DEF Explained
  <1>7. CASE LoadIsSent
    BY <1>1, <1>5, <1>7 DEF Explained, LoadIsSent, DoneLoads
  <1>8. CASE WriteIsDone
    <2>1. WriteIsDone'
      BY <1>1, <1>8 DEF WriteIsDone, DoneLoads
    <2> QED  BY <1>5, <2>1 DEF Explained
  <1>9. CASE LatestIsComing
    <2>1. PICK e \in DoneLoads : e.read = reads /\ e.docs = doc
      BY <1>9 DEF LatestIsComing
    <2>2. CASE e = c
      BY <1>1, <1>5, <2>1, <2>2 DEF LatestIsShown, Explained
    <2>3. CASE e # c
      BY <1>1, <1>3, <1>5, <2>1, <2>3 DEF LatestIsComing, Explained
    <2> QED  BY <2>2, <2>3
  <1>10. CASE LatestIsShown \/ KnowsItIsLate
    <2>1. \A x \in DoneLoads : x.read < needed
      BY <1>2, <1>10 DEF LatestIsShown, KnowsItIsLate
    <2>2. KnowsItIsLate'
      BY <1>1, <1>2, <1>3, <1>4, <2>1 DEF KnowsItIsLate
    <2> QED  BY <1>5, <2>2 DEF Explained
  <1> QED  BY <1>6, <1>7, <1>8, <1>9, <1>10 DEF ShowsInv, Explained

LEMMA ArrivalShowsTheStore ==
  ASSUME ShowsInv, NEW c \in calls, WriteArrives(c) \/ OpenArrives(c) \/ CallFails(c)
  PROVE  ReadsInv' /\ Explained'
  <1>1. ReadsInv /\ Explained
    BY DEF ShowsInv
  <1>2. CASE CallFails(c)
    <2>1. UNCHANGED <<reads, shown>> /\ needed' = reads + 1 /\ calls' = calls \ {c}
      BY <1>2 DEF CallFails
    <2>2. DoneLoads' \subseteq DoneLoads
      BY <2>1 DEF DoneLoads
    <2> QED  BY <1>1, <2>1, <2>2, PageIsLate
  <1>3. CASE WriteArrives(c) /\ c.item \notin Rules
    <2>1. /\ UNCHANGED <<reads, shown, needed>> /\ c \notin DoneLoads
          /\ Send(calls \ {c}, CallNo(FreeNumber, "load", NoItem, NoDoc, NoItem, c.then))
      BY <1>3 DEF WriteArrives, Load, Call, seen, DoneLoads
    <2>2. DoneLoads' \subseteq DoneLoads /\ LoadIsSent'
      BY <2>1, SendingTakesNone
    <2> QED  BY <1>1, <2>1, <2>2, LoadFollows
  <1>4. CASE OpenArrives(c) \/ (WriteArrives(c) /\ c.item \in Rules)
    <2>1. /\ UNCHANGED <<reads, shown, needed, workspace, doc, turnOn>>
          /\ calls' = calls \ {c} /\ c \notin Watched
      BY <1>4 DEF OpenArrives, WriteArrives, seen, screen, vars, Watched
    <2>2. Watched \subseteq Watched' /\ DoneLoads' \subseteq DoneLoads
      BY <2>1 DEF Watched, DoneLoads
    <2> QED  BY <1>1, <2>1, <2>2, QuietStep
  <1> QED  BY <1>2, <1>3, <1>4

LEMMA OthersShowTheStore ==
  ASSUME ShowsInv,
         \/ WrittenElsewhere \/ UNCHANGED allVars
         \/ \E d \in Keys, text \in Contents, i \in RevIds : AgentWrites(d, text, i)
  PROVE  ReadsInv' /\ Explained'
  <1>1. ReadsInv /\ Explained
    BY DEF ShowsInv
  <1>2. UNCHANGED <<reads, shown, calls>>
    BY DEF WrittenElsewhere, AgentWrites, allVars, pageVars, seen
  <1>3. DoneLoads' = DoneLoads /\ Watched' = Watched
    BY <1>2 DEF DoneLoads, Watched
  <1>4. CASE WrittenElsewhere
    BY <1>1, <1>2, <1>3, <1>4, PageIsLate DEF WrittenElsewhere
  <1>5. CASE \E d \in Keys, text \in Contents, i \in RevIds : AgentWrites(d, text, i)
    <2>1. turnOn' /\ UNCHANGED needed
      BY <1>5 DEF AgentWrites, pageVars, seen, screen
    <2> QED  BY <1>1, <1>2, <1>3, <2>1, LoadFollows
  <1>6. CASE UNCHANGED allVars
    <2>1. UNCHANGED <<needed, workspace, doc, turnOn>>
      BY <1>6 DEF allVars, pageVars, seen, screen, vars
    <2> QED  BY <1>1, <1>2, <1>3, <2>1, QuietStep
  <1> QED  BY <1>4, <1>5, <1>6

LEMMA PageNextKeepsShows == ShowsInv /\ [PageNext]_allVars => ShowsInv'
  <1> SUFFICES ASSUME ShowsInv, [PageNext]_allVars PROVE ShowsInv'
    OBVIOUS
  <1>1. PageInv'
    BY PageNextKeepsInv DEF ShowsInv
  <1>2. ReadsInv' /\ Explained'
    BY UserShowsTheStore, ServedLoadIsLatest, ServerShowsTheStore, ArrivedLoadIsExplained,
       ArrivalShowsTheStore, OthersShowTheStore DEF PageNext
  <1> QED  BY <1>1, <1>2 DEF ShowsInv

LEMMA PageInitHasShows == PageInit => ShowsInv
  <1> SUFFICES ASSUME PageInit PROVE ShowsInv
    OBVIOUS
  <1>1. DoneLoads = {}
    BY DEF PageInit, DoneLoads, CallNo
  <1>2. ReadsInv
    BY <1>1 DEF PageInit, ReadsInv
  <1>3. LatestIsShown
    BY DEF PageInit, LatestIsShown
  <1> QED  BY <1>2, <1>3, PageInitHasInv DEF ShowsInv, Explained

(* With nothing under way, the page shows the documents as they are, or knows
   that it may not: for any number of calls, in whatever order they are served
   and answered (loadWorkspace, the handlers that call it). *)
THEOREM PageShowsTheStore == PageSpec => []ShowsTheStore
  <1>1. ShowsInv => ShowsTheStore
    <2> SUFFICES ASSUME ShowsInv, calls = {}, ~turnOn, shown >= needed
                 PROVE  workspace = doc
      BY DEF ShowsTheStore
    <2>1. ~LoadIsSent /\ ~WriteIsDone /\ ~LatestIsComing
      BY DEF LoadIsSent, WriteIsDone, LatestIsComing, DoneLoads
    <2>2. ~KnowsItIsLate
      BY DEF KnowsItIsLate, ShowsInv, ReadsInv
    <2> QED  BY <2>1, <2>2 DEF ShowsInv, Explained, LatestIsShown
  <1> QED  BY <1>1, PageInitHasShows, PageNextKeepsShows, PTL DEF PageSpec
=============================================================================
