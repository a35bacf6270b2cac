-------------------------- MODULE DocumentTx_proofs --------------------------
(***************************************************************************)
(* Overlapping requests of DocumentTx, for any documents, texts, requests: *)
(* what holds for all kinds of request, and, when the requests only        *)
(* create, update and delete, the refinement of DocumentHistory.           *)
(***************************************************************************)
EXTENDS DocumentTx, TLAPS

(* The invariants proved for requests that run one at a time. *)
Serial == INSTANCE DocumentHistory_proofs

SessionsTyped ==
  /\ docLock \in [Keys -> Requests \cup {None}]
  /\ headLock \in [Keys -> Requests \cup {None}]
  /\ pc \in [Requests -> {"start"} \cup Running \cup Ended]
  /\ tx \in [Requests -> Transaction]

(* What a request must not spoil for the others: the texts it is about to
   write are texts, it has committed no revision before it ends well, and it
   holds heads only while it writes. *)
Safe(r) ==
  /\ pc[r] \in {"insert", "lock", "heads", "write"} =>
       \A d \in tx[r].keys : tx[r].text[d] \in Contents
  /\ pc[r] # "ok" => \A d \in Keys : <<r, d>> \notin DOMAIN revs
  /\ \A d \in Keys : headLock[d] = r => pc[r] = "write"

(* The inductive invariant for all kinds of request. *)
TxInv == TypeOK /\ \A r \in Requests : Safe(r)

-----------------------------------------------------------------------------
(* A step of request r leaves the sessions of the others alone. *)
OthersUntouched(r) ==
  \A o \in Requests \ {r} :
    /\ pc'[o] = pc[o] /\ tx'[o] = tx[o]
    /\ \A d \in Keys : /\ docLock'[d] = o <=> docLock[d] = o
                       /\ headLock'[d] = o <=> headLock[d] = o

(* The revisions that a step adds are those of a request that ends well. *)
AddsOnlyOwn(r) ==
  \A i \in DOMAIN revs' : i \in DOMAIN revs \/ (pc'[r] = "ok" /\ \E d \in Keys : i = <<r, d>>)

LEMMA OthersStaySafe ==
  ASSUME NEW r \in Requests, OthersUntouched(r), AddsOnlyOwn(r),
         NEW o \in Requests \ {r}, Safe(o)
  PROVE  Safe(o)'
  BY DEF OthersUntouched, AddsOnlyOwn, Safe

LEMMA CloseTyped ==
  ASSUME SessionsTyped, NEW r \in Requests, NEW label \in Ended, Close(r, label)
  PROVE  /\ SessionsTyped' /\ OthersUntouched(r) /\ pc'[r] = label
         /\ tx'[r] = NoTx
         /\ \A d \in Keys : docLock'[d] # r /\ headLock'[d] # r
  <1> USE TxAssumption
  <1>1. NoTx \in Transaction
    BY DEF NoTx, Transaction
  <1>2. SessionsTyped'
    BY <1>1 DEF SessionsTyped, Close, Goto
  <1>3. QED
    BY <1>2 DEF SessionsTyped, Close, Goto, OthersUntouched

(* A request that ends without writing keeps the invariant. *)
LEMMA EndKeepsInv ==
  ASSUME TxInv, NEW r \in Requests, NEW label \in Ended, pc[r] # "ok",
         Close(r, label), UNCHANGED tables
  PROVE  TxInv'
  <1>1. /\ SessionsTyped' /\ OthersUntouched(r) /\ pc'[r] = label
        /\ \A d \in Keys : headLock'[d] # r
    BY CloseTyped DEF TxInv, TypeOK, SessionsTyped
  <1>2. Safe(r)'
    BY <1>1 DEF TxInv, Safe, tables, Ended
  <1>3. AddsOnlyOwn(r)
    BY DEF AddsOnlyOwn, tables
  <1>4. TypeOK'
    BY <1>1 DEF TxInv, TypeOK, SessionsTyped, History!TypeOK, tables
  <1>5. QED
    BY <1>1, <1>2, <1>3, <1>4, OthersStaySafe DEF TxInv

(* So does one that only changes its own session on the way. *)
LEMMA MoveKeepsInv ==
  ASSUME TxInv, NEW r \in Requests, NEW t \in Transaction, NEW label \in Running,
         tx' = [tx EXCEPT ![r] = t], pc' = [pc EXCEPT ![r] = label],
         UNCHANGED tables, pc[r] # "ok",
         docLock' \in [Keys -> Requests \cup {None}],
         headLock' \in [Keys -> Requests \cup {None}],
         \A d \in Keys : docLock'[d] = docLock[d] \/ (docLock[d] = None /\ docLock'[d] = r),
         \A d \in Keys : headLock'[d] = headLock[d] \/ (headLock[d] = None /\ headLock'[d] = r),
         label # "write" => \A d \in Keys : headLock'[d] # r,
         label # "remove" => \A d \in t.keys : t.text[d] \in Contents
  PROVE  TxInv' /\ OthersUntouched(r) /\ pc'[r] = label /\ tx'[r] = t
  <1> USE TxAssumption
  <1>1. SessionsTyped' /\ pc'[r] = label /\ tx'[r] = t
    BY DEF TxInv, TypeOK, SessionsTyped
  <1>2. OthersUntouched(r)
    BY DEF OthersUntouched, TxInv, TypeOK
  <1>3. AddsOnlyOwn(r)
    BY DEF AddsOnlyOwn, tables
  <1>4. Safe(r)'
    BY <1>1 DEF TxInv, Safe, tables, Running
  <1>5. TypeOK'
    BY <1>1 DEF TxInv, TypeOK, SessionsTyped, History!TypeOK, tables
  <1>6. QED
    BY <1>1, <1>2, <1>3, <1>4, <1>5, OthersStaySafe DEF TxInv

-----------------------------------------------------------------------------
(* The steps of one request that commit nothing. *)
Quiet(r) ==
  \/ \E d \in Keys, c \in Contents : StartCreate(r, d, c) \/ StartUpdate(r, d, c)
  \/ \E d \in Keys, i \in RevIds : StartRevert(r, d, i)
  \/ StartCheckpoint(r) \/ ReadHeads(r)
  \/ \E d \in Keys : StartDelete(r, d) \/ LockDocument(r, d) \/ WriteRevision(r, d)
  \/ Abandon(r) \/ DeadlockVictim(r)

LEMMA QuietKeepsInv ==
  ASSUME TxInv, NEW r \in Requests, Quiet(r)
  PROVE  TxInv'
  <1> USE TxAssumption
  <1>1. /\ tx[r] \in Transaction /\ Safe(r)
        /\ docLock \in [Keys -> Requests \cup {None}]
        /\ headLock \in [Keys -> Requests \cup {None}]
        /\ doc \in [Keys -> Contents \cup {NoDoc}] /\ head \in [Keys -> RevIds \cup {NoRev}]
        /\ recency \in Orders
    BY DEF TxInv, TypeOK, History!TypeOK
  <1>2. ASSUME NEW d \in Keys, NEW c \in Contents, StartCreate(r, d, c) PROVE TxInv'
    <2>1. PICK t \in Transaction : t = [tx[r] EXCEPT !.keys = {d}, !.text[d] = c]
      BY <1>1 DEF Transaction
    <2>2. \A e \in t.keys : t.text[e] \in Contents
      BY <1>1, <2>1 DEF Transaction
    <2>3. /\ tx' = [tx EXCEPT ![r] = t] /\ pc' = [pc EXCEPT ![r] = "insert"]
          /\ UNCHANGED tables /\ UNCHANGED locks /\ pc[r] = "start"
      BY <1>2, <2>1 DEF StartCreate, Begin, Goto
    <2>4. \A e \in Keys : headLock'[e] # r
      BY <1>1, <2>3 DEF Safe, locks
    <2>5. QED
      BY <1>1, <2>2, <2>3, <2>4, MoveKeepsInv DEF locks, Running
  <1>3. ASSUME NEW d \in Keys, NEW c \in Contents, StartUpdate(r, d, c) PROVE TxInv'
    <2>1. PICK t \in Transaction : t = [tx[r] EXCEPT !.keys = {d}, !.text[d] = c]
      BY <1>1 DEF Transaction
    <2>2. \A e \in t.keys : t.text[e] \in Contents
      BY <1>1, <2>1 DEF Transaction
    <2>3. UNCHANGED tables /\ pc[r] = "start"
      BY <1>3 DEF StartUpdate, Begin
    <2>4. CASE doc[d] \in {NoDoc, c}
      <3>1. PICK label \in Ended : Close(r, label)
        BY <1>3, <2>4 DEF StartUpdate, Ended
      <3>2. QED
        BY <2>3, <3>1, EndKeepsInv
    <2>5. CASE doc[d] \notin {NoDoc, c}
      <3>1. tx' = [tx EXCEPT ![r] = t] /\ pc' = [pc EXCEPT ![r] = "lock"] /\ UNCHANGED locks
        BY <1>3, <2>1, <2>5 DEF StartUpdate, Goto
      <3>2. \A e \in Keys : headLock'[e] # r
        BY <1>1, <2>3, <3>1 DEF Safe, locks
      <3>3. QED
        BY <1>1, <2>2, <2>3, <3>1, <3>2, MoveKeepsInv DEF locks, Running
    <2>6. QED
      BY <2>4, <2>5
  <1>4. ASSUME NEW d \in Keys, NEW i \in RevIds, StartRevert(r, d, i) PROVE TxInv'
    <2>1. UNCHANGED tables /\ pc[r] = "start"
      BY <1>4 DEF StartRevert, Begin
    <2>2. CASE i \notin History!RevsOf(d)
      <3>1. Close(r, "error") /\ "error" \in Ended
        BY <1>4, <2>2 DEF StartRevert, Ended
      <3>2. QED
        BY <2>1, <3>1, EndKeepsInv
    <2>3. CASE i \in History!RevsOf(d)
      <3>1. PICK c \in Contents : c = revs[i].content
        BY <2>3 DEF History!RevsOf, TxInv, TypeOK, History!TypeOK, History!Revision
      <3>2. PICK t \in Transaction : t = [tx[r] EXCEPT !.keys = {d}, !.base = i, !.text[d] = c]
        BY <1>1 DEF Transaction
      <3>3. \A e \in t.keys : t.text[e] \in Contents
        BY <1>1, <3>2 DEF Transaction
      <3>4. PICK label \in {"heads", "lock"} : pc' = [pc EXCEPT ![r] = label]
        BY <1>4, <2>3 DEF StartRevert, Goto
      <3>5. tx' = [tx EXCEPT ![r] = t] /\ UNCHANGED locks
        BY <1>4, <2>3, <3>1, <3>2 DEF StartRevert
      <3>6. \A e \in Keys : headLock'[e] # r
        BY <1>1, <2>1, <3>5 DEF Safe, locks
      <3>7. QED
        BY <1>1, <2>1, <3>3, <3>4, <3>5, <3>6, MoveKeepsInv DEF locks, Running
    <2>4. QED
      BY <2>2, <2>3
  <1>5. CASE StartCheckpoint(r)
    <2>. recency \in [Keys -> Nat] /\ Live \subseteq Keys
      BY <1>1 DEF Orders, Live
    <2>1. PICK t \in Transaction : t = [tx[r] EXCEPT !.keys = Live, !.text = doc, !.order = recency]
      BY <1>1 DEF Transaction
    <2>2. \A e \in t.keys : t.text[e] \in Contents
      BY <1>1, <2>1 DEF Transaction, Live
    <2>3. /\ tx' = [tx EXCEPT ![r] = t] /\ pc' = [pc EXCEPT ![r] = "heads"]
          /\ UNCHANGED tables /\ UNCHANGED locks /\ pc[r] = "start"
      BY <1>5, <2>1 DEF StartCheckpoint, Begin, Goto
    <2>4. \A e \in Keys : headLock'[e] # r
      BY <1>1, <2>3 DEF Safe, locks
    <2>5. QED
      BY <1>1, <2>2, <2>3, <2>4, MoveKeepsInv DEF locks, Running
  <1>6. ASSUME NEW d \in Keys, StartDelete(r, d) PROVE TxInv'
    <2>1. UNCHANGED tables /\ pc[r] = "start"
      BY <1>6 DEF StartDelete, Begin
    <2>2. CASE d \in Protected \/ doc[d] = NoDoc
      <3>1. Close(r, "error") /\ "error" \in Ended
        BY <1>6, <2>2 DEF StartDelete, Ended
      <3>2. QED
        BY <2>1, <3>1, EndKeepsInv
    <2>3. CASE ~(d \in Protected \/ doc[d] = NoDoc)
      <3>1. PICK t \in Transaction : t = [tx[r] EXCEPT !.keys = {d}]
        BY <1>1 DEF Transaction
      <3>2. /\ tx' = [tx EXCEPT ![r] = t] /\ pc' = [pc EXCEPT ![r] = "remove"]
            /\ UNCHANGED locks
        BY <1>6, <2>3, <3>1 DEF StartDelete, Goto
      <3>3. \A e \in Keys : headLock'[e] # r
        BY <1>1, <2>1, <3>2 DEF Safe, locks
      <3>4. QED
        BY <1>1, <2>1, <3>2, <3>3, MoveKeepsInv DEF locks, Running
    <2>4. QED
      BY <2>2, <2>3
  <1>7. ASSUME Fail(r), pc[r] # "ok" PROVE TxInv'
    BY <1>7, EndKeepsInv DEF Fail, Ended
  <1>8. ASSUME NEW d \in Keys, LockDocument(r, d) PROVE TxInv'
    <2>1. CASE doc[d] = NoDoc
      BY <1>7, <1>8, <2>1 DEF LockDocument
    <2>2. CASE doc[d] # NoDoc
      <3>1. PICK t \in Transaction : t = tx[r]
        BY <1>1
      <3>2. /\ pc[r] = "lock" /\ docLock' = [docLock EXCEPT ![d] = r] /\ docLock[d] = None
            /\ pc' = [pc EXCEPT ![r] = "heads"] /\ UNCHANGED <<tables, headLock, tx>>
        BY <1>8, <2>2 DEF LockDocument, Goto
      <3>3. tx' = [tx EXCEPT ![r] = t]
        BY <3>1, <3>2 DEF TxInv, TypeOK
      <3>4. /\ \A e \in t.keys : t.text[e] \in Contents
            /\ \A e \in Keys : headLock'[e] # r
        BY <1>1, <3>1, <3>2 DEF Safe
      <3>5. QED
        BY <1>1, <3>2, <3>3, <3>4, MoveKeepsInv DEF Running
    <2>3. QED
      BY <2>1, <2>2
  <1>9. CASE ReadHeads(r)
    <2>1. CASE \E d \in tx[r].keys : head[d] = NoRev
      BY <1>7, <1>9, <2>1 DEF ReadHeads
    <2>2. CASE ~ \E d \in tx[r].keys : head[d] = NoRev
      <3>1. PICK t \in Transaction : t = [tx[r] EXCEPT !.heads = head]
        BY <1>1 DEF Transaction
      <3>2. /\ tx' = [tx EXCEPT ![r] = t] /\ pc' = [pc EXCEPT ![r] = "write"]
            /\ UNCHANGED tables /\ UNCHANGED locks /\ pc[r] = "heads"
        BY <1>9, <2>2, <3>1 DEF ReadHeads, Goto
      <3>3. \A e \in t.keys : t.text[e] \in Contents
        BY <1>1, <3>1, <3>2 DEF Transaction, Safe
      <3>4. QED
        BY <1>1, <3>2, <3>3, MoveKeepsInv DEF locks, Running
    <2>3. QED
      BY <2>1, <2>2
  <1>10. ASSUME NEW d \in Keys, WriteRevision(r, d) PROVE TxInv'
    <2>1. CASE ~LinksExist(r, d)
      BY <1>7, <1>10, <2>1 DEF WriteRevision, IsNext
    <2>2. CASE LinksExist(r, d)
      <3>1. PICK t \in Transaction : t = tx[r]
        BY <1>1
      <3>2. /\ pc[r] = "write" /\ headLock' = [headLock EXCEPT ![d] = r] /\ headLock[d] = None
            /\ UNCHANGED <<tables, docLock, pc, tx>>
        BY <1>10, <2>2 DEF WriteRevision, IsNext
      <3>3. tx' = [tx EXCEPT ![r] = t] /\ pc' = [pc EXCEPT ![r] = "write"]
        BY <3>1, <3>2 DEF TxInv, TypeOK
      <3>4. \A e \in t.keys : t.text[e] \in Contents
        BY <1>1, <3>1, <3>2 DEF Safe
      <3>5. QED
        BY <1>1, <3>2, <3>3, <3>4, MoveKeepsInv DEF Running
    <2>3. QED
      BY <2>1, <2>2
  <1>11. CASE Abandon(r)
    BY <1>7, <1>11 DEF Abandon, Running
  <1>12. CASE DeadlockVictim(r)
    <2>1. PICK cycle \in SUBSET Requests :
            r \in cycle /\ UNION {WaitsFor(x) : x \in cycle} = cycle
      BY <1>12 DEF DeadlockVictim
    <2>2. PICK x \in cycle : r \in WaitsFor(x)
      BY <2>1
    <2>3. PICK d \in Keys : headLock[d] = r
      BY <2>2 DEF WaitsFor
    <2>4. pc[r] # "ok"
      BY <1>1, <2>3 DEF Safe
    <2>5. QED
      BY <1>7, <1>12, <2>4 DEF DeadlockVictim
  <1>13. QED
    BY <1>2, <1>3, <1>4, <1>5, <1>6, <1>8, <1>9, <1>10, <1>11, <1>12 DEF Quiet

-----------------------------------------------------------------------------
(* Rows for new revisions leave the tables well-typed. *)
LEMMA AppendTyped ==
  ASSUME History!TypeOK, NEW I \in SUBSET RevIds, NEW rows \in [I -> History!Revision],
         History!AppendRevisions(rows)
  PROVE  /\ head' \in [Keys -> RevIds \cup {NoRev}]
         /\ DOMAIN revs' = DOMAIN revs \cup I /\ DOMAIN revs' \subseteq RevIds
         /\ \A i \in DOMAIN revs' : revs'[i] \in History!Revision
  <1>1. DOMAIN rows = I
    OBVIOUS
  <1>2. revs' = [i \in DOMAIN revs \cup I |-> IF i \in I THEN rows[i] ELSE revs[i]]
    BY <1>1 DEF History!AppendRevisions
  <1>3. \A d \in Keys : (\E i \in I : rows[i].doc = d) => (CHOOSE i \in I : rows[i].doc = d) \in I
    OBVIOUS
  <1>4. head' \in [Keys -> RevIds \cup {NoRev}]
    BY <1>1, <1>3 DEF History!AppendRevisions, History!TypeOK
  <1>5. QED
    BY <1>2, <1>4 DEF History!TypeOK

(* The steps of one request that commit what it wrote. *)
Committing(r) ==
  \/ \E d \in Keys : Insert(r, d) \/ Remove(r, d)
  \/ Commit(r)

LEMMA CommittingKeepsInv ==
  ASSUME TxInv, NEW r \in Requests, Committing(r)
  PROVE  TxInv'
  <1> USE TxAssumption
  <1>1. /\ tx[r] \in Transaction /\ Safe(r) /\ SessionsTyped /\ History!TypeOK
        /\ recency \in Orders
    BY DEF TxInv, TypeOK, SessionsTyped
  (* It is enough that the tables are well-typed and only its own revisions are new. *)
  <1>2. ASSUME Close(r, "ok"), History!TypeOK', recency' \in Orders, AddsOnlyOwn(r)
        PROVE  TxInv'
    <2>1. /\ SessionsTyped' /\ OthersUntouched(r) /\ pc'[r] = "ok"
          /\ \A d \in Keys : headLock'[d] # r
      BY <1>1, <1>2, CloseTyped DEF Ended
    <2>2. TypeOK'
      BY <1>2, <2>1 DEF TypeOK, SessionsTyped
    <2>3. Safe(r)'
      BY <2>1 DEF Safe
    <2>4. QED
      BY <1>2, <2>1, <2>2, <2>3, OthersStaySafe DEF TxInv
  <1>3. Close(r, "ok") => pc'[r] = "ok"
    BY <1>1 DEF Close, Goto, SessionsTyped
  <1>4. ASSUME NEW d \in Keys, Insert(r, d) PROVE TxInv'
    <2>1. CASE doc[d] # NoDoc
      BY <1>4, <2>1, EndKeepsInv DEF Insert, Fail, Ended
    <2>2. CASE doc[d] = NoDoc
      <3>1. /\ pc[r] = "insert" /\ d \in tx[r].keys /\ Close(r, "ok") /\ MoveUp(d)
            /\ History!Create(d, tx[r].text[d], <<r, d>>)
        BY <1>4, <2>2 DEF Insert
      <3>2. PICK c \in Contents : c = tx[r].text[d]
        BY <1>1, <3>1 DEF Safe
      <3>3. PICK id \in RevIds : id = <<r, d>>
        BY DEF RevIds
      <3>4. [doc |-> d, content |-> c, parent |-> NoRev, base |-> NoRev] \in History!Revision
        BY DEF History!Revision
      <3>5. PICK rows \in [{id} -> History!Revision] :
              rows = [j \in {id} |-> [doc |-> d, content |-> c, parent |-> NoRev, base |-> NoRev]]
        BY <3>4
      <3>6. History!AppendRevisions(rows) /\ doc' = [doc EXCEPT ![d] = c]
        BY <3>1, <3>2, <3>3, <3>5 DEF History!Create, History!AppendRevision, History!AppendRevisions
      <3>7. /\ head' \in [Keys -> RevIds \cup {NoRev}]
            /\ DOMAIN revs' = DOMAIN revs \cup {id} /\ DOMAIN revs' \subseteq RevIds
            /\ \A i \in DOMAIN revs' : revs'[i] \in History!Revision
        BY <1>1, <3>6, AppendTyped
      <3>8. History!TypeOK' /\ AddsOnlyOwn(r)
        BY <1>1, <1>3, <3>1, <3>3, <3>6, <3>7 DEF History!TypeOK, AddsOnlyOwn
      <3>9. recency' \in Orders
        BY <3>1 DEF MoveUp
      <3>10. QED
        BY <1>2, <3>1, <3>8, <3>9
    <2>3. QED
      BY <2>1, <2>2
  <1>5. ASSUME NEW d \in Keys, Remove(r, d) PROVE TxInv'
    <2>1. Close(r, "ok") /\ recency' = recency
      BY <1>5 DEF Remove
    <2>2. CASE doc[d] = NoDoc
      BY <1>1, <1>2, <1>5, <2>1, <2>2 DEF Remove, History!TypeOK, AddsOnlyOwn
    <2>3. CASE doc[d] # NoDoc
      <3>1. /\ doc' = [doc EXCEPT ![d] = NoDoc] /\ head' = [head EXCEPT ![d] = NoRev]
            /\ revs' = [i \in DOMAIN revs \ History!RevsOf(d) |-> revs[i]]
        BY <1>5, <2>3 DEF Remove, History!Delete
      <3>2. History!TypeOK' /\ AddsOnlyOwn(r)
        BY <1>1, <3>1 DEF History!TypeOK, AddsOnlyOwn
      <3>3. QED
        BY <1>1, <1>2, <2>1, <3>2
    <2>4. QED
      BY <2>2, <2>3
  <1>6. CASE Commit(r)
    <2> DEFINE I == {r} \X tx[r].keys
    <2>1. /\ pc[r] = "write" /\ Close(r, "ok")
          /\ doc' = [d \in Keys |-> IF docLock[d] = r THEN tx[r].text[d] ELSE doc[d]]
          /\ History!AppendRevisions([i \in I |-> Row(r, i[2])])
          /\ recency' \in Orders
      BY <1>1, <1>6 DEF Commit, MoveUp
    <2>2. PICK rows : rows = [i \in I |-> Row(r, i[2])]
      OBVIOUS
    <2>3. ASSUME NEW d \in tx[r].keys PROVE Row(r, d) \in History!Revision
      BY <1>1, <2>1 DEF Row, Safe, Transaction, History!Revision
    <2>4. I \in SUBSET RevIds /\ rows \in [I -> History!Revision]
      BY <1>1, <2>2, <2>3 DEF RevIds, Transaction
    <2>5. PICK J \in SUBSET RevIds : J = I
      BY <2>4
    <2>6. rows \in [J -> History!Revision] /\ History!AppendRevisions(rows)
      BY <2>1, <2>2, <2>4, <2>5 DEF History!AppendRevisions
    <2>7. /\ head' \in [Keys -> RevIds \cup {NoRev}]
          /\ DOMAIN revs' = DOMAIN revs \cup J /\ DOMAIN revs' \subseteq RevIds
          /\ \A i \in DOMAIN revs' : revs'[i] \in History!Revision
      BY <1>1, <2>6, AppendTyped
    <2>8. AddsOnlyOwn(r)
      BY <1>1, <1>3, <2>1, <2>5, <2>7 DEF AddsOnlyOwn, Transaction
    <2>9. doc' \in [Keys -> Contents \cup {NoDoc}]
      BY <1>1, <2>1 DEF History!TypeOK, Transaction
    <2>10. QED
      BY <1>2, <2>1, <2>7, <2>8, <2>9 DEF History!TypeOK
  <1>7. QED
    BY <1>4, <1>5, <1>6 DEF Committing

LEMMA InitHasTxInv == Init => TxInv
  <1> SUFFICES ASSUME Init PROVE TxInv
    OBVIOUS
  <1> USE TxAssumption
  <1>1. PICK live \in SUBSET Keys, c \in Contents :
          /\ Protected \subseteq live
          /\ doc = [d \in Keys |-> IF d \in live THEN c ELSE NoDoc]
          /\ head = [d \in Keys |-> IF d \in live THEN <<Opening, d>> ELSE NoRev]
          /\ revs = [i \in {Opening} \X live |->
                       [doc |-> i[2], content |-> c, parent |-> NoRev, base |-> NoRev]]
    BY DEF Init
  <1>2. History!TypeOK
    BY <1>1 DEF History!TypeOK, History!Revision, RevIds
  <1>3. NoTx \in Transaction
    BY DEF NoTx, Transaction
  <1>4. TypeOK
    BY <1>2, <1>3 DEF Init, TypeOK
  <1>5. \A r \in Requests : Safe(r)
    BY <1>1 DEF Init, Safe
  <1>6. QED
    BY <1>4, <1>5 DEF TxInv

LEMMA NextKeepsTxInv == TxInv /\ [Next]_vars => TxInv'
  <1> SUFFICES ASSUME TxInv, [Next]_vars PROVE TxInv'
    OBVIOUS
  <1>1. ASSUME NEW r \in Requests, Start(r) \/ Proceed(r) \/ Abandon(r) PROVE TxInv'
    <2>1. Quiet(r) \/ Committing(r)
      BY <1>1 DEF Start, Proceed, Quiet, Committing
    <2>2. QED
      BY <2>1, QuietKeepsInv, CommittingKeepsInv
  <1>2. CASE UNCHANGED vars
    BY <1>2 DEF vars, tables, locks, TxInv, TypeOK, History!TypeOK, Safe
  <1>3. QED
    BY <1>1, <1>2 DEF Next

-----------------------------------------------------------------------------
(* Whatever kinds of request overlap, however many and on however many
   documents, the tables and the sessions stay well-typed. *)
THEOREM TxTypes == Spec => []TypeOK
  <1>1. TxInv => TypeOK
    BY DEF TxInv
  <1>2. QED
    BY InitHasTxInv, NextKeepsTxInv, <1>1, PTL DEF Spec

(* And no request that failed, was abandoned or lost a deadlock leaves a
   revision behind. *)
THEOREM TxFailuresLeaveNothing == Spec => []FailureLeavesNothing
  <1>1. TxInv => FailureLeavesNothing
    BY DEF TxInv, Safe, FailureLeavesNothing
  <1>2. QED
    BY InitHasTxInv, NextKeepsTxInv, <1>1, PTL DEF Spec

-----------------------------------------------------------------------------
(* For all kinds of request. A request that holds head rows keeps the rows its
   revisions will refer to: a deletion waits for the head row, and the pair
   <<request, key>> never names another revision. Without this, a checkpoint
   or a revert could commit a revision whose parent or base is gone. *)
Held(r) ==
  /\ pc[r] = "start" => tx[r].base = NoRev
  /\ tx[r].base # NoRev => tx[r].keys = {tx[r].base[2]}
  /\ \A d \in Keys : tx[r].heads[d] # NoRev => tx[r].heads[d][2] = d
  /\ \A d \in Keys : docLock[d] = r => d \in tx[r].keys /\ pc[r] \in {"heads", "write"}
  /\ \A d \in Keys : headLock[d] = r => d \in tx[r].keys /\ LinksExist(r, d)

(* A revision's name says whose it is. *)
NamesTheirDocument == \A i \in DOMAIN revs : revs[i].doc = i[2]

Recorded == LinksStayInDocument /\ TextIsRecorded /\ NamesTheirDocument

TrailInv == TxInv /\ Recorded /\ \A r \in Requests : Held(r)

(* A step of request r takes no row away that another request refers to. *)
SparesHeld(r) ==
  \A d \in Keys : headLock[d] \in Requests \ {r} =>
    /\ doc[d] # NoDoc => doc'[d] # NoDoc
    /\ \A i \in DOMAIN revs : i[2] = d => i \in DOMAIN revs'

LEMMA OthersKeepHolding ==
  ASSUME NEW r \in Requests, OthersUntouched(r), SparesHeld(r),
         NEW o \in Requests \ {r}, Held(o)
  PROVE  Held(o)'
  <1>1. /\ pc'[o] = pc[o] /\ tx'[o] = tx[o]
        /\ \A d \in Keys : /\ docLock'[d] = o <=> docLock[d] = o
                           /\ headLock'[d] = o <=> headLock[d] = o
    BY DEF OthersUntouched
  <1>2. ASSUME NEW d \in Keys, headLock'[d] = o
        PROVE  d \in tx'[o].keys /\ LinksExist(o, d)'
    <2>1. headLock[d] = o /\ d \in tx[o].keys /\ LinksExist(o, d)
      BY <1>1, <1>2 DEF Held
    <2>2. tx[o].heads[d] # NoRev => tx[o].heads[d][2] = d
      BY DEF Held
    <2>3. tx[o].base # NoRev => tx[o].base[2] = d
      BY <2>1 DEF Held
    <2>4. /\ doc'[d] # NoDoc
          /\ \A i \in DOMAIN revs : i[2] = d => i \in DOMAIN revs'
      BY <2>1 DEF SparesHeld, LinksExist
    <2>5. tx[o].heads[d] \in DOMAIN revs' \cup {NoRev}
      BY <2>1, <2>2, <2>4 DEF LinksExist
    <2>6. tx[o].base \in DOMAIN revs' \cup {NoRev}
      BY <2>1, <2>3, <2>4 DEF LinksExist
    <2>7. QED
      BY <1>1, <2>1, <2>4, <2>5, <2>6 DEF LinksExist
  <1>3. QED
    BY <1>1, <1>2 DEF Held

LEMMA ClosedHolds ==
  ASSUME SessionsTyped, NEW r \in Requests, NEW label \in Ended, Close(r, label)
  PROVE  OthersUntouched(r) /\ Held(r)'
  <1>1. /\ OthersUntouched(r) /\ pc'[r] = label /\ tx'[r] = NoTx
        /\ \A d \in Keys : docLock'[d] # r /\ headLock'[d] # r
    BY CloseTyped
  <1>2. QED
    BY <1>1 DEF Held, NoTx, Ended

(* The steps that commit nothing. *)
LEMMA QuietHolds ==
  ASSUME TrailInv, NEW r \in Requests, Quiet(r)
  PROVE  UNCHANGED tables /\ OthersUntouched(r) /\ Held(r)'
  <1> DEFINE Goal == UNCHANGED tables /\ OthersUntouched(r) /\ Held(r)'
  <1> USE TxAssumption
  <1>1. /\ tx \in [Requests -> Transaction] /\ tx[r] \in Transaction /\ Held(r)
        /\ docLock \in [Keys -> Requests \cup {None}]
        /\ headLock \in [Keys -> Requests \cup {None}]
        /\ pc \in [Requests -> {"start"} \cup Running \cup Ended]
        /\ SessionsTyped
    BY DEF TrailInv, TxInv, TypeOK, SessionsTyped
  <1>2. ASSUME NEW label \in Ended, Close(r, label), UNCHANGED tables PROVE Goal
    BY <1>1, <1>2, ClosedHolds
  <1>3. ASSUME Fail(r) PROVE Goal
    BY <1>2, <1>3 DEF Fail, Ended
  (* A request that starts: it holds no row, and its base is in its document. *)
  <1>4. ASSUME NEW t \in Transaction, NEW label \in Running,
               tx' = [tx EXCEPT ![r] = t], pc' = [pc EXCEPT ![r] = label],
               UNCHANGED tables, UNCHANGED locks, pc[r] = "start",
               t.base # NoRev => t.keys = {t.base[2]},
               \A d \in Keys : t.heads[d] = tx[r].heads[d]
        PROVE  Goal
    <2>1. pc'[r] = label /\ label # "start" /\ tx'[r] = t
      BY <1>1, <1>4 DEF Running
    <2>2. OthersUntouched(r)
      BY <1>1, <1>4 DEF OthersUntouched, locks
    <2>3. \A d \in Keys : docLock'[d] # r /\ headLock'[d] # r
      BY <1>1, <1>4 DEF Held, locks, TrailInv, TxInv, Safe
    <2>4. Held(r)'
      BY <1>1, <1>4, <2>1, <2>3 DEF Held
    <2>5. QED
      BY <1>4, <2>2, <2>4
  <1>5. ASSUME NEW d \in Keys, NEW c \in Contents, StartCreate(r, d, c) \/ StartUpdate(r, d, c)
        PROVE  Goal
    <2>1. UNCHANGED tables /\ pc[r] = "start" /\ tx[r].base = NoRev
      BY <1>1, <1>5 DEF StartCreate, StartUpdate, Begin, Held
    <2>2. PICK t \in Transaction : t = [tx[r] EXCEPT !.keys = {d}, !.text[d] = c]
      BY <1>1 DEF Transaction
    <2>3. t.base = NoRev /\ t.heads = tx[r].heads
      BY <1>1, <2>1, <2>2 DEF Transaction
    <2>4. CASE Close(r, "ok") \/ Close(r, "error")
      BY <1>2, <2>1, <2>4 DEF Ended
    <2>5. CASE ~(Close(r, "ok") \/ Close(r, "error"))
      <3>1. PICK label \in {"insert", "lock"} : pc' = [pc EXCEPT ![r] = label]
        BY <1>5, <2>5 DEF StartCreate, StartUpdate, Goto
      <3>2. tx' = [tx EXCEPT ![r] = t] /\ UNCHANGED locks
        BY <1>5, <2>2, <2>5 DEF StartCreate, StartUpdate
      <3>3. QED
        BY <1>4, <2>1, <2>3, <3>1, <3>2 DEF Running
    <2>6. QED
      BY <2>4, <2>5
  <1>6. ASSUME NEW d \in Keys, NEW i \in RevIds, StartRevert(r, d, i) PROVE Goal
    <2>1. UNCHANGED tables /\ pc[r] = "start"
      BY <1>6 DEF StartRevert, Begin
    <2>2. CASE i \notin History!RevsOf(d)
      BY <1>2, <1>6, <2>1, <2>2 DEF StartRevert, Ended
    <2>3. CASE i \in History!RevsOf(d)
      <3>1. PICK c \in Contents : c = revs[i].content
        BY <2>3 DEF History!RevsOf, TrailInv, TxInv, TypeOK, History!TypeOK, History!Revision
      <3>2. PICK t \in Transaction : t = [tx[r] EXCEPT !.keys = {d}, !.base = i, !.text[d] = c]
        BY <1>1 DEF Transaction
      <3>3. i[2] = d
        BY <2>3 DEF History!RevsOf, TrailInv, Recorded, NamesTheirDocument
      <3>4. t.keys = {t.base[2]} /\ t.heads = tx[r].heads
        BY <1>1, <3>2, <3>3 DEF Transaction
      <3>5. PICK label \in {"heads", "lock"} : pc' = [pc EXCEPT ![r] = label]
        BY <1>6, <2>3 DEF StartRevert, Goto
      <3>6. tx' = [tx EXCEPT ![r] = t] /\ UNCHANGED locks
        BY <1>6, <2>3, <3>1, <3>2 DEF StartRevert
      <3>7. QED
        BY <1>4, <2>1, <3>4, <3>5, <3>6 DEF Running
    <2>4. QED
      BY <2>2, <2>3
  <1>7. CASE StartCheckpoint(r)
    <2>1. recency \in [Keys -> Nat] /\ Live \subseteq Keys
          /\ doc \in [Keys -> Contents \cup {NoDoc}]
      BY DEF Orders, Live, TrailInv, TxInv, TypeOK, History!TypeOK
    <2>2. PICK t \in Transaction : t = [tx[r] EXCEPT !.keys = Live, !.text = doc, !.order = recency]
      BY <1>1, <2>1 DEF Transaction
    <2>3. /\ tx' = [tx EXCEPT ![r] = t] /\ pc' = [pc EXCEPT ![r] = "heads"]
          /\ UNCHANGED tables /\ UNCHANGED locks /\ pc[r] = "start"
      BY <1>7, <2>2 DEF StartCheckpoint, Begin, Goto
    <2>4. t.base = NoRev /\ t.heads = tx[r].heads
      BY <1>1, <2>2, <2>3 DEF Transaction, Held
    <2>5. QED
      BY <1>4, <2>3, <2>4 DEF Running
  <1>8. ASSUME NEW d \in Keys, StartDelete(r, d) PROVE Goal
    <2>1. UNCHANGED tables /\ pc[r] = "start"
      BY <1>8 DEF StartDelete, Begin
    <2>2. CASE d \in Protected \/ doc[d] = NoDoc
      BY <1>2, <1>8, <2>1, <2>2 DEF StartDelete, Ended
    <2>3. CASE ~(d \in Protected \/ doc[d] = NoDoc)
      <3>1. PICK t \in Transaction : t = [tx[r] EXCEPT !.keys = {d}]
        BY <1>1 DEF Transaction
      <3>2. /\ tx' = [tx EXCEPT ![r] = t] /\ pc' = [pc EXCEPT ![r] = "remove"]
            /\ UNCHANGED locks
        BY <1>8, <2>3, <3>1 DEF StartDelete, Goto
      <3>3. t.base = NoRev /\ t.heads = tx[r].heads
        BY <1>1, <2>1, <3>1 DEF Transaction, Held
      <3>4. QED
        BY <1>4, <2>1, <3>2, <3>3 DEF Running
    <2>4. QED
      BY <2>2, <2>3
  <1>9. ASSUME NEW d \in Keys, LockDocument(r, d) PROVE Goal
    <2>1. CASE doc[d] = NoDoc
      BY <1>3, <1>9, <2>1 DEF LockDocument
    <2>2. CASE doc[d] # NoDoc
      <3>1. /\ pc[r] = "lock" /\ docLock' = [docLock EXCEPT ![d] = r] /\ docLock[d] = None
            /\ pc' = [pc EXCEPT ![r] = "heads"] /\ UNCHANGED <<tables, headLock, tx>>
            /\ d \in tx[r].keys
        BY <1>9, <2>2 DEF LockDocument, Goto
      <3>2. OthersUntouched(r) /\ pc'[r] = "heads" /\ tx'[r] = tx[r]
        BY <1>1, <3>1 DEF OthersUntouched
      <3>3. \A e \in Keys : headLock'[e] # r
        BY <1>1, <3>1 DEF TrailInv, TxInv, Safe
      <3>4. \A e \in Keys : docLock'[e] = r => e \in tx[r].keys
        BY <1>1, <3>1 DEF Held
      <3>5. Held(r)'
        BY <1>1, <3>2, <3>3, <3>4 DEF Held
      <3>6. QED
        BY <3>1, <3>2, <3>5
    <2>3. QED
      BY <2>1, <2>2
  <1>10. CASE ReadHeads(r)
    <2>1. CASE \E d \in tx[r].keys : head[d] = NoRev
      BY <1>3, <1>10, <2>1 DEF ReadHeads
    <2>2. CASE ~ \E d \in tx[r].keys : head[d] = NoRev
      <3>1. /\ pc[r] = "heads" /\ tx' = [tx EXCEPT ![r].heads = head]
            /\ pc' = [pc EXCEPT ![r] = "write"] /\ UNCHANGED <<tables, locks>>
        BY <1>10, <2>2 DEF ReadHeads, Goto
      <3>2. OthersUntouched(r)
        BY <1>1, <3>1 DEF OthersUntouched, locks
      <3>3. /\ pc'[r] = "write" /\ tx'[r].heads = head /\ tx'[r].keys = tx[r].keys
            /\ tx'[r].base = tx[r].base
            /\ UNCHANGED <<docLock, headLock>>
        BY <1>1, <3>1 DEF locks, Transaction
      <3>4. \A e \in Keys : headLock[e] # r
        BY <1>1, <3>1 DEF TrailInv, TxInv, Safe
      <3>5. \A d \in Keys : head[d] # NoRev => head[d][2] = d
        BY DEF TrailInv, Recorded, NamesTheirDocument, LinksStayInDocument,
               History!LinksStayInDocument, History!Live, History!RevsOf
      <3>6. Held(r)'
        BY <1>1, <3>3, <3>4, <3>5 DEF Held
      <3>7. QED
        BY <3>1, <3>2, <3>6
    <2>3. QED
      BY <2>1, <2>2
  <1>11. ASSUME NEW d \in Keys, WriteRevision(r, d) PROVE Goal
    <2>1. CASE ~LinksExist(r, d)
      BY <1>3, <1>11, <2>1 DEF WriteRevision
    <2>2. CASE LinksExist(r, d)
      <3>1. headLock' = [headLock EXCEPT ![d] = r] /\ headLock[d] = None
            /\ UNCHANGED <<tables, docLock, pc, tx>> /\ d \in tx[r].keys
        BY <1>11, <2>2 DEF WriteRevision, IsNext
      <3>2. OthersUntouched(r)
        BY <1>1, <3>1 DEF OthersUntouched
      <3>3. ASSUME NEW e \in Keys, headLock'[e] = r
            PROVE  e \in tx'[r].keys /\ LinksExist(r, e)'
        <4>1. e \in tx[r].keys /\ LinksExist(r, e)
          BY <1>1, <2>2, <3>1, <3>3 DEF Held
        <4>2. QED
          BY <3>1, <4>1 DEF LinksExist, tables
      <3>4. Held(r)'
        BY <1>1, <3>1, <3>3 DEF Held
      <3>5. QED
        BY <3>1, <3>2, <3>4
    <2>3. QED
      BY <2>1, <2>2
  <1>12. CASE Abandon(r) \/ DeadlockVictim(r)
    BY <1>3, <1>12 DEF Abandon, DeadlockVictim
  <1>13. QED
    BY <1>5, <1>6, <1>7, <1>8, <1>9, <1>10, <1>11, <1>12 DEF Quiet

(* One revision of each document of D, by request r: they refer to revisions
   of their own document, and each of these documents exists afterwards, with
   the text it had or the one of its new revision. *)
Appends(r, D, rows) ==
  /\ DOMAIN rows = {r} \X D
  /\ \A d \in D :
       /\ <<r, d>> \notin DOMAIN revs
       /\ rows[<<r, d>>].doc = d
       /\ {rows[<<r, d>>].parent, rows[<<r, d>>].base} \subseteq History!RevsOf(d) \cup {NoRev}
       /\ doc'[d] # NoDoc /\ doc'[d] \in {rows[<<r, d>>].content, doc[d]}
  /\ \A d \in Keys \ D : doc'[d] = doc[d]
  /\ History!AppendRevisions(rows)

LEMMA AppendRecords ==
  ASSUME Recorded, NEW r, NEW D \in SUBSET Keys, NEW rows, Appends(r, D, rows)
  PROVE  Recorded' /\ \A i \in DOMAIN revs : i \in DOMAIN revs' /\ revs'[i] = revs[i]
  <1>0. /\ DOMAIN rows = {r} \X D
        /\ \A d \in D : <<r, d>> \notin DOMAIN revs /\ rows[<<r, d>>].doc = d
        /\ \A d \in Keys \ D : doc'[d] = doc[d]
    BY DEF Appends
  <1>1. /\ revs' = [i \in DOMAIN revs \cup DOMAIN rows |->
                      IF i \in DOMAIN rows THEN rows[i] ELSE revs[i]]
        /\ head' = [d \in Keys |-> IF \E i \in DOMAIN rows : rows[i].doc = d
                                   THEN CHOOSE i \in DOMAIN rows : rows[i].doc = d ELSE head[d]]
    BY DEF Appends, History!AppendRevisions
  <1>2. \A i \in DOMAIN rows : \E d \in D : i = <<r, d>>
    BY <1>0
  <1>3. \A d \in D : <<r, d>> \in DOMAIN rows
    BY <1>0
  <1>4. ASSUME NEW i \in DOMAIN revs PROVE i \in DOMAIN revs' /\ revs'[i] = revs[i]
    <2>1. i \notin DOMAIN rows
      BY <1>0, <1>2
    <2>2. QED
      BY <1>1, <2>1
  <1>5. ASSUME NEW d \in D PROVE <<r, d>> \in DOMAIN revs' /\ revs'[<<r, d>>] = rows[<<r, d>>]
    BY <1>1, <1>3
  <1>6. ASSUME NEW i \in DOMAIN revs' PROVE i \in DOMAIN revs \/ \E d \in D : i = <<r, d>>
    BY <1>1, <1>2
  <1>7. NamesTheirDocument'
    <2>1. ASSUME NEW i \in DOMAIN revs' PROVE revs'[i].doc = i[2]
      BY <1>0, <1>4, <1>5, <1>6 DEF Recorded, NamesTheirDocument
    <2>2. QED
      BY <2>1 DEF NamesTheirDocument
  <1>8. ASSUME NEW d \in D PROVE head'[d] = <<r, d>>
    <2>1. \A i \in DOMAIN rows : rows[i].doc = d <=> i = <<r, d>>
      BY <1>0, <1>2
    <2>2. PICK i \in DOMAIN rows : i = <<r, d>> /\ rows[i].doc = d
      BY <1>0, <1>3
    <2>3. (CHOOSE j \in DOMAIN rows : rows[j].doc = d) = i
      BY <2>1, <2>2
    <2>4. QED
      BY <1>1, <2>2, <2>3
  <1>9. ASSUME NEW d \in Keys \ D PROVE head'[d] = head[d]
    BY <1>0, <1>1, <1>2
  <1>10. ASSUME NEW d \in Keys PROVE History!RevsOf(d) \subseteq History!RevsOf(d)'
    BY <1>4 DEF History!RevsOf
  <1>11. ASSUME NEW d \in Keys, NEW i \in History!RevsOf(d)'
         PROVE  i \in History!RevsOf(d) \/ (d \in D /\ i = <<r, d>>)
    <2>1. i \in DOMAIN revs' /\ revs'[i].doc = d
      BY <1>11 DEF History!RevsOf
    <2>2. QED
      BY <1>0, <1>4, <1>5, <1>6, <2>1 DEF History!RevsOf
  <1>12. ASSUME NEW d \in D PROVE <<r, d>> \in History!RevsOf(d)'
    BY <1>0, <1>5 DEF History!RevsOf
  <1>13. LinksStayInDocument'
    <2>1. ASSUME NEW d \in Keys, doc'[d] # NoDoc PROVE head'[d] \in History!RevsOf(d)'
      <3>1. CASE d \in D
        BY <1>8, <1>12, <3>1
      <3>2. CASE d \notin D
        <4>1. head[d] \in History!RevsOf(d)
          BY <1>0, <2>1, <3>2 DEF Recorded, LinksStayInDocument, History!LinksStayInDocument, History!Live
        <4>2. QED
          BY <1>9, <1>10, <3>2, <4>1
      <3>3. QED
        BY <3>1, <3>2
    <2>2. ASSUME NEW d \in Keys, doc'[d] = NoDoc
          PROVE  head'[d] = NoRev /\ History!RevsOf(d)' = {}
      <3>1. d \notin D /\ doc[d] = NoDoc
        BY <1>0, <2>2 DEF Appends
      <3>2. head[d] = NoRev /\ History!RevsOf(d) = {}
        BY <3>1 DEF Recorded, LinksStayInDocument, History!LinksStayInDocument, History!Live
      <3>3. QED
        BY <1>9, <1>11, <3>1, <3>2
    <2>3. ASSUME NEW d \in Keys, NEW i \in History!RevsOf(d)'
          PROVE  {revs'[i].parent, revs'[i].base} \subseteq History!RevsOf(d)' \cup {NoRev}
      <3>1. CASE i \in History!RevsOf(d)
        <4>1. {revs[i].parent, revs[i].base} \subseteq History!RevsOf(d) \cup {NoRev}
          BY <3>1 DEF Recorded, LinksStayInDocument, History!LinksStayInDocument
        <4>2. revs'[i] = revs[i]
          BY <1>4, <3>1 DEF History!RevsOf
        <4>3. QED
          BY <1>10, <4>1, <4>2
      <3>2. CASE d \in D /\ i = <<r, d>>
        <4>1. {rows[i].parent, rows[i].base} \subseteq History!RevsOf(d) \cup {NoRev}
          BY <3>2 DEF Appends
        <4>2. QED
          BY <1>5, <1>10, <3>2, <4>1
      <3>3. QED
        BY <1>11, <2>3, <3>1, <3>2
    <2>4. QED
      BY <2>1, <2>2, <2>3 DEF LinksStayInDocument, History!LinksStayInDocument, History!Live
  <1>14. TextIsRecorded'
    <2>1. ASSUME NEW d \in Keys, doc'[d] # NoDoc
          PROVE  \E i \in History!RevsOf(d)' : revs'[i].content = doc'[d]
      <3>1. CASE doc'[d] = doc[d]
        <4>1. PICK i \in History!RevsOf(d) : revs[i].content = doc[d]
          BY <2>1, <3>1 DEF Recorded, TextIsRecorded, Live
        <4>2. QED
          BY <1>4, <1>10, <3>1, <4>1 DEF History!RevsOf
      <3>2. CASE d \in D /\ doc'[d] = rows[<<r, d>>].content
        BY <1>5, <1>12, <3>2
      <3>3. QED
        BY <1>0, <3>1, <3>2 DEF Appends
    <2>2. QED
      BY <2>1 DEF TextIsRecorded, Live
  <1>15. QED
    BY <1>4, <1>7, <1>13, <1>14 DEF Recorded

(* A deletion takes away the rows of its own document only. *)
LEMMA RemovalRecords ==
  ASSUME Recorded, NEW d \in Keys, doc \in [Keys -> Contents \cup {NoDoc}],
         head \in [Keys -> RevIds \cup {NoRev}],
         doc' = [doc EXCEPT ![d] = NoDoc], head' = [head EXCEPT ![d] = NoRev],
         revs' = [i \in DOMAIN revs \ History!RevsOf(d) |-> revs[i]]
  PROVE  /\ Recorded'
         /\ \A i \in DOMAIN revs : revs[i].doc # d => i \in DOMAIN revs' /\ revs'[i] = revs[i]
  <1>1. \A i \in DOMAIN revs' : i \in DOMAIN revs /\ revs'[i] = revs[i] /\ revs[i].doc # d
    BY DEF History!RevsOf
  <1>2. \A i \in DOMAIN revs : revs[i].doc # d => i \in DOMAIN revs' /\ revs'[i] = revs[i]
    BY DEF History!RevsOf
  <1>3. \A e \in Keys \ {d} : History!RevsOf(e)' = History!RevsOf(e)
    BY <1>1, <1>2 DEF History!RevsOf
  <1>4. History!RevsOf(d)' = {}
    BY <1>1 DEF History!RevsOf
  <1>5. NamesTheirDocument'
    BY <1>1 DEF Recorded, NamesTheirDocument
  <1>6. LinksStayInDocument'
    <2>1. ASSUME NEW e \in Keys, doc'[e] # NoDoc PROVE head'[e] \in History!RevsOf(e)'
      BY <1>3, <2>1 DEF Recorded, LinksStayInDocument, History!LinksStayInDocument, History!Live
    <2>2. ASSUME NEW e \in Keys, doc'[e] = NoDoc
          PROVE  head'[e] = NoRev /\ History!RevsOf(e)' = {}
      BY <1>3, <1>4, <2>2
         DEF Recorded, LinksStayInDocument, History!LinksStayInDocument, History!Live
    <2>3. ASSUME NEW e \in Keys, NEW i \in History!RevsOf(e)'
          PROVE  {revs'[i].parent, revs'[i].base} \subseteq History!RevsOf(e)' \cup {NoRev}
      <3>1. e # d /\ i \in History!RevsOf(e)
        BY <1>3, <1>4, <2>3
      <3>2. revs'[i] = revs[i]
        BY <1>2, <3>1 DEF History!RevsOf
      <3>3. {revs[i].parent, revs[i].base} \subseteq History!RevsOf(e) \cup {NoRev}
        BY <3>1 DEF Recorded, LinksStayInDocument, History!LinksStayInDocument
      <3>4. QED
        BY <1>3, <3>1, <3>2, <3>3
    <2>4. QED
      BY <2>1, <2>2, <2>3 DEF LinksStayInDocument, History!LinksStayInDocument, History!Live
  <1>7. TextIsRecorded'
    <2>1. ASSUME NEW e \in Keys, doc'[e] # NoDoc
          PROVE  \E i \in History!RevsOf(e)' : revs'[i].content = doc'[e]
      <3>1. e # d /\ doc'[e] = doc[e]
        BY <2>1
      <3>2. PICK i \in History!RevsOf(e) : revs[i].content = doc[e]
        BY <2>1, <3>1 DEF Recorded, TextIsRecorded, Live
      <3>3. i \in History!RevsOf(e)' /\ revs'[i] = revs[i]
        BY <1>2, <1>3, <3>1, <3>2 DEF History!RevsOf
      <3>4. QED
        BY <3>1, <3>2, <3>3
    <2>2. QED
      BY <2>1 DEF TextIsRecorded, Live
  <1>8. QED
    BY <1>2, <1>5, <1>6, <1>7 DEF Recorded

(* A revision that is gone went with its document; the others are as before. *)
Immutable ==
  \A i \in DOMAIN revs :
    \/ i \in DOMAIN revs' /\ revs'[i] = revs[i]
    \/ i \notin DOMAIN revs' /\ doc'[revs[i].doc] = NoDoc

LEMMA CommittingRecords ==
  ASSUME TrailInv, NEW r \in Requests, Committing(r)
  PROVE  Recorded' /\ OthersUntouched(r) /\ SparesHeld(r) /\ Held(r)' /\ Immutable
  <1> DEFINE Goal == Recorded' /\ OthersUntouched(r) /\ SparesHeld(r) /\ Held(r)' /\ Immutable
  <1> USE TxAssumption
  <1>1. /\ tx[r] \in Transaction /\ Safe(r) /\ Held(r) /\ Recorded /\ SessionsTyped
        /\ docLock \in [Keys -> Requests \cup {None}]
        /\ headLock \in [Keys -> Requests \cup {None}]
        /\ doc \in [Keys -> Contents \cup {NoDoc}] /\ head \in [Keys -> RevIds \cup {NoRev}]
    BY DEF TrailInv, TxInv, TypeOK, SessionsTyped, History!TypeOK
  <1>2. ASSUME NEW label \in Ended, Close(r, label) PROVE OthersUntouched(r) /\ Held(r)'
    BY <1>1, <1>2, ClosedHolds
  <1>3. ASSUME UNCHANGED <<doc, head, revs>> PROVE Recorded' /\ SparesHeld(r) /\ Immutable
    <2>1. Recorded'
      BY <1>1, <1>3 DEF Recorded, LinksStayInDocument, History!LinksStayInDocument, History!Live,
                        History!RevsOf, TextIsRecorded, Live, NamesTheirDocument
    <2>2. QED
      BY <1>3, <2>1 DEF SparesHeld, Immutable
  <1>4. ASSUME NEW d \in Keys, Insert(r, d) PROVE Goal
    <2>1. CASE doc[d] # NoDoc
      <3>1. Close(r, "error") /\ UNCHANGED <<doc, head, revs>>
        BY <1>4, <2>1 DEF Insert, Fail, tables
      <3>2. QED
        BY <1>2, <1>3, <3>1 DEF Ended
    <2>2. CASE doc[d] = NoDoc
      <3>1. /\ pc[r] = "insert" /\ d \in tx[r].keys /\ Close(r, "ok")
            /\ History!Create(d, tx[r].text[d], <<r, d>>)
        BY <1>4, <2>2 DEF Insert
      <3>2. PICK c \in Contents : c = tx[r].text[d]
        BY <1>1, <3>1 DEF Safe
      <3>3. PICK rows : rows = [j \in {<<r, d>>} |-> [doc |-> d, content |-> c,
                                                      parent |-> NoRev, base |-> NoRev]]
        OBVIOUS
      <3>4. History!AppendRevisions(rows) /\ doc' = [doc EXCEPT ![d] = c]
        BY <3>1, <3>2, <3>3 DEF History!Create, History!AppendRevision, History!AppendRevisions
      <3>5. DOMAIN rows = {r} \X {d} /\ <<r, d>> \in DOMAIN rows
        BY <3>3
      <3>6. rows[<<r, d>>] = [doc |-> d, content |-> c, parent |-> NoRev, base |-> NoRev]
        BY <3>3
      <3>7. <<r, d>> \notin DOMAIN revs
        BY <1>1, <3>1 DEF Safe
      <3>8. doc'[d] = c /\ c # NoDoc /\ \A e \in Keys \ {d} : doc'[e] = doc[e]
        BY <1>1, <3>2, <3>4
      <3>9. Recorded' /\ \A i \in DOMAIN revs : i \in DOMAIN revs' /\ revs'[i] = revs[i]
        <4>1. {d} \in SUBSET Keys /\ Appends(r, {d}, rows)
          BY <3>4, <3>5, <3>6, <3>7, <3>8 DEF Appends
        <4>2. QED
          BY <1>1, <4>1, AppendRecords
      <3>10. QED
        BY <1>2, <3>1, <3>8, <3>9 DEF Ended, SparesHeld, Immutable
    <2>3. QED
      BY <2>1, <2>2
  <1>5. ASSUME NEW d \in Keys, Remove(r, d) PROVE Goal
    <2>1. pc[r] = "remove" /\ headLock[d] = None /\ Close(r, "ok")
      BY <1>5 DEF Remove
    <2>2. CASE doc[d] = NoDoc
      <3>1. UNCHANGED <<doc, head, revs>>
        BY <1>5, <2>2 DEF Remove
      <3>2. QED
        BY <1>2, <1>3, <2>1, <3>1 DEF Ended
    <2>3. CASE doc[d] # NoDoc
      <3>1. /\ doc' = [doc EXCEPT ![d] = NoDoc] /\ head' = [head EXCEPT ![d] = NoRev]
            /\ revs' = [i \in DOMAIN revs \ History!RevsOf(d) |-> revs[i]]
        BY <1>5, <2>3 DEF Remove, History!Delete
      <3>2. /\ Recorded'
            /\ \A i \in DOMAIN revs : revs[i].doc # d => i \in DOMAIN revs' /\ revs'[i] = revs[i]
        BY <1>1, <3>1, RemovalRecords
      <3>3. SparesHeld(r)
        BY <1>1, <2>1, <3>1, <3>2 DEF SparesHeld, Recorded, NamesTheirDocument
      <3>4. Immutable
        BY <1>1, <3>1, <3>2 DEF Immutable, History!RevsOf
      <3>5. QED
        BY <1>2, <2>1, <3>2, <3>3, <3>4 DEF Ended
    <2>4. QED
      BY <2>2, <2>3
  <1>6. CASE Commit(r)
    <2>1. /\ pc[r] = "write" /\ Close(r, "ok") /\ \A d \in tx[r].keys : headLock[d] = r
          /\ doc' = [d \in Keys |-> IF docLock[d] = r THEN tx[r].text[d] ELSE doc[d]]
      BY <1>6 DEF Commit
    <2>2. PICK D \in SUBSET Keys : D = tx[r].keys
      BY <1>1 DEF Transaction
    <2>3. PICK rows : rows = [i \in {r} \X D |-> Row(r, i[2])]
      OBVIOUS
    <2>4. History!AppendRevisions(rows)
      BY <1>6, <2>2, <2>3 DEF Commit, History!AppendRevisions
    <2>5. ASSUME NEW d \in D
          PROVE  /\ <<r, d>> \notin DOMAIN revs
                 /\ rows[<<r, d>>].doc = d
                 /\ {rows[<<r, d>>].parent, rows[<<r, d>>].base}
                      \subseteq History!RevsOf(d) \cup {NoRev}
                 /\ doc'[d] # NoDoc /\ doc'[d] \in {rows[<<r, d>>].content, doc[d]}
      <3>1. <<r, d>> \notin DOMAIN revs
        BY <1>1, <2>1, <2>2 DEF Safe
      <3>2. rows[<<r, d>>] = Row(r, d)
        <4>1. <<r, d>> \in {r} \X D /\ <<r, d>>[2] = d
          OBVIOUS
        <4>2. QED
          BY <2>3, <4>1
      <3>3. LinksExist(r, d)
        BY <1>1, <2>1, <2>2 DEF Held
      <3>4. tx[r].heads[d] \in History!RevsOf(d) \cup {NoRev}
        <4>1. tx[r].heads[d] # NoRev => tx[r].heads[d][2] = d
          BY <1>1 DEF Held
        <4>2. QED
          BY <1>1, <3>3, <4>1 DEF LinksExist, Recorded, NamesTheirDocument, History!RevsOf
      <3>5. tx[r].base \in History!RevsOf(d) \cup {NoRev}
        <4>1. tx[r].base # NoRev => tx[r].base[2] = d
          BY <1>1, <2>2 DEF Held
        <4>2. QED
          BY <1>1, <3>3, <4>1 DEF LinksExist, Recorded, NamesTheirDocument, History!RevsOf
      <3>6. doc'[d] \in {tx[r].text[d], doc[d]} /\ tx[r].text[d] \in Contents /\ doc[d] # NoDoc
        BY <1>1, <2>1, <2>2, <3>3 DEF Safe, LinksExist
      <3>7. QED
        BY <3>1, <3>2, <3>4, <3>5, <3>6 DEF Row
    <2>6. \A d \in Keys \ D : doc'[d] = doc[d]
      BY <1>1, <2>1, <2>2 DEF Held
    <2>7. DOMAIN rows = {r} \X D
      BY <2>3
    <2>8. Recorded' /\ \A i \in DOMAIN revs : i \in DOMAIN revs' /\ revs'[i] = revs[i]
      <3>1. Appends(r, D, rows)
        BY <2>4, <2>5, <2>6, <2>7 DEF Appends
      <3>2. QED
        BY <1>1, <3>1, AppendRecords
    <2>9. \A d \in Keys : doc[d] # NoDoc => doc'[d] # NoDoc
      BY <2>5, <2>6
    <2>10. QED
      BY <1>2, <2>1, <2>8, <2>9 DEF Ended, SparesHeld, Immutable
  <1>7. QED
    BY <1>4, <1>5, <1>6 DEF Committing

LEMMA InitHasTrail == Init => TrailInv
  <1> SUFFICES ASSUME Init PROVE TrailInv
    OBVIOUS
  <1>1. PICK live \in SUBSET Keys, c \in Contents :
          /\ Protected \subseteq live
          /\ doc = [d \in Keys |-> IF d \in live THEN c ELSE NoDoc]
          /\ head = [d \in Keys |-> IF d \in live THEN <<Opening, d>> ELSE NoRev]
          /\ revs = [i \in {Opening} \X live |->
                       [doc |-> i[2], content |-> c, parent |-> NoRev, base |-> NoRev]]
    BY DEF Init
  <1>2. \A r \in Requests : Held(r)
    BY TxAssumption DEF Init, Held, NoTx
  <1>3. NamesTheirDocument
    BY <1>1 DEF NamesTheirDocument
  <1>4. \A d \in Keys : doc[d] # NoDoc <=> d \in live
    BY <1>1, TxAssumption
  <1>5. \A d \in Keys : History!RevsOf(d) = IF d \in live THEN {<<Opening, d>>} ELSE {}
    BY <1>1 DEF History!RevsOf
  <1>6. \A d \in live : revs[<<Opening, d>>] =
           [doc |-> d, content |-> c, parent |-> NoRev, base |-> NoRev]
    BY <1>1
  <1>7. LinksStayInDocument
    BY <1>1, <1>4, <1>5, <1>6 DEF LinksStayInDocument, History!LinksStayInDocument, History!Live
  <1>8. TextIsRecorded
    BY <1>1, <1>4, <1>5, <1>6 DEF TextIsRecorded, Live
  <1>9. QED
    BY <1>2, <1>3, <1>7, <1>8, InitHasTxInv DEF TrailInv, Recorded

LEMMA NextKeepsTrail ==
  ASSUME TrailInv, [Next]_vars
  PROVE  TrailInv' /\ (UNCHANGED <<doc, head, revs>> \/ Immutable)
  <1>1. TxInv'
    BY NextKeepsTxInv DEF TrailInv
  <1>2. ASSUME UNCHANGED <<doc, head, revs>>
        PROVE  Recorded' /\ \A r \in Requests : SparesHeld(r)
    BY <1>2 DEF TrailInv, Recorded, LinksStayInDocument, History!LinksStayInDocument,
                History!Live, History!RevsOf, TextIsRecorded, Live, NamesTheirDocument, SparesHeld
  <1>3. ASSUME NEW r \in Requests, Start(r) \/ Proceed(r) \/ Abandon(r)
        PROVE  TrailInv' /\ (UNCHANGED <<doc, head, revs>> \/ Immutable)
    <2>1. /\ Recorded' /\ OthersUntouched(r) /\ SparesHeld(r) /\ Held(r)'
          /\ UNCHANGED <<doc, head, revs>> \/ Immutable
      <3>1. CASE Quiet(r)
        BY <1>2, <3>1, QuietHolds DEF tables
      <3>2. CASE Committing(r)
        BY <3>2, CommittingRecords
      <3>3. QED
        BY <1>3, <3>1, <3>2 DEF Start, Proceed, Quiet, Committing
    <2>2. \A o \in Requests : Held(o)'
      BY <2>1, OthersKeepHolding DEF TrailInv
    <2>3. QED
      BY <1>1, <2>1, <2>2 DEF TrailInv
  <1>4. CASE UNCHANGED vars
    <2>1. UNCHANGED <<doc, head, revs>>
      BY <1>4 DEF vars, tables
    <2>2. \A r \in Requests : Held(r)'
      BY <1>4 DEF vars, tables, locks, TrailInv, Held, LinksExist
    <2>3. QED
      BY <1>1, <1>2, <2>1, <2>2 DEF TrailInv
  <1>5. QED
    BY <1>3, <1>4 DEF Next

(* Whatever kinds of request overlap, a head, a parent and a base stay within
   their document, and a deletion leaves no row behind. *)
THEOREM TxLinks == Spec => []LinksStayInDocument
  <1>1. TrailInv /\ [Next]_vars => TrailInv'
    BY NextKeepsTrail
  <1>2. TrailInv => LinksStayInDocument
    BY DEF TrailInv, Recorded
  <1>3. QED
    BY InitHasTrail, <1>1, <1>2, PTL DEF Spec

(* Nor is a text ever shown that none of the document's revisions holds, not
   even when overlapping requests leave the head on another one. *)
THEOREM TxTextIsRecorded == Spec => []TextIsRecorded
  <1>1. TrailInv /\ [Next]_vars => TrailInv'
    BY NextKeepsTrail
  <1>2. TrailInv => TextIsRecorded
    BY DEF TrailInv, Recorded
  <1>3. QED
    BY InitHasTrail, <1>1, <1>2, PTL DEF Spec

(* And no overlap rewrites a revision or loses one whose document stays. *)
THEOREM TxImmutable == Spec => History!RevisionsImmutable
  <1>1. TrailInv /\ [Next]_vars =>
          TrailInv' /\ [\A i \in DOMAIN revs :
                          \/ i \in DOMAIN revs' /\ revs'[i] = revs[i]
                          \/ i \notin DOMAIN revs' /\ doc'[revs[i].doc] = NoDoc]_(History!vars)
    BY NextKeepsTrail DEF Immutable, History!vars
  <1>2. QED
    BY InitHasTrail, <1>1, PTL DEF Spec, History!RevisionsImmutable

-----------------------------------------------------------------------------
(* Requests that only create, update and delete: each works on one document,
   holds its row from the UPDATE to the end, and until then the document is
   there and the head it has read is the head. *)
Edits(r) ==
  /\ pc[r] \in Running => \E d \in Keys : tx[r].keys = {d}
  /\ pc[r] = "remove" => tx[r].keys \cap Protected = {}
  /\ pc[r] \in {"start", "lock", "heads", "write"} => tx[r].base = NoRev
  /\ \A d \in Keys : docLock[d] = r <=> pc[r] \in {"heads", "write"} /\ d \in tx[r].keys
  /\ \A d \in Keys : docLock[d] = r => doc[d] # NoDoc
  /\ \A d \in Keys : docLock[d] = r /\ pc[r] = "write" => tx[r].heads[d] = head[d]

EditInv == TxInv /\ Serial!HistoryInv /\ \A r \in Requests : Edits(r)

(* A step of request r changes no document whose row another one holds. *)
SparesLocked(r) ==
  \A d \in Keys : docLock[d] \in Requests \ {r} => doc'[d] = doc[d] /\ head'[d] = head[d]

LEMMA OthersKeepEditing ==
  ASSUME NEW r \in Requests, OthersUntouched(r), SparesLocked(r),
         NEW o \in Requests \ {r}, Edits(o)
  PROVE  Edits(o)'
  BY DEF OthersUntouched, SparesLocked, Edits

LEMMA EndedEdits ==
  ASSUME SessionsTyped, NEW r \in Requests, NEW label \in Ended, Close(r, label)
  PROVE  Edits(r)'
  <1>1. pc'[r] = label /\ \A d \in Keys : docLock'[d] # r
    BY CloseTyped
  <1>2. QED
    BY <1>1 DEF Edits, Ended, Running

LEMMA SerialAssumption == Serial!ConstantsAssumption
  BY TxAssumption DEF Serial!ConstantsAssumption, RevIds

LEMMA QuietKeepsEdits ==
  ASSUME EditInv, Kinds \subseteq EditKinds, NEW r \in Requests, Quiet(r)
  PROVE  UNCHANGED tables /\ OthersUntouched(r) /\ Edits(r)'
  <1> USE TxAssumption
  <1>1. /\ tx[r] \in Transaction /\ Safe(r) /\ SessionsTyped /\ Edits(r) /\ None \notin Requests
        /\ docLock \in [Keys -> Requests \cup {None}]
        /\ tx \in [Requests -> Transaction] /\ pc \in [Requests -> {"start"} \cup Running \cup Ended]
        /\ headLock \in [Keys -> Requests \cup {None}]
    BY DEF EditInv, TxInv, TypeOK, SessionsTyped
  <1> DEFINE Goal == UNCHANGED tables /\ OthersUntouched(r) /\ Edits(r)'
  <1>2. ASSUME NEW label \in Ended, Close(r, label), UNCHANGED tables PROVE Goal
    BY <1>1, <1>2, EndedEdits, CloseTyped
  <1>3. ASSUME Fail(r) PROVE Goal
    BY <1>2, <1>3 DEF Fail, Ended
  <1>4. ASSUME NEW d \in Keys, NEW c \in Contents, StartCreate(r, d, c) PROVE Goal
    <2>1. OthersUntouched(r) /\ UNCHANGED tables
      BY <1>1, <1>4 DEF StartCreate, Goto, locks, OthersUntouched
    <2>2. pc'[r] = "insert" /\ tx'[r].keys = {d} /\ UNCHANGED docLock /\ pc[r] = "start"
      BY <1>1, <1>4 DEF StartCreate, Begin, Goto, locks, Transaction
    <2>3. Edits(r)'
      BY <1>1, <2>2 DEF Edits, Running
    <2>4. QED
      BY <2>1, <2>3
  <1>5. ASSUME NEW d \in Keys, NEW c \in Contents, StartUpdate(r, d, c) PROVE Goal
    <2>1. CASE doc[d] \in {NoDoc, c}
      BY <1>2, <1>5, <2>1 DEF StartUpdate, Ended
    <2>2. CASE doc[d] \notin {NoDoc, c}
      <3>1. OthersUntouched(r) /\ UNCHANGED tables
        BY <1>1, <1>5, <2>2 DEF StartUpdate, Goto, locks, OthersUntouched
      <3>2. /\ pc'[r] = "lock" /\ tx'[r].keys = {d} /\ tx'[r].base = tx[r].base
            /\ UNCHANGED docLock /\ pc[r] = "start"
        BY <1>1, <1>5, <2>2 DEF StartUpdate, Begin, Goto, locks, Transaction
      <3>3. Edits(r)'
        BY <1>1, <3>2 DEF Edits, Running
      <3>4. QED
        BY <3>1, <3>3
    <2>3. QED
      BY <2>1, <2>2
  <1>6. ASSUME NEW d \in Keys, StartDelete(r, d) PROVE Goal
    <2>1. CASE d \in Protected \/ doc[d] = NoDoc
      BY <1>2, <1>6, <2>1 DEF StartDelete, Ended
    <2>2. CASE ~(d \in Protected \/ doc[d] = NoDoc)
      <3>1. OthersUntouched(r) /\ UNCHANGED tables
        BY <1>1, <1>6, <2>2 DEF StartDelete, Goto, locks, OthersUntouched
      <3>2. /\ pc'[r] = "remove" /\ tx'[r].keys = {d}
            /\ UNCHANGED docLock /\ pc[r] = "start"
        BY <1>1, <1>6, <2>2 DEF StartDelete, Begin, Goto, locks, Transaction
      <3>3. Edits(r)'
        BY <1>1, <2>2, <3>2 DEF Edits, Running
      <3>4. QED
        BY <3>1, <3>3
    <2>3. QED
      BY <2>1, <2>2
  <1>7. ASSUME NEW d \in Keys, LockDocument(r, d) PROVE Goal
    <2>1. CASE doc[d] = NoDoc
      BY <1>3, <1>7, <2>1 DEF LockDocument
    <2>2. CASE doc[d] # NoDoc
      <3>1. /\ pc[r] = "lock" /\ docLock[d] = None /\ docLock' = [docLock EXCEPT ![d] = r]
            /\ pc' = [pc EXCEPT ![r] = "heads"] /\ UNCHANGED <<tables, headLock, tx>>
            /\ d \in tx[r].keys
        BY <1>7, <2>2 DEF LockDocument, Goto
      <3>2. tx[r].keys = {d}
        BY <1>1, <3>1 DEF Edits, Running
      <3>3. OthersUntouched(r)
        BY <1>1, <3>1 DEF OthersUntouched
      <3>4. pc'[r] = "heads" /\ tx'[r] = tx[r] /\ doc' = doc
        BY <1>1, <3>1 DEF tables
      <3>5. \A e \in Keys : docLock'[e] = r <=> e = d
        BY <1>1, <3>1 DEF Edits
      <3>6. Edits(r)'
        BY <1>1, <2>2, <3>1, <3>2, <3>4, <3>5 DEF Edits, Running
      <3>7. QED
        BY <3>1, <3>3, <3>6
    <2>3. QED
      BY <2>1, <2>2
  <1>8. CASE ReadHeads(r)
    <2>1. CASE \E d \in tx[r].keys : head[d] = NoRev
      BY <1>3, <1>8, <2>1 DEF ReadHeads
    <2>2. CASE ~ \E d \in tx[r].keys : head[d] = NoRev
      <3>1. /\ pc[r] = "heads" /\ tx' = [tx EXCEPT ![r].heads = head]
            /\ pc' = [pc EXCEPT ![r] = "write"] /\ UNCHANGED <<tables, locks>>
        BY <1>8, <2>2 DEF ReadHeads, Goto
      <3>2. OthersUntouched(r)
        BY <1>1, <3>1 DEF OthersUntouched, locks
      <3>3. /\ pc'[r] = "write" /\ tx'[r].heads = head /\ tx'[r].keys = tx[r].keys
            /\ tx'[r].base = tx[r].base
            /\ UNCHANGED <<doc, head, docLock>>
        BY <1>1, <3>1 DEF locks, tables, Transaction
      <3>4. Edits(r)'
        BY <1>1, <3>1, <3>3 DEF Edits, Running
      <3>5. QED
        BY <3>1, <3>2, <3>4
    <2>3. QED
      BY <2>1, <2>2
  <1>9. ASSUME NEW d \in Keys, WriteRevision(r, d) PROVE Goal
    <2>1. CASE ~LinksExist(r, d)
      BY <1>3, <1>9, <2>1 DEF WriteRevision
    <2>2. CASE LinksExist(r, d)
      <3>1. headLock' = [headLock EXCEPT ![d] = r] /\ headLock[d] = None
            /\ UNCHANGED <<tables, docLock, pc, tx>>
        BY <1>9, <2>2 DEF WriteRevision
      <3>2. OthersUntouched(r) /\ Edits(r)'
        BY <1>1, <3>1 DEF OthersUntouched, Edits, tables
      <3>3. QED
        BY <3>1, <3>2
    <2>3. QED
      BY <2>1, <2>2
  <1>10. ~StartCheckpoint(r) /\ \A d \in Keys, i \in RevIds : ~StartRevert(r, d, i)
    BY DEF StartCheckpoint, StartRevert, Begin, EditKinds
  <1>11. CASE Abandon(r) \/ DeadlockVictim(r)
    BY <1>3, <1>11 DEF Abandon, DeadlockVictim
  <1>12. QED
    BY <1>4, <1>5, <1>6, <1>7, <1>8, <1>9, <1>10, <1>11 DEF Quiet

(* What commits is one step of the serial history: a creation, an update, a
   deletion, or, for an update whose text has become the current one while it
   waited, a revert to the head. *)
LEMMA CommittingIsSerial ==
  ASSUME EditInv, NEW r \in Requests, Committing(r)
  PROVE  /\ [Serial!Next]_<<doc, head, revs>>
         /\ OthersUntouched(r) /\ SparesLocked(r) /\ Edits(r)'
  <1> USE TxAssumption
  <1>1. /\ tx[r] \in Transaction /\ Safe(r) /\ SessionsTyped /\ Edits(r)
        /\ docLock \in [Keys -> Requests \cup {None}]
        /\ doc \in [Keys -> Contents \cup {NoDoc}] /\ head \in [Keys -> RevIds \cup {NoRev}]
    BY DEF EditInv, TxInv, TypeOK, SessionsTyped, History!TypeOK
  <1>2. ASSUME NEW label \in Ended, Close(r, label)
        PROVE  OthersUntouched(r) /\ Edits(r)'
    BY <1>1, <1>2, EndedEdits, CloseTyped
  <1>3. ASSUME NEW d \in Keys, Insert(r, d)
        PROVE  [Serial!Next]_<<doc, head, revs>> /\ OthersUntouched(r) /\ SparesLocked(r) /\ Edits(r)'
    <2>1. CASE doc[d] # NoDoc
      BY <1>2, <1>3, <2>1 DEF Insert, Fail, Ended, tables, SparesLocked
    <2>2. CASE doc[d] = NoDoc
      <3>1. /\ pc[r] = "insert" /\ d \in tx[r].keys /\ docLock[d] = None /\ Close(r, "ok")
            /\ History!Create(d, tx[r].text[d], <<r, d>>)
        BY <1>3, <2>2 DEF Insert
      <3>2. PICK c \in Contents : c = tx[r].text[d]
        BY <1>1, <3>1 DEF Safe
      <3>3. PICK id \in RevIds : id = <<r, d>>
        BY DEF RevIds
      <3>4. Serial!Create(d, c, id)
        BY <3>1, <3>2, <3>3
           DEF History!Create, History!FreshIds, History!AppendRevision, History!AppendRevisions,
               Serial!Create, Serial!FreshIds, Serial!AppendRevision, Serial!AppendRevisions
      <3>5. Serial!Next
        BY <3>4 DEF Serial!Next
      <3>6. SparesLocked(r)
        <4>1. /\ doc' = [doc EXCEPT ![d] = c]
              /\ head' = [e \in Keys |-> IF \E i \in {id} : d = e
                                        THEN CHOOSE i \in {id} : d = e ELSE head[e]]
          BY <3>4 DEF Serial!Create, Serial!AppendRevision, Serial!AppendRevisions
        <4>2. QED
          BY <1>1, <3>1, <4>1 DEF SparesLocked
      <3>7. QED
        BY <1>2, <3>1, <3>5, <3>6 DEF Ended
    <2>3. QED
      BY <2>1, <2>2
  <1>4. ASSUME NEW d \in Keys, Remove(r, d)
        PROVE  [Serial!Next]_<<doc, head, revs>> /\ OthersUntouched(r) /\ SparesLocked(r) /\ Edits(r)'
    <2>1. pc[r] = "remove" /\ d \in tx[r].keys /\ docLock[d] = None /\ Close(r, "ok")
      BY <1>4 DEF Remove
    <2>2. CASE doc[d] = NoDoc
      BY <1>2, <1>4, <2>1, <2>2 DEF Remove, Ended, SparesLocked
    <2>3. CASE doc[d] # NoDoc
      <3>1. d \notin Protected
        BY <1>1, <2>1 DEF Edits
      <3>2. /\ doc' = [doc EXCEPT ![d] = NoDoc] /\ head' = [head EXCEPT ![d] = NoRev]
            /\ revs' = [i \in DOMAIN revs \ History!RevsOf(d) |-> revs[i]]
        BY <1>4, <2>3 DEF Remove, History!Delete
      <3>3. Serial!Delete(d)
        BY <2>3, <3>1, <3>2 DEF Serial!Delete, Serial!RevsOf, History!RevsOf
      <3>4. Serial!Next
        BY <3>3 DEF Serial!Next
      <3>5. SparesLocked(r)
        BY <1>1, <2>1, <3>2 DEF SparesLocked
      <3>6. QED
        BY <1>2, <2>1, <3>4, <3>5 DEF Ended
    <2>4. QED
      BY <2>2, <2>3
  <1>5. ASSUME Commit(r)
        PROVE  [Serial!Next]_<<doc, head, revs>> /\ OthersUntouched(r) /\ SparesLocked(r) /\ Edits(r)'
    <2>1. pc[r] = "write" /\ Close(r, "ok")
      BY <1>5 DEF Commit
    <2>2. PICK d \in Keys : tx[r].keys = {d}
      BY <1>1, <2>1 DEF Edits, Running
    <2>3. \A e \in Keys : docLock[e] = r <=> e = d
      BY <1>1, <2>1, <2>2 DEF Edits
    <2>4. doc[d] # NoDoc /\ tx[r].heads[d] = head[d] /\ tx[r].base = NoRev
      BY <1>1, <2>1, <2>3 DEF Edits
    <2>5. PICK c \in Contents : c = tx[r].text[d]
      BY <1>1, <2>1, <2>2 DEF Safe
    <2>6. PICK id \in RevIds : id = <<r, d>>
      BY DEF RevIds
    <2>7. id \notin DOMAIN revs
      BY <1>1, <2>1, <2>6 DEF Safe
    <2>8. doc' = [doc EXCEPT ![d] = c]
      <3>1. doc' = [e \in Keys |-> IF docLock[e] = r THEN tx[r].text[e] ELSE doc[e]]
        BY <1>5 DEF Commit
      <3>2. \A e \in Keys : doc'[e] = IF e = d THEN c ELSE doc[e]
        BY <2>3, <2>5, <3>1
      <3>3. QED
        BY <1>1, <3>1, <3>2
    <2>9. Serial!AppendRevision(id, d, c, head[d], head[d])
      <3>1. Row(r, d) = [doc |-> d, content |-> c, parent |-> head[d], base |-> head[d]]
        BY <2>4, <2>5 DEF Row
      <3>2. {r} \X tx[r].keys = {id} /\ id[2] = d
        BY <2>2, <2>6
      <3>3. [i \in {r} \X tx[r].keys |-> Row(r, i[2])]
              = [j \in {id} |-> [doc |-> d, content |-> c, parent |-> head[d], base |-> head[d]]]
        BY <3>1, <3>2
      <3>4. PICK rows : /\ rows = [i \in {r} \X tx[r].keys |-> Row(r, i[2])]
                        /\ rows = [j \in {id} |-> [doc |-> d, content |-> c,
                                                   parent |-> head[d], base |-> head[d]]]
        BY <3>3
      <3>5. Serial!AppendRevisions(rows)
        BY <1>5, <3>4 DEF Commit, History!AppendRevisions, Serial!AppendRevisions
      <3>6. QED
        BY <3>4, <3>5 DEF Serial!AppendRevision, Serial!AppendRevisions
    <2>10. head[d] \in Serial!RevsOf(d) /\ revs[head[d]].content = doc[d]
      BY <2>4 DEF EditInv, Serial!HistoryInv, Serial!LinksStayInDocument,
                  Serial!HeadMatchesDocument, Serial!Live
    <2>11. Serial!Next
      <3>1. id \in Serial!FreshIds
        BY <2>7 DEF Serial!FreshIds
      <3>2. CASE doc[d] # c
        <4>1. Serial!Update(d, c, id)
          BY <2>4, <2>8, <2>9, <3>1, <3>2 DEF Serial!Update
        <4>2. QED
          BY <4>1 DEF Serial!Next
      <3>3. CASE doc[d] = c
        <4>1. PICK t \in RevIds : t = head[d]
          BY <1>1, <2>10 DEF Serial!RevsOf, EditInv, Serial!HistoryInv, Serial!TypeOK
        <4>2. Serial!Revert(d, t, id)
          BY <2>4, <2>8, <2>9, <2>10, <3>1, <3>3, <4>1 DEF Serial!Revert
        <4>3. QED
          BY <4>2 DEF Serial!Next
      <3>4. QED
        BY <3>2, <3>3
    <2>12. SparesLocked(r)
      <3>1. head' = [e \in Keys |-> IF \E i \in {id} : d = e
                                   THEN CHOOSE i \in {id} : d = e ELSE head[e]]
        BY <2>9 DEF Serial!AppendRevision, Serial!AppendRevisions
      <3>2. QED
        BY <1>1, <2>3, <2>8, <3>1 DEF SparesLocked
    <2>13. QED
      BY <1>2, <2>1, <2>11, <2>12 DEF Ended
  <1>6. QED
    BY <1>3, <1>4, <1>5 DEF Committing

LEMMA InitIsSerial == Init => Serial!Init
  <1> SUFFICES ASSUME Init PROVE Serial!Init
    OBVIOUS
  <1>1. PICK live \in SUBSET Keys, c \in Contents :
          /\ Protected \subseteq live
          /\ doc = [d \in Keys |-> IF d \in live THEN c ELSE NoDoc]
          /\ head = [d \in Keys |-> IF d \in live THEN <<Opening, d>> ELSE NoRev]
          /\ revs = [i \in {Opening} \X live |->
                       [doc |-> i[2], content |-> c, parent |-> NoRev, base |-> NoRev]]
    BY DEF Init
  <1>2. PICK id \in [live -> RevIds] : id = [d \in live |-> <<Opening, d>>]
    BY DEF RevIds
  <1>3. \A d \in live : id[d] = <<Opening, d>>
    BY <1>2
  <1>4. {Opening} \X live = {id[d] : d \in live}
    BY <1>3
  <1>5. \A i \in {Opening} \X live : i[2] = CHOOSE d \in live : id[d] = i
    BY <1>3
  <1>6. revs = [i \in {id[d] : d \in live} |->
                  [doc |-> CHOOSE d \in live : id[d] = i, content |-> c,
                   parent |-> NoRev, base |-> NoRev]]
    BY <1>1, <1>4, <1>5
  <1>7. head = [d \in Keys |-> IF d \in live THEN id[d] ELSE NoRev]
    BY <1>1, <1>3
  <1>8. Serial!Opened(live, c, id)
    BY SMTT(30), <1>1, <1>3, <1>6, <1>7 DEF Serial!Opened
  <1>9. QED
    BY <1>2, <1>8 DEF Serial!Init

LEMMA InitHasEditInv == Init => EditInv
  <1> SUFFICES ASSUME Init PROVE EditInv
    OBVIOUS
  <1>1. Serial!HistoryInv
    BY InitIsSerial, Serial!InitHasInv, SerialAssumption
  <1>2. \A r \in Requests : Edits(r)
    BY TxAssumption DEF Init, Edits, Running, NoTx
  <1>3. QED
    BY <1>1, <1>2, InitHasTxInv DEF EditInv

LEMMA NextIsSerial ==
  ASSUME Kinds \subseteq EditKinds, EditInv, [Next]_vars
  PROVE  EditInv' /\ [Serial!Next]_<<doc, head, revs>>
  <1>1. TxInv'
    BY NextKeepsTxInv DEF EditInv
  <1>2. ASSUME [Serial!Next]_<<doc, head, revs>> PROVE Serial!HistoryInv'
    BY <1>2, Serial!NextKeepsInv, SerialAssumption DEF EditInv, Serial!vars
  <1>3. ASSUME NEW r \in Requests, Start(r) \/ Proceed(r) \/ Abandon(r)
        PROVE  EditInv' /\ [Serial!Next]_<<doc, head, revs>>
    <2>1. /\ [Serial!Next]_<<doc, head, revs>>
          /\ OthersUntouched(r) /\ SparesLocked(r) /\ Edits(r)'
      <3>1. CASE Quiet(r)
        BY <3>1, QuietKeepsEdits DEF tables, SparesLocked
      <3>2. CASE Committing(r)
        BY <3>2, CommittingIsSerial
      <3>3. QED
        BY <1>3, <3>1, <3>2 DEF Start, Proceed, Quiet, Committing
    <2>2. \A o \in Requests : Edits(o)'
      BY <2>1, OthersKeepEditing DEF EditInv
    <2>3. QED
      BY <1>1, <1>2, <2>1, <2>2 DEF EditInv
  <1>4. CASE UNCHANGED vars
    <2>1. \A r \in Requests : Edits(r)'
      BY <1>4 DEF vars, tables, locks, EditInv, Edits
    <2>2. UNCHANGED <<doc, head, revs>>
      BY <1>4 DEF vars, tables
    <2>3. QED
      BY <1>1, <1>2, <2>1, <2>2 DEF EditInv
  <1>5. QED
    BY <1>3, <1>4 DEF Next

-----------------------------------------------------------------------------
(* Any number of creations, updates and deletions that overlap at READ
   COMMITTED have the effect of a serial history: each step of theirs is a
   step of DocumentHistory or changes none of its tables. *)
THEOREM EditsActAsHistory ==
  ASSUME Kinds \subseteq EditKinds
  PROVE  Spec => ActsAsHistory
  <1>1. EditInv /\ [Next]_vars => EditInv' /\ [Serial!Next]_<<doc, head, revs>>
    BY NextIsSerial
  <1>2. Serial!Init => History!Init
    BY DEF Serial!Init, Serial!Opened, History!Init, History!Opened
  <1>3. [Serial!Next]_<<doc, head, revs>> => [History!Next]_History!vars
    BY DEF History!vars, Serial!Next, Serial!Create, Serial!Update, Serial!Revert,
           Serial!Checkpoint, Serial!Delete, Serial!AppendRevision, Serial!AppendRevisions,
           Serial!FreshIds, Serial!RevsOf, Serial!Live, History!Next, History!Create,
           History!Update, History!Revert, History!Checkpoint, History!Delete,
           History!AppendRevision, History!AppendRevisions, History!FreshIds,
           History!RevsOf, History!Live
  <1>4. QED
    BY InitIsSerial, InitHasEditInv, <1>1, <1>2, <1>3, PTL
       DEF Spec, ActsAsHistory, History!Spec

(* With them, a document shows the text of its current revision, links stay in
   their document, and the trail of each document is one line, as if no two
   requests had ever met. *)
THEOREM EditsKeepHistory ==
  ASSUME Kinds \subseteq EditKinds
  PROVE  Spec => [](HeadMatchesDocument /\ LinksStayInDocument /\ History!LinearHistory)
  <1>1. EditInv /\ [Next]_vars => EditInv'
    BY NextIsSerial
  <1>2. EditInv => HeadMatchesDocument /\ LinksStayInDocument /\ History!LinearHistory
    BY DEF EditInv, Serial!HistoryInv, Serial!HeadMatchesDocument, Serial!LinksStayInDocument,
           Serial!LinearHistory, Serial!Live, Serial!RevsOf, HeadMatchesDocument,
           LinksStayInDocument, History!HeadMatchesDocument, History!LinksStayInDocument,
           History!LinearHistory, History!Live, History!RevsOf
  <1>3. QED
    BY InitHasEditInv, <1>1, <1>2, PTL DEF Spec
=============================================================================
