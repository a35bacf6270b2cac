----------------------- MODULE DocumentHistory_proofs -----------------------
(***************************************************************************)
(* The invariants of DocumentHistory hold for every set of keys, texts and *)
(* revision identifiers.                                                   *)
(***************************************************************************)
EXTENDS DocumentHistory, TLAPS

(* The inductive invariant: the head of a document agrees with its text and
   every revision lies on the chain that ends in the head. The links have to
   be part of it, since a fresh identifier is no old revision's parent only
   because parents are existing revisions. *)
HistoryInv == TypeOK /\ LinksStayInDocument /\ HeadMatchesDocument /\ LinearHistory

(* Every document d of D gets one new revision, which becomes its head: the
   new text of d, with the old head as parent. *)
Appends(D) ==
  /\ doc' \in [Keys -> Contents \cup {NoDoc}]
  /\ head' \in [Keys -> RevIds \cup {NoRev}]
  /\ \A d \in Keys \ D : doc'[d] = doc[d] /\ head'[d] = head[d]
  /\ \A i : i \in DOMAIN revs' <=> i \in DOMAIN revs \/ \E d \in D : i = head'[d]
  /\ \A i \in DOMAIN revs : revs'[i] = revs[i]
  /\ \A d \in D :
       /\ doc'[d] # NoDoc
       /\ head'[d] \in FreshIds
       /\ revs'[head'[d]] \in Revision
       /\ revs'[head'[d]].doc = d
       /\ revs'[head'[d]].content = doc'[d]
       /\ revs'[head'[d]].parent = head[d]
       /\ revs'[head'[d]].base \in RevsOf(d) \cup {NoRev}

-----------------------------------------------------------------------------
(* Appending revisions whose parents are the heads keeps each document's
   history a line, and the first revision of a new document starts one. *)
LEMMA AppendKeepsInv ==
  ASSUME HistoryInv, NEW D \in SUBSET Keys, Appends(D)
  PROVE  HistoryInv'
  <1> USE ConstantsAssumption
  <1>1. \A d \in D : /\ head'[d] \in RevIds /\ head'[d] \notin DOMAIN revs
                     /\ head'[d] # NoRev /\ head'[d] \in DOMAIN revs'
                     /\ revs'[head'[d]].doc = d
                     /\ revs'[head'[d]].content = doc'[d]
                     /\ revs'[head'[d]].parent = head[d]
    BY DEF FreshIds, Appends
  <1>2. \A d \in D : head[d] \in RevsOf(d) \cup {NoRev}
    BY DEF HistoryInv, LinksStayInDocument, Live
  <1>3. TypeOK'
    <2>1. ASSUME NEW i \in DOMAIN revs' PROVE i \in RevIds /\ revs'[i] \in Revision
      <3>1. CASE i \in DOMAIN revs
        BY <3>1 DEF Appends, HistoryInv, TypeOK, Revision
      <3>2. CASE i \notin DOMAIN revs
        <4>1. PICK d \in D : i = head'[d]
          BY <3>2 DEF Appends
        <4>2. QED
          BY <4>1, <1>1 DEF Appends
      <3>3. QED
        BY <3>1, <3>2
    <2>2. QED
      BY <2>1 DEF TypeOK, Appends
  <1>4. ASSUME NEW d \in D PROVE RevsOf(d)' = RevsOf(d) \cup {head'[d]}
    BY <1>1 DEF RevsOf, Appends
  <1>5. ASSUME NEW d \in Keys \ D PROVE RevsOf(d)' = RevsOf(d)
    BY <1>1 DEF RevsOf, Appends
  <1>6. Live' = Live \cup D
    BY DEF Live, Appends
  <1>7. LinksStayInDocument'
    <2>1. \A d \in Live' : head'[d] \in RevsOf(d)'
      BY <1>4, <1>5, <1>6 DEF HistoryInv, LinksStayInDocument, Live, Appends
    <2>2. \A d \in Keys \ Live' : head'[d] = NoRev /\ RevsOf(d)' = {}
      BY <1>5, <1>6 DEF HistoryInv, LinksStayInDocument, Live, Appends
    <2>3. ASSUME NEW d \in Keys, NEW i \in RevsOf(d)'
          PROVE  {revs'[i].parent, revs'[i].base} \subseteq RevsOf(d)' \cup {NoRev}
      <3>1. CASE i \in DOMAIN revs
        <4>1. i \in RevsOf(d) /\ revs'[i] = revs[i]
          BY <3>1, <2>3 DEF RevsOf, Appends
        <4>2. RevsOf(d) \subseteq RevsOf(d)'
          BY <1>4, <1>5
        <4>3. QED
          BY <4>1, <4>2 DEF HistoryInv, LinksStayInDocument
      <3>2. CASE i \notin DOMAIN revs
        <4>1. PICK e \in D : i = head'[e]
          BY <3>2, <2>3 DEF RevsOf, Appends
        <4>2. e = d
          BY <4>1, <1>1, <2>3 DEF RevsOf
        <4>3. revs'[i].parent = head[d] /\ revs'[i].base \in RevsOf(d) \cup {NoRev}
          BY <4>1, <4>2 DEF Appends
        <4>4. QED
          BY <4>1, <4>2, <4>3, <1>2, <1>4
      <3>3. QED
        BY <3>1, <3>2
    <2>4. QED
      BY <2>1, <2>2, <2>3 DEF LinksStayInDocument
  <1>8. HeadMatchesDocument'
    <2>1. ASSUME NEW d \in Live'
          PROVE head'[d] \in DOMAIN revs' /\ revs'[head'[d]].content = doc'[d]
      <3>1. CASE d \in D
        BY <3>1, <1>1
      <3>2. CASE d \notin D
        BY <3>2, <1>6, <2>1 DEF HistoryInv, HeadMatchesDocument, Live, Appends
      <3>3. QED
        BY <3>1, <3>2
    <2>2. QED
      BY <2>1 DEF HeadMatchesDocument
  <1>9. LinearHistory'
    <2>1. SUFFICES ASSUME NEW k \in Live', NEW S \in SUBSET (RevsOf(k)'),
                          head'[k] \in S,
                          \A i \in S : revs'[i].parent \in S \cup {NoRev}
                   PROVE  S = RevsOf(k)'
      BY DEF LinearHistory
    <2>2. CASE k \notin D
      <3>1. k \in Live /\ k \in Keys /\ head'[k] = head[k] /\ RevsOf(k)' = RevsOf(k)
        BY <2>2, <1>5, <1>6 DEF Live, Appends
      <3>2. \A i \in S : revs[i].parent \in S \cup {NoRev}
        BY <3>1, <2>1 DEF RevsOf, Appends
      <3>3. QED
        BY <3>1, <3>2, <2>1 DEF HistoryInv, LinearHistory
    <2>3. CASE k \in D /\ k \in Live
      <3> DEFINE n == head'[k]
                 T == S \ {n}
      <3>1. n \in S /\ T \subseteq RevsOf(k)
        BY <2>1, <2>3, <1>4
      <3>2. head[k] \in T
        <4>1. head[k] \in RevsOf(k)
          BY <2>3 DEF HistoryInv, LinksStayInDocument
        <4>2. head[k] \in S \cup {NoRev}
          BY <2>1, <2>3, <1>1
        <4>3. head[k] # n /\ head[k] # NoRev
          BY <4>1, <2>3, <1>1 DEF RevsOf, HistoryInv, TypeOK
        <4>4. QED
          BY <4>2, <4>3
      <3>3. ASSUME NEW i \in T PROVE revs[i].parent \in T \cup {NoRev}
        <4>1. i \in RevsOf(k) /\ revs'[i] = revs[i]
          BY <3>1 DEF RevsOf, Appends
        <4>2. revs[i].parent \in RevsOf(k) \cup {NoRev}
          BY <4>1, <2>3 DEF HistoryInv, LinksStayInDocument
        <4>3. revs[i].parent # n
          BY <4>2, <2>3, <1>1 DEF RevsOf
        <4>4. QED
          BY <4>1, <4>3, <2>1
      <3>4. T = RevsOf(k)
        BY <3>1, <3>2, <3>3, <2>3 DEF HistoryInv, LinearHistory
      <3>5. QED
        BY <3>1, <3>4, <2>3, <1>4
    <2>4. CASE k \in D /\ k \notin Live
      <3>1. RevsOf(k) = {}
        BY <2>4 DEF HistoryInv, LinksStayInDocument
      <3>2. RevsOf(k)' = {head'[k]}
        BY <2>4, <3>1, <1>4
      <3>3. QED
        BY <2>1, <3>2
    <2>5. QED
      BY <2>2, <2>3, <2>4
  <1>10. QED
    BY <1>3, <1>7, <1>8, <1>9 DEF HistoryInv

(* _append_revision of one row adds to one document's history. *)
LEMMA AppendRevisionAppends ==
  ASSUME HistoryInv, NEW i \in FreshIds, NEW d \in Keys, NEW c \in Contents,
         NEW base \in RevsOf(d) \cup {NoRev},
         doc' = [doc EXCEPT ![d] = c],
         AppendRevision(i, d, c, head[d], base)
  PROVE  Appends({d})
  <1> USE ConstantsAssumption
  <1> DEFINE row == [doc |-> d, content |-> c, parent |-> head[d], base |-> base]
             rows == [j \in {i} |-> row]
  <1>1. AppendRevisions(rows)
    BY DEF AppendRevision
  <1>2. DOMAIN rows = {i} /\ rows[i] = row
    OBVIOUS
  <1>3. /\ row \in Revision /\ row.doc = d /\ row.content = c
        /\ row.parent = head[d] /\ row.base = base
    BY DEF HistoryInv, TypeOK, Revision, RevsOf
  <1> HIDE DEF row, rows
  <1>4. (CHOOSE j \in {i} : rows[j].doc = d) = i
    BY <1>2, <1>3
  <1>5. \A k \in Keys : (\E j \in {i} : rows[j].doc = k) <=> k = d
    BY <1>2, <1>3
  <1>6. head' = [k \in Keys |-> IF k = d THEN i ELSE head[k]]
    BY <1>1, <1>2, <1>4, <1>5 DEF AppendRevisions
  <1>7. revs' = [j \in DOMAIN revs \cup {i} |-> IF j = i THEN row ELSE revs[j]]
    BY <1>1, <1>2 DEF AppendRevisions
  <1>8. head'[d] = i /\ doc'[d] = c /\ revs'[i] = row
    BY <1>6, <1>7 DEF HistoryInv, TypeOK
  <1>9. head' \in [Keys -> RevIds \cup {NoRev}]
    BY <1>6 DEF HistoryInv, TypeOK, FreshIds
  <1>10. doc' \in [Keys -> Contents \cup {NoDoc}] /\ c # NoDoc
    BY DEF HistoryInv, TypeOK
  <1>11. \A k \in Keys \ {d} : doc'[k] = doc[k] /\ head'[k] = head[k]
    BY <1>6 DEF HistoryInv, TypeOK
  <1>12. /\ \A j : j \in DOMAIN revs' <=> j \in DOMAIN revs \/ \E k \in {d} : j = head'[k]
         /\ \A j \in DOMAIN revs : revs'[j] = revs[j]
    BY <1>7, <1>8 DEF FreshIds
  <1>13. QED
    BY <1>3, <1>8, <1>9, <1>10, <1>11, <1>12 DEF Appends

(* A deletion takes all revisions of its document and touches no other. *)
LEMMA DeleteKeepsInv ==
  ASSUME HistoryInv, NEW d \in Keys, Delete(d)
  PROVE  HistoryInv'
  <1> USE ConstantsAssumption DEF Delete
  <1>1. TypeOK'
    BY DEF HistoryInv, TypeOK, RevsOf
  <1>2. /\ RevsOf(d)' = {}
        /\ \A k \in Keys \ {d} : RevsOf(k)' = RevsOf(k)
        /\ \A i \in DOMAIN revs' : revs'[i] = revs[i]
    BY DEF RevsOf
  <1>3. Live' = Live \ {d}
    BY DEF Live, HistoryInv, TypeOK
  <1>4. /\ \A k \in Live' : head'[k] = head[k] /\ doc'[k] = doc[k] /\ k \in Live
        /\ head'[d] = NoRev
        /\ \A k \in Keys \ {d} : head'[k] = head[k]
    BY <1>3 DEF HistoryInv, TypeOK, Live
  <1>5. LinksStayInDocument'
    <2>1. \A k \in Live' : head'[k] \in RevsOf(k)'
      BY <1>2, <1>3, <1>4 DEF HistoryInv, LinksStayInDocument, Live
    <2>2. \A k \in Keys \ Live' : head'[k] = NoRev /\ RevsOf(k)' = {}
      BY <1>2, <1>3, <1>4 DEF HistoryInv, LinksStayInDocument
    <2>3. \A k \in Keys : \A i \in RevsOf(k)' :
            {revs'[i].parent, revs'[i].base} \subseteq RevsOf(k)' \cup {NoRev}
      BY <1>2 DEF HistoryInv, LinksStayInDocument, RevsOf
    <2>4. QED
      BY <2>1, <2>2, <2>3 DEF LinksStayInDocument
  <1>6. HeadMatchesDocument'
    BY <1>2, <1>3, <1>4, <1>5
       DEF HistoryInv, HeadMatchesDocument, LinksStayInDocument, RevsOf
  <1>7. LinearHistory'
    <2>1. SUFFICES ASSUME NEW k \in Live', NEW S \in SUBSET (RevsOf(k)'),
                          head'[k] \in S,
                          \A i \in S : revs'[i].parent \in S \cup {NoRev}
                   PROVE  S = RevsOf(k)'
      BY DEF LinearHistory
    <2>2. k \in Live /\ RevsOf(k)' = RevsOf(k) /\ head[k] \in S
      BY <2>1, <1>2, <1>3, <1>4 DEF Live
    <2>3. \A i \in S : revs[i].parent \in S \cup {NoRev}
      BY <2>1, <1>2 DEF RevsOf
    <2>4. QED
      BY <2>2, <2>3, <2>1 DEF HistoryInv, LinearHistory
  <1>8. QED
    BY <1>1, <1>5, <1>6, <1>7 DEF HistoryInv

LEMMA InitHasInv == Init => HistoryInv
  <1> USE ConstantsAssumption
  <1> SUFFICES ASSUME Init PROVE HistoryInv
    OBVIOUS
  <1>12. PICK live \in SUBSET Keys, c \in Contents :
          \E id \in [live -> RevIds] : Opened(live, c, id)
    BY DEF Init
  <1>13. PICK id \in [live -> RevIds] : Opened(live, c, id)
    BY <1>12
  <1>1. /\ \A d1, d2 \in live : id[d1] = id[d2] => d1 = d2
        /\ doc = [d \in Keys |-> IF d \in live THEN c ELSE NoDoc]
        /\ head = [d \in Keys |-> IF d \in live THEN id[d] ELSE NoRev]
        /\ revs = [i \in {id[d] : d \in live} |->
                     [doc |-> CHOOSE d \in live : id[d] = i, content |-> c,
                      parent |-> NoRev, base |-> NoRev]]
    BY <1>13 DEF Opened
  <1>2. \A d \in live : (CHOOSE e \in live : id[e] = id[d]) = d
    BY <1>1
  <1>3. \A i : i \in DOMAIN revs <=> \E d \in live : i = id[d]
    BY <1>1
  <1>4. ASSUME NEW d \in live
        PROVE  /\ revs[id[d]] \in Revision
               /\ revs[id[d]].doc = d /\ revs[id[d]].content = c
               /\ revs[id[d]].parent = NoRev /\ revs[id[d]].base = NoRev
    <2>1. revs[id[d]] = [doc |-> d, content |-> c, parent |-> NoRev, base |-> NoRev]
      BY <1>1, <1>2
    <2>2. QED
      BY <2>1 DEF Revision
  <1>5. Live = live
    BY <1>1 DEF Live
  <1>6. /\ \A d \in live : RevsOf(d) = {id[d]}
        /\ \A d \in Keys \ live : RevsOf(d) = {}
    BY <1>3, <1>4 DEF RevsOf
  <1>7. TypeOK
    <2>1. \A i \in DOMAIN revs : i \in RevIds /\ revs[i] \in Revision
      BY <1>3, <1>4
    <2>2. QED
      BY <2>1, <1>1 DEF TypeOK
  <1>8. LinksStayInDocument
    <2>1. \A d \in Keys : \A i \in RevsOf(d) :
            revs[i].parent = NoRev /\ revs[i].base = NoRev
      BY <1>4, <1>6
    <2>2. QED
      BY <2>1, <1>1, <1>5, <1>6 DEF LinksStayInDocument
  <1>9. HeadMatchesDocument
    BY <1>1, <1>3, <1>4, <1>5 DEF HeadMatchesDocument
  <1>10. LinearHistory
    BY <1>1, <1>5, <1>6 DEF LinearHistory
  <1>11. QED
    BY <1>7, <1>8, <1>9, <1>10 DEF HistoryInv

(* Every request appends revisions to some documents or deletes one. *)
LEMMA NextAppendsOrDeletes ==
  ASSUME HistoryInv, Next
  PROVE  (\E D \in SUBSET Keys : Appends(D)) \/ (\E d \in Keys : Delete(d))
  <1> USE ConstantsAssumption
  <1>1. ASSUME NEW d \in Keys, NEW c \in Contents, NEW i \in RevIds, Create(d, c, i)
        PROVE  \E D \in SUBSET Keys : Appends(D)
    <2>1. head[d] = NoRev
      BY <1>1 DEF HistoryInv, LinksStayInDocument, Live, Create
    <2>2. AppendRevision(i, d, c, head[d], NoRev)
      BY <1>1, <2>1 DEF Create, AppendRevision
    <2>3. Appends({d})
      BY <1>1, <2>2, AppendRevisionAppends DEF Create
    <2>4. QED
      BY <2>3
  <1>2. ASSUME NEW d \in Keys, NEW c \in Contents, NEW i \in RevIds, Update(d, c, i)
        PROVE  \E D \in SUBSET Keys : Appends(D)
    <2>1. PICK base \in RevsOf(d) : base = head[d]
      BY <1>2 DEF HistoryInv, LinksStayInDocument, Live, Update
    <2>2. AppendRevision(i, d, c, head[d], base)
      BY <1>2, <2>1 DEF Update, AppendRevision
    <2>3. Appends({d})
      BY <1>2, <2>2, AppendRevisionAppends DEF Update
    <2>4. QED
      BY <2>3
  <1>3. ASSUME NEW d \in Keys, NEW t \in RevIds, NEW i \in RevIds, Revert(d, t, i)
        PROVE  \E D \in SUBSET Keys : Appends(D)
    <2>1. PICK c \in Contents : c = revs[t].content
      BY <1>3 DEF Revert, RevsOf, HistoryInv, TypeOK, Revision
    <2>2. AppendRevision(i, d, c, head[d], t) /\ doc' = [doc EXCEPT ![d] = c]
      BY <1>3, <2>1 DEF Revert, AppendRevision
    <2>3. Appends({d})
      BY <1>3, <2>2, AppendRevisionAppends DEF Revert
    <2>4. QED
      BY <2>3
  <1>4. ASSUME NEW id \in [Live -> FreshIds], Checkpoint(id)
        PROVE  \E D \in SUBSET Keys : Appends(D)
    <2> DEFINE Ids == {id[d] : d \in Live}
               Doc(i) == CHOOSE k \in Live : id[k] = i
               rows == [i \in Ids |->
                          [doc |-> Doc(i), content |-> doc[Doc(i)],
                           parent |-> head[Doc(i)], base |-> head[Doc(i)]]]
    <2>1. \A d \in Live : id[d] \in Ids /\ Doc(id[d]) = d
      BY <1>4 DEF Checkpoint
    <2>2. \A i : i \in Ids <=> \E d \in Live : i = id[d]
      OBVIOUS
    <2>3. AppendRevisions(rows) /\ doc' = doc
      BY <1>4 DEF Checkpoint
    <2>4. DOMAIN rows = Ids
      OBVIOUS
    <2>5. \A d \in Live : rows[id[d]] = [doc |-> d, content |-> doc[d],
                                         parent |-> head[d], base |-> head[d]]
      BY <2>1
    <2> HIDE DEF Ids, Doc, rows
    <2>6. \A d \in Live : /\ rows[id[d]].doc = d /\ rows[id[d]].content = doc[d]
                          /\ rows[id[d]].parent = head[d] /\ rows[id[d]].base = head[d]
      <3>1. ASSUME NEW d \in Live
            PROVE  /\ rows[id[d]].doc = d /\ rows[id[d]].content = doc[d]
                   /\ rows[id[d]].parent = head[d] /\ rows[id[d]].base = head[d]
        <4> DEFINE row == [doc |-> d, content |-> doc[d], parent |-> head[d],
                           base |-> head[d]]
        <4>1. /\ row.doc = d /\ row.content = doc[d]
              /\ row.parent = head[d] /\ row.base = head[d]
          OBVIOUS
        <4>2. rows[id[d]] = row
          BY <2>5
        <4> HIDE DEF row
        <4>3. QED
          BY <4>1, <4>2
      <3>2. QED
        BY <3>1
    <2>7. \A d \in Live : (CHOOSE i \in Ids : rows[i].doc = d) = id[d]
      BY <2>1, <2>2, <2>6
    <2>8. \A d \in Keys : (\E i \in Ids : rows[i].doc = d) <=> d \in Live
      BY <2>1, <2>2, <2>6
    <2>9. head' = [d \in Keys |-> IF d \in Live THEN id[d] ELSE head[d]]
      <3>1. head' = [d \in Keys |-> IF \E i \in Ids : rows[i].doc = d
                                    THEN CHOOSE i \in Ids : rows[i].doc = d
                                    ELSE head[d]]
        BY <2>3, <2>4 DEF AppendRevisions
      <3>2. \A d \in Keys : head'[d] = IF d \in Live THEN id[d] ELSE head[d]
        BY <3>1, <2>7, <2>8
      <3>3. QED
        BY <3>1, <3>2
    <2>10. revs' = [i \in DOMAIN revs \cup Ids |-> IF i \in Ids THEN rows[i] ELSE revs[i]]
      BY <2>3, <2>4 DEF AppendRevisions
    <2>11. \A d \in Live : head[d] \in RevsOf(d) /\ doc[d] # NoDoc /\ d \in Keys
      BY DEF HistoryInv, LinksStayInDocument, Live
    <2>12. ASSUME NEW d \in Live
           PROVE  /\ head'[d] = id[d] /\ id[d] \in FreshIds
                  /\ revs'[id[d]] = rows[id[d]] /\ rows[id[d]] \in Revision
      <3>1. [doc |-> d, content |-> doc[d], parent |-> head[d], base |-> head[d]]
              \in Revision
        BY <2>11 DEF HistoryInv, TypeOK, Revision
      <3>2. QED
        BY <2>1, <2>5, <2>9, <2>10, <2>11, <3>1
    <2>13. Appends(Live)
      <3>1. head' \in [Keys -> RevIds \cup {NoRev}]
        BY <2>9 DEF FreshIds, HistoryInv, TypeOK
      <3>2. \A i : i \in DOMAIN revs' <=> i \in DOMAIN revs \/ \E d \in Live : i = head'[d]
        BY SMTT(30), <2>2, <2>10, <2>12
      <3>3. \A i \in DOMAIN revs : revs'[i] = revs[i]
        BY <2>2, <2>10, <2>12 DEF FreshIds
      <3>4. \A d \in Keys \ Live : doc'[d] = doc[d] /\ head'[d] = head[d]
        BY <2>3, <2>9
      <3>5. doc' \in [Keys -> Contents \cup {NoDoc}]
        BY <2>3 DEF HistoryInv, TypeOK
      <3>6. QED
        BY <2>3, <2>6, <2>11, <2>12, <3>1, <3>2, <3>3, <3>4, <3>5 DEF Appends
    <2>14. QED
      BY <2>13 DEF Live
  <1>5. QED
    BY <1>1, <1>2, <1>3, <1>4 DEF Next

LEMMA NextKeepsInv == HistoryInv /\ [Next]_vars => HistoryInv'
  <1> SUFFICES ASSUME HistoryInv, [Next]_vars PROVE HistoryInv'
    OBVIOUS
  <1>1. CASE Next
    BY <1>1, NextAppendsOrDeletes, AppendKeepsInv, DeleteKeepsInv
  <1>2. CASE UNCHANGED vars
    BY <1>2 DEF vars, HistoryInv, TypeOK, LinksStayInDocument, HeadMatchesDocument,
                LinearHistory, Live, RevsOf
  <1>3. QED
    BY <1>1, <1>2

-----------------------------------------------------------------------------
(* Requests that run one at a time keep every table well-typed, every link
   inside its document, the head in agreement with the text the document
   shows, and the revision trail of each document one unbroken line. *)
THEOREM HistorySafe ==
  Spec => [](TypeOK /\ LinksStayInDocument /\ HeadMatchesDocument /\ LinearHistory)
  <1>1. HistoryInv => TypeOK /\ LinksStayInDocument /\ HeadMatchesDocument /\ LinearHistory
    BY DEF HistoryInv
  <1>2. QED
    BY InitHasInv, NextKeepsInv, <1>1, PTL DEF Spec

(* No request rewrites a revision, and a revision disappears only with the
   document it belongs to. *)
THEOREM HistoryImmutable == Spec => RevisionsImmutable
  <1> DEFINE Keeps == \A i \in DOMAIN revs :
                        \/ i \in DOMAIN revs' /\ revs'[i] = revs[i]
                        \/ i \notin DOMAIN revs' /\ doc'[revs[i].doc] = NoDoc
  <1>1. HistoryInv /\ [Next]_vars => [Keeps]_vars
    <2> SUFFICES ASSUME HistoryInv, Next PROVE Keeps
      OBVIOUS
    <2>1. ASSUME NEW D \in SUBSET Keys, Appends(D) PROVE Keeps
      BY <2>1 DEF Appends
    <2>2. ASSUME NEW d \in Keys, Delete(d) PROVE Keeps
      BY <2>2 DEF Delete, RevsOf, HistoryInv, TypeOK
    <2>3. QED
      BY <2>1, <2>2, NextAppendsOrDeletes
  <1> HIDE DEF Keeps
  <1>2. Spec => [][Keeps]_vars
    BY InitHasInv, NextKeepsInv, <1>1, PTL DEF Spec
  <1>3. QED
    BY <1>2 DEF Keeps, RevisionsImmutable
=============================================================================
