------------------------ MODULE MCWorkspaceSnapshots ------------------------
(* A workspace of the ledger and one more document, one rule, one built-in   *)
(* skill and one memory, with few contents each.                             *)
EXTENDS WorkspaceSnapshots, TLC

CONSTANTS r1, r2, r3, e1, e2

TwoRequests == {r1, r2}
SomeRequests == {r1, r2, r3, e1, e2}

Row(type, key, val) == [type |-> type, key |-> key, val |-> val]

Blank == Row("memory_summary", "summary", "blank")
Ledger == Row("document", "ledger", "table")
NewLedger == Row("document", "ledger", "new")
Note == Row("document", "note", "text")
OldNote == Row("document", "note", "text_newline")
Skill == Row("skill", "editing", "default")
Rule == Row("rule", "calm", "text")

MCFresh == {Ledger, Note, Rule, Skill, Blank}
MCDefaultSkills == {Skill}
MCProtected == {"ledger"}

(* A note ends in a newline, which create_document strips. *)
MCStripped == [v \in {"table", "new", "text", "text_newline"} |->
                 IF v = "text_newline" THEN "text" ELSE v]
MCSuffixed == [key \in {"ledger", "note", "note_2"} |-> IF key = "note" THEN {"note_2"} ELSE {}]

(* Two snapshots that list their documents in different orders. *)
Taken(id, since, first, second, others) ==
  [id |-> id, parent |-> NoRequest, since |-> since, items |-> {first, second} \cup others,
   rank |-> (first :> 1 @@ second :> 2), calm |-> TRUE]

MCEarlier == {Taken(e1, 1, NewLedger, OldNote, {Blank, Rule}),
              Taken(e2, 2, OldNote, NewLedger, {Blank, Skill})}
NoneEarlier == {}

SomeRows == MCFresh \cup {NewLedger, OldNote, Row("document", "note_2", "text")}
OtherRows == {Ledger, Blank, Skill, Row("skill", "editing", "disabled"), Rule,
              Row("memory", "name", "text")}
OtherFresh == {Ledger, Blank, Row("skill", "editing", "disabled")}

Symmetric == Permutations(Requests \ {s.id : s \in MCEarlier})
=============================================================================
