---------------------------- MODULE MCPatchApply ----------------------------
(* A small instance of PatchApply: texts of up to three lines, or with a    *)
(* heading, a separator and two more lines, or with two tables; patches of  *)
(* one hunk of two lines or of two hunks of one line, and malformed ones.   *)
EXTENDS PatchApply

MCSymbol == "symbol"
MCDashes == "---"
Heading == "| Symbol | Name |"
Rule == "|---|---|"

MCCells == [l \in {"", "p", "-- a", "++ b", Heading, Rule, "| A | x |", "| a | y |", "| A |"} |->
  CASE l \in {"", "p", "-- a", "++ b"} -> <<>>
    [] l = Heading     -> <<"symbol", "name">>
    [] l = Rule        -> <<"---", "---">>
    [] l = "| A | x |" -> <<"a", "x">>
    [] l = "| a | y |" -> <<"a", "y">>
    [] l = "| A |"     -> <<"a">>]

Plain == {"", "p"}
Rows == {"| A | x |", "| a | y |"}
TableLines == {"", Rule, "| A | x |", "| a | y |", "| A |"}
SomeLines == BoundedSeq(Plain, 3)
             \cup {<<Heading, Rule>> \o s : s \in BoundedSeq(TableLines, 2)}
             \cup {<<"p", Heading, Rule>> \o s : s \in BoundedSeq(TableLines, 1)}
(* Two tables, the second with at most one row. *)
TwoTables == {<<Heading, Rule, "| A | x |", "", Heading, Rule>> \o s : s \in BoundedSeq(Rows, 1)}
MCTexts == {Joined(s, nl) : s \in SomeLines \cup TwoTables, nl \in BOOLEAN}

Body(lines) == [tag : {" ", "-", "+"}, line : lines] \cup {[tag |-> "\\", line |-> ""]}
Header0 == [tag : {"@@"}, formed : {TRUE}, start : 0..3, count : 0..1]
Files == <<[tag |-> "-", line |-> "-- a"], [tag |-> "+", line |-> "++ b"]>>
Unformed == [tag |-> "@@", formed |-> FALSE, start |-> 1, count |-> 1]
Endless == Files \o <<[Unformed EXCEPT !.formed = TRUE]>>
           \o [n \in 1..4 |-> [tag |-> "+", line |-> "p"]]

OneHunk(lines) == {Files \o <<h>> \o b : h \in Header0, b \in BoundedSeq(Body(lines), 2)}
TwoHunks(lines) == {Files \o <<h[1], b[1], h[2], b[2]>> :
  h \in [1..2 -> {x \in Header0 : x.count = 1}], b \in [1..2 -> Body(lines)]}

MCPatches == OneHunk(Plain) \cup TwoHunks(Plain) \cup OneHunk(Rows)
             \cup {<<>>, Files, Files \o <<Unformed>>, Endless} \cup {<<h>> : h \in Header0}
=============================================================================
