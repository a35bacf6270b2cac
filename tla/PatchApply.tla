----------------------------- MODULE PatchApply -----------------------------
(***************************************************************************)
(* How the text of one document changes, line by line: the patches of the  *)
(* agent (tools/documents/tool.py, tools/documents/workflows), the texts   *)
(* that replace the old one, the check every new text passes, and the diff *)
(* that is stored with the revision (tools/documents/scripts). What the    *)
(* requests do to each other is in DocumentTx.                             *)
(*                                                                         *)
(* A text is its lines and whether it ends in a newline. A line of a patch *)
(* is its first character and the rest; "@@" lines have a range instead.   *)
(***************************************************************************)
EXTENDS Naturals, FiniteSets, SequencesExt

CONSTANTS
  Cells,    \* line -> its cells between "|", or <<>> if it has no "|"
  Empty,    \* the line without characters
  Symbol,   \* the heading of a column of symbols
  Dashes,   \* what the cells of a separator hold
  OldFile, NewFile,  \* what follows the first character of "--- " and "+++ "
  Texts,    \* texts written as a whole
  Patches,  \* patches the agent may send
  Context,  \* lines of context in a stored diff (3 in difflib)
  MaxPatch, \* bound on a patch (MAX_PATCH_CHARS)
  None

Lines == DOMAIN Cells
NoText == [lines |-> <<>>, nl |-> FALSE]

(* What splitlines and a last newline can make of a text: a text without lines
   ends in no newline, and an empty line at the end is there only before one. *)
IsText(text) ==
  /\ text \in [lines : Seq(Lines), nl : BOOLEAN]
  /\ IF text.lines = <<>> THEN ~text.nl ELSE text.nl \/ Last(text.lines) # Empty

(* Any line may follow any character; "other" is a character no patch has. *)
PatchLine == [tag : {"@@"}, formed : BOOLEAN, start : Nat, count : Nat]
             \cup [tag : {" ", "-", "+", "\\", "other"}, line : Lines]

ASSUME PatchAssumption ==
  /\ {Empty, OldFile, NewFile} \subseteq Lines /\ Cells[Empty] = <<>>
  /\ \A text \in Texts : IsText(text)
  /\ Patches \subseteq Seq(PatchLine)
  /\ Context \in Nat \ {0}

VARIABLES
  ledger,  \* is "ledger" part of the document's key?
  doc,     \* the document's text
  edit     \* the edit that was made, or None (each behaviour makes one)

editVars == <<ledger, doc, edit>>

-----------------------------------------------------------------------------
(* The text that _join_lines makes of lines, as splitlines would read it: an
   empty last line is no line if no newline follows it. *)
Joined(lines, nl) ==
  IF lines \in {<<>>, <<Empty>>} THEN NoText
  ELSE IF nl \/ Last(lines) # Empty THEN [lines |-> lines, nl |-> nl]
  ELSE [lines |-> Front(lines), nl |-> TRUE]

(* validate_patch. *)
PatchFormed(patch) ==
  /\ Len(patch) \in 1..MaxPatch
  /\ \E p \in ToSet(patch) : p.tag = "-" /\ p.line = OldFile
  /\ \E p \in ToSet(patch) : p.tag = "+" /\ p.line = NewFile
  /\ \E p \in ToSet(patch) : p.tag = "@@"

(* _apply_unified_diff: the lines of the old text it is past, the new lines,
   whether a hunk is open, what its header and its lines count, no error. *)
Start == [cursor |-> 0, output |-> <<>>, open |-> FALSE,
          old_count |-> 0, removed |-> 0, ok |-> TRUE]

(* The operators named Mutant_... are faults a maintainer could introduce into
   the definition that follows them; the specification does not use them. *)
Mutant_CountTooStrict(s) == s.old_count = 0 \/ s.removed < s.old_count

CountHolds(s) == s.old_count = 0 \/ s.removed <= s.old_count
Target(old_start) == IF old_start = 0 THEN 0 ELSE old_start - 1
LinesBetween(lines, from, to) ==
  SubSeq(lines, from + 1, IF to < Len(lines) THEN to ELSE Len(lines))

Mutant_OverlapAllowed(lines, s, p) ==
  [cursor |-> Target(p.start), open |-> TRUE, old_count |-> p.count, removed |-> 0,
   output |-> s.output \o LinesBetween(lines, s.cursor, Target(p.start)),
   ok |-> s.ok /\ p.formed /\ CountHolds(s)]

(* A hunk header: the lines before the hunk are kept. *)
OpenHunk(lines, s, p) ==
  [cursor |-> Target(p.start), open |-> TRUE, old_count |-> p.count, removed |-> 0,
   output |-> s.output \o LinesBetween(lines, s.cursor, Target(p.start)),
   ok |-> s.ok /\ p.formed /\ CountHolds(s) /\ Target(p.start) >= s.cursor]

(* Is a line of a hunk a line of the old text, of the new one? *)
InOld(tag) == tag = " " \/ tag = "-"
InNew(tag) == tag = " " \/ tag = "+"

(* A line of a hunk. A line "\ No newline" has no effect. *)
HunkLine(lines, s, p) ==
  LET matches == s.cursor < Len(lines) /\ lines[s.cursor + 1] = p.line
  IN  [s EXCEPT
        !.ok = @ /\ p.tag \in {" ", "-", "+", "\\"} /\ (InOld(p.tag) => matches),
        !.output = IF InNew(p.tag) THEN Append(@, p.line) ELSE @,
        !.cursor = IF InOld(p.tag) THEN @ + 1 ELSE @,
        !.removed = IF p.tag = "-" THEN @ + 1 ELSE @]

LineDone(lines, s, p) ==
  IF p.tag = "@@" THEN OpenHunk(lines, s, p)
  ELSE IF s.open THEN HunkLine(lines, s, p) ELSE s

Run(lines, patch) ==
  LET f[n \in 0..Len(patch)] == IF n = 0 THEN Start ELSE LineDone(lines, f[n - 1], patch[n])
  IN  f[Len(patch)]

Applies(text, patch) ==
  LET s == Run(text.lines, patch) IN s.ok /\ s.open /\ CountHolds(s)
Patched(text, patch) ==
  LET s == Run(text.lines, patch)
  IN  Joined(s.output \o LinesBetween(text.lines, s.cursor, Len(text.lines)), text.nl)

-----------------------------------------------------------------------------
IsSeparator(line) == Len(Cells[line]) > 1 /\ ToSet(Cells[line]) = {Dashes}
StartsTable(lines, i) ==
  i < Len(lines) /\ Cells[lines[i]] # <<>> /\ IsSeparator(lines[i + 1])

Mutant_LastLineLeftOut(lines, i) ==
  CHOOSE e \in i..Len(lines) + 1 :
    /\ e >= Len(lines) \/ Cells[lines[e]] = <<>>
    /\ \A j \in i..e - 1 : Cells[lines[j]] # <<>>

(* The first line from i on that is no row. *)
RowsEnd(lines, i) ==
  CHOOSE e \in i..Len(lines) + 1 :
    /\ e = Len(lines) + 1 \/ Cells[lines[e]] = <<>>
    /\ \A j \in i..e - 1 : Cells[lines[j]] # <<>>

(* _extract_markdown_tables: the lines that begin a table, in one pass. After
   as many turns of the loop as there are lines, it is over. *)
Scanned(lines, s) ==
  IF s.i >= Len(lines) THEN s
  ELSE IF StartsTable(lines, s.i)
  THEN [i |-> RowsEnd(lines, s.i + 2), tables |-> s.tables \cup {s.i}]
  ELSE [s EXCEPT !.i = @ + 1]

TablesFrom(lines) ==
  LET f[n \in 0..Len(lines)] == IF n = 0 THEN [i |-> 1, tables |-> {}] ELSE Scanned(lines, f[n - 1])
  IN  f[Len(lines)].tables

SymbolColumn(line) == CHOOSE k \in DOMAIN Cells[line] :
  Cells[line][k] = Symbol /\ \A m \in 1..k - 1 : Cells[line][m] # Symbol

(* validate_document_content. seen_symbols spans the tables; the constant
   Cells holds the symbols as casefold leaves them. *)
ContentValid(lines) ==
  LET tables == {h \in TablesFrom(lines) : Symbol \in ToSet(Cells[lines[h]])}
      rows == UNION {{<<h, j>> : j \in h + 2..RowsEnd(lines, h + 2) - 1} : h \in tables}
      symbol(r) == Cells[lines[r[2]]][SymbolColumn(lines[r[1]])]
  IN  /\ tables # {}
      /\ \A r \in rows : Len(Cells[lines[r[2]]]) = Len(Cells[lines[r[1]]])
      /\ \A r \in rows : symbol(r) # ""
      /\ \A r, q \in rows : symbol(r) = symbol(q) => r = q

-----------------------------------------------------------------------------
(* unified_markdown_diff. A pairing tells which lines of the two texts the diff
   shows as equal. difflib looks for long runs and leaves no equal lines
   between them; any such pairing is allowed here. *)
Uncrossed(kept) == \A x, y \in kept : x = y \/ (x[1] < y[1] /\ x[2] < y[2])
                                          \/ (y[1] < x[1] /\ y[2] < x[2])
Pairings(old, new) ==
  LET equal == {x \in (DOMAIN old) \X (DOMAIN new) : old[x[1]] = new[x[2]]}
  IN  {kept \in SUBSET equal :
         Uncrossed(kept) /\ \A x \in equal \ kept : ~Uncrossed(kept \cup {x})}

(* The edit script: every line of either text once, removals first. x tells
   which line of each text is next. *)
Tag(old, new, kept, x) ==
  IF x.i <= Len(old) /\ \A m \in kept : m[1] # x.i THEN "-"
  ELSE IF x.j <= Len(new) /\ \A m \in kept : m[2] # x.j THEN "+"
  ELSE IF x.i <= Len(old) THEN " " ELSE "end"

After(old, new, kept, x) ==
  [i |-> IF InOld(Tag(old, new, kept, x)) THEN x.i + 1 ELSE x.i,
   j |-> IF InNew(Tag(old, new, kept, x)) THEN x.j + 1 ELSE x.j]

Op(old, new, kept, x) ==
  [tag |-> Tag(old, new, kept, x),
   line |-> IF Tag(old, new, kept, x) = "+" THEN new[x.j] ELSE old[x.i],
   before |-> x.i]

Script(old, new, kept) ==
  LET at[k \in 0..Len(old) + Len(new)] ==
        IF k = 0 THEN [i |-> 1, j |-> 1] ELSE After(old, new, kept, at[k - 1])
      size == CHOOSE k \in DOMAIN at : /\ Tag(old, new, kept, at[k]) = "end"
                                      /\ \A m \in 0..k - 1 : Tag(old, new, kept, at[m]) # "end"
  IN  [k \in 1..size |-> Op(old, new, kept, at[k - 1])]

(* The hunks: the changes with Context lines around them. *)
Shown(ops) ==
  {k \in DOMAIN ops : \E m \in DOMAIN ops : /\ ops[m].tag # " "
                                            /\ k <= m + Context /\ m <= k + Context}
HunkFrom(shown, k) == {m \in shown : m >= k /\ k..m \subseteq shown}
HunkHeader(ops, shown, k) ==
  LET count == Cardinality({m \in HunkFrom(shown, k) : InOld(ops[m].tag)})
  IN  [tag |-> "@@", formed |-> TRUE, count |-> count,
       start |-> IF count = 0 THEN ops[k].before - 1 ELSE ops[k].before]

(* What the diff has of the k-th line of the script. *)
DiffPart(ops, shown, k) ==
  IF k \notin shown THEN <<>>
  ELSE (IF k - 1 \in shown THEN <<>> ELSE <<HunkHeader(ops, shown, k)>>)
       \o <<[tag |-> ops[k].tag, line |-> ops[k].line]>>

DiffOf(ops) ==
  LET shown == Shown(ops)
  IN  IF shown = {} THEN <<>>
      ELSE <<[tag |-> "-", line |-> OldFile], [tag |-> "+", line |-> NewFile]>>
             \o FlattenSeq([k \in DOMAIN ops |-> DiffPart(ops, shown, k)])

Diff(old, new, kept) == DiffOf(Script(old, new, kept))

-----------------------------------------------------------------------------
(* update_working_document: the new text is checked, and a text that differs
   is stored in a revision with the diff. *)
Write(text, asked) ==
  /\ ledger => ContentValid(text.lines)
  /\ doc' = text
  /\ \E kept \in Pairings(doc.lines, text.lines) :
       edit' = [before |-> doc, asked |-> asked,
                patch_text |-> IF text = doc THEN <<>>
                               ELSE Diff(doc.lines, text.lines, kept)]
  /\ UNCHANGED ledger

(* The user saves the draft of the editor. *)
UserUpdate(text) == text # NoText /\ Write(text, None)

(* EditDocumentTool in replace mode refuses a blank text. *)
AgentReplace(text) == ToSet(text.lines) \ {Empty} # {} /\ Write(text, None)

(* EditDocumentTool in patch mode: apply_document_patch, then the update. *)
AgentPatch(patch) ==
  /\ PatchFormed(patch)
  /\ Applies(doc, patch)
  /\ Write(Patched(doc, patch), patch)

EditInit ==
  /\ ledger \in BOOLEAN
  /\ doc \in Texts
  /\ ledger => ContentValid(doc.lines)
  /\ edit = None

(* One edit, of any text the document may have. *)
EditNext ==
  /\ edit = None
  /\ \/ \E text \in Texts : UserUpdate(text)
     \/ \E text \in Texts : AgentReplace(text)
     \/ \E patch \in Patches : AgentPatch(patch)

EditSpec == EditInit /\ [][EditNext]_editVars

-----------------------------------------------------------------------------
(* What a reader of a patch expects, without running it. Line k of the patch
   belongs to the hunk opened by the last header up to it, and lies after Place
   lines of the old text: those before the hunk and those it mentions. *)
Header(patch, k) == CHOOSE h \in 1..k :
  patch[h].tag = "@@" /\ \A m \in h + 1..k : patch[m].tag # "@@"
InHunk(patch) == {k \in DOMAIN patch : patch[k].tag # "@@" /\ \E h \in 1..k : patch[h].tag = "@@"}
Place(patch, k) ==
  LET h == Header(patch, k)
  IN  (IF patch[h].start = 0 THEN 0 ELSE patch[h].start - 1)
      + Cardinality({m \in h + 1..k - 1 : InOld(patch[m].tag)})

(* The new text in pieces: <<n, k>> is line k of the patch, added after n old
   lines, or the old line n + 1 if k is past the end of the patch. *)
Pieces(old, patch) ==
  {<<IF Place(patch, k) < Len(old) THEN Place(patch, k) ELSE Len(old), k>> :
     k \in {m \in InHunk(patch) : patch[m].tag = "+"}}
  \cup {<<n, Len(patch) + 1>> :
          n \in {m \in 0..Len(old) - 1 :
                   \A k \in InHunk(patch) : patch[k].tag = "-" => Place(patch, k) # m}}

Precedes(x, y) == x[1] < y[1] \/ (x[1] = y[1] /\ x[2] < y[2])

PieceLine(old, patch, x) == IF x[2] \in DOMAIN patch THEN patch[x[2]].line ELSE old[x[1] + 1]

(* The old lines that the patch does not remove, and before each of them, or
   at the end, the lines added there. *)
Expected(old, patch) ==
  LET pieces == Pieces(old, patch)
      nth(n) == CHOOSE x \in pieces : Cardinality({y \in pieces : Precedes(y, x)}) = n - 1
  IN  [n \in 1..Cardinality(pieces) |-> PieceLine(old, patch, nth(n))]

(* A patch of the agent that is accepted changes what it declares and nothing
   else: each line it mentions is the old line at the place its hunk declares,
   and no line is removed, repeated or moved otherwise, also with several hunks
   and with hunks at either end of the text. *)
PatchLandsWhereDeclared ==
  edit # None /\ edit.asked # None =>
    LET old == edit.before.lines
        p == edit.asked
    IN  /\ doc = Joined(Expected(old, p), edit.before.nl)
        /\ \A k \in InHunk(p) : InOld(p[k].tag) =>
             Place(p, k) < Len(old) /\ old[Place(p, k) + 1] = p[k].line

(* The diff stored with a revision is a patch that the agent's tool would
   accept, and it leads from the old text to the new one, if both end in a
   newline or neither does: the diff does not record that. A text of one empty
   line is the exception, the tool makes it the empty text. *)
StoredDiffReplays ==
  (edit # None /\ edit.patch_text # <<>> /\ edit.before.nl = doc.nl /\ doc.lines # <<Empty>>)
    => Applies(edit.before, edit.patch_text) /\ Patched(edit.before, edit.patch_text) = doc

(* The ledger as a reader sees it: in a block of lines with "|", the table
   begins at the first line that has a separator below it, and all further
   lines of the block are its rows. *)
Block(lines, h) == {j \in DOMAIN lines : \A m \in h..j \cup j..h : Cells[lines[m]] # <<>>}
IsHeading(lines, h) ==
  StartsTable(lines, h) /\ \A j \in Block(lines, h) : j < h => ~StartsTable(lines, j)
SymbolRows(lines) == UNION {{<<h, j>> : j \in {m \in Block(lines, h) : m > h + 1}} :
                            h \in {i \in DOMAIN lines : IsHeading(lines, i) /\ Symbol \in ToSet(Cells[lines[i]])}}

(* However the ledger was edited, it has a table of symbols, and each row of
   such a table is whole and has a symbol of its own, in whatever table. *)
LedgerListsSymbolsOnce ==
  ledger =>
    LET lines == doc.lines
        rows == SymbolRows(lines)
        symbol(r) == Cells[lines[r[2]]][SymbolColumn(lines[r[1]])]
    IN  /\ \E h \in DOMAIN lines : IsHeading(lines, h) /\ Symbol \in ToSet(Cells[lines[h]])
        /\ \A r \in rows : /\ Len(Cells[lines[r[2]]]) = Len(Cells[lines[r[1]]])
                           /\ symbol(r) # ""
                           /\ \A q \in rows : symbol(q) = symbol(r) => q = r
=============================================================================
