--------------------------- MODULE Copilot_proofs ---------------------------
(***************************************************************************)
(* What the copilot promises of its turns, of its snapshots, for any       *)
(* number of requests, and of the edits its agent makes.                   *)
(*                                                                         *)
(* A turn (ChatTurn), for any threads, skills and tool calls: its outcome  *)
(* agrees with the tables, the rows that are made by whoever misses them   *)
(* are made once, and its tools keep to the policies of the skills it      *)
(* loaded.                                                                 *)
(*                                                                         *)
(* A snapshot (WorkspaceSnapshots), for any rows and any edits between its *)
(* statements: undisturbed, it is the whole workspace, and a restore of it *)
(* brings back all of it, and past their documents requests never wait for *)
(* each other in a circle.                                                 *)
(*                                                                         *)
(* An edit (PatchApply), for any texts, patches and lines of context: a    *)
(* patch changes what it declares, the diff stored with a revision replays *)
(* the edit, and a ledger stays one with each symbol once.                 *)
(***************************************************************************)
EXTENDS ChatTurn, WorkspaceSnapshots, PatchApply,
        SequenceTheorems, FunctionTheorems, FiniteSetTheorems, TLAPS

(* Stages of a turn: before its tools run, and while it has a thread. *)
Early == {"new", "open", "thread", "context", "seed", "skills", "answer"}
Middle == {"context", "seed", "skills", "answer", "calls", "waiting", "store"}
Stages == {"new"} \cup Running \cup Over

TurnType ==
  [at : Stages, thread : Threads \cup {NoThread},
   catalog : [Skills -> Policies \cup {Disabled}], loaded : SUBSET Policies,
   attempts : Nat, calls : Nat, executed : Seq(Registered),
   opens : BOOLEAN, seeds : SUBSET Builtin]

Types ==
  /\ turn \in [Turns -> TurnType]
  /\ threads \in [Threads -> {"unused", "pending", "live", "deleted"}]
  /\ skills \in [Skills -> Policies \cup {NoSkill}]

-----------------------------------------------------------------------------
(* A step of one turn. *)
Turned(t) ==
  /\ turn' \in [Turns -> TurnType]
  /\ \A o \in Turns \ {t} : turn'[o] = turn[o]

(* Most steps only move a turn on. *)
MovesOn(t) ==
  /\ Turned(t)
  /\ turn'[t].thread = turn[t].thread /\ turn'[t].opens = turn[t].opens
  /\ turn'[t].at = "seed" \/ (turn'[t].seeds = turn[t].seeds /\ turn[t].at # "seed")
  /\ \/ turn[t].at \in Middle /\ turn'[t].at \in Middle
     \/ turn[t].at = "new" /\ turn'[t].at = "open"
  /\ UNCHANGED <<threads, opened, skills, messages, jobs, doubt>>

SameTools(t) == turn'[t].executed = turn[t].executed /\ turn'[t].loaded = turn[t].loaded

LEMMA NewHasType == New \in TurnType
  BY DEF New, TurnType, Stages

LEMMA PlainHasType ==
  ASSUME Types, NEW t \in Turns, NEW at \in Stages
  PROVE  /\ Plain(t, at) \in TurnType
         /\ Plain(t, at).at = at /\ Plain(t, at).thread = turn[t].thread
         /\ Plain(t, at).executed = <<>> /\ Plain(t, at).loaded = {}
         /\ Plain(t, at).opens = FALSE /\ Plain(t, at).seeds = {}
  <1>1. PICK th \in Threads \cup {NoThread} : th = turn[t].thread
    BY DEF Types, TurnType
  <1>2. PICK new \in TurnType : /\ new = New
                               /\ new.executed = <<>> /\ new.loaded = {}
                               /\ new.opens = FALSE /\ new.seeds = {}
    BY NewHasType DEF New
  <1>3. Plain(t, at) = [new EXCEPT !.at = at, !.thread = th]
    BY <1>1, <1>2 DEF Plain
  <1> QED  BY <1>1, <1>2, <1>3 DEF TurnType

LEMMA ListedHasType ==
  ASSUME NEW table \in [Skills -> Policies \cup {NoSkill}]
  PROVE  SkillsListed(table) \in [Skills -> Policies \cup {Disabled}]
  BY DEF SkillsListed

LEMMA FilledHasType ==
  ASSUME Types, NEW seeds
  PROVE  Filled(seeds) \in [Skills -> Policies \cup {NoSkill}]
  BY ChatAssumption DEF Filled, Types

LEMMA FindClosedMoves ==
  ASSUME Types, NEW t \in Turns, FindClosed(t)
  PROVE  MovesOn(t) /\ SameTools(t)
  BY ZenonT(30) DEF FindClosed, MovesOn, SameTools, Turned, Types, TurnType, Stages, Running, tables

LEMMA FindMissingMoves ==
  ASSUME Types, NEW t \in Turns, FindMissingSkills(t)
  PROVE  MovesOn(t) /\ SameTools(t)
  <1>1. PICK missing \in SUBSET Builtin : missing = Missing
    BY DEF Missing
  <1>2. turn' = [turn EXCEPT ![t].at = "seed", ![t].seeds = missing]
    BY <1>1 DEF FindMissingSkills
  <1>3. "seed" \in Stages /\ turn \in [Turns -> TurnType]
    BY DEF Stages, Running, Types
  <1>4. Turned(t) /\ SameTools(t) /\ turn'[t].at = "seed" /\ turn'[t].thread = turn[t].thread
        /\ turn'[t].opens = turn[t].opens
    BY ZenonT(30), <1>2, <1>3 DEF Turned, SameTools, TurnType
  <1> QED  BY <1>4 DEF FindMissingSkills, MovesOn, Middle, tables

LEMMA ReadContextMoves ==
  ASSUME Types, NEW t \in Turns, ReadContext(t)
  PROVE  MovesOn(t) /\ SameTools(t)
  <1>1. PICK listed \in [Skills -> Policies \cup {Disabled}] : listed = SkillsListed(skills)
    BY ListedHasType DEF Types
  <1>2. turn' = [turn EXCEPT ![t].at = "skills", ![t].catalog = listed] /\ turn[t].at = "context"
    BY <1>1 DEF ReadContext
  <1>3. Turned(t) /\ SameTools(t) /\ turn'[t].at = "skills" /\ turn'[t].thread = turn[t].thread
        /\ turn'[t].opens = turn[t].opens /\ turn'[t].seeds = turn[t].seeds
    <2>1. "skills" \in Stages /\ turn \in [Turns -> TurnType]
      BY DEF Stages, Running, Types
    <2> QED  BY ZenonT(30), <1>2, <2>1 DEF Turned, SameTools, TurnType
  <1> QED  BY <1>2, <1>3 DEF ReadContext, MovesOn, Middle, tables

LEMMA ChooseMoves ==
  ASSUME Types, NEW t \in Turns, NEW requested \in SUBSET Skills, ChooseSkills(t, requested)
  PROVE  /\ MovesOn(t)
         /\ turn[t].at = "skills" /\ turn'[t].executed = turn[t].executed
  <1>1. PICK none \in [Skills -> Policies \cup {Disabled}] : none = New.catalog
    BY DEF New
  <1>2. PICK loaded \in SUBSET Policies :
          loaded = {p \in {turn[t].catalog[s] : s \in requested} : p.enabled}
    <2>1. \A s \in requested : turn[t].catalog[s] \in Policies \cup {Disabled}
      BY DEF Types, TurnType
    <2>2. ~Disabled.enabled
      BY DEF Disabled
    <2> QED  BY <2>1, <2>2
  <1>3. /\ turn' = [turn EXCEPT ![t].at = "answer", ![t].catalog = none, ![t].loaded = loaded]
        /\ turn[t].at = "skills"
    BY <1>1, <1>2 DEF ChooseSkills
  <1>4. Turned(t) /\ turn'[t].executed = turn[t].executed /\ turn'[t].at = "answer"
        /\ turn'[t].thread = turn[t].thread
        /\ turn'[t].opens = turn[t].opens /\ turn'[t].seeds = turn[t].seeds
    <2>1. "answer" \in Stages /\ turn \in [Turns -> TurnType]
      BY DEF Stages, Running, Types
    <2>2. PICK old \in TurnType : old = turn[t]
      BY <2>1
    <2>3. PICK rec : rec = [old EXCEPT !.at = "answer", !.catalog = none, !.loaded = loaded]
      OBVIOUS
    <2>4. /\ rec \in TurnType /\ rec.at = "answer" /\ rec.executed = old.executed
          /\ rec.thread = old.thread /\ rec.opens = old.opens /\ rec.seeds = old.seeds
      BY <2>1, <2>3 DEF TurnType
    <2>5. turn' = [turn EXCEPT ![t] = rec]
      BY <1>3, <2>1, <2>2, <2>3
    <2>6. turn'[t] = rec /\ Turned(t)
      BY <2>1, <2>4, <2>5 DEF Turned
    <2> QED  BY <2>2, <2>4, <2>6
  <1> QED  BY <1>3, <1>4 DEF ChooseSkills, MovesOn, Middle, tables

LEMMA AnswerMoves ==
  ASSUME Types, NEW t \in Turns, InvalidAnswer(t) \/ Answer(t)
  PROVE  /\ MovesOn(t) /\ SameTools(t) /\ turn[t].at = "answer"
  <1>1. turn[t].at = "answer" /\ UNCHANGED <<tables, jobs, doubt>>
    BY DEF InvalidAnswer, Answer
  <1>2. PICK at \in {"answer", "calls"}, attempts \in Nat :
          turn' = [turn EXCEPT ![t].at = at, ![t].attempts = attempts]
    <2>1. CASE InvalidAnswer(t)
      <3>1. PICK attempts \in Nat : attempts = turn[t].attempts + 1
        BY DEF Types, TurnType
      <3>2. turn' = [turn EXCEPT ![t].at = "answer", ![t].attempts = attempts]
        BY <1>1, <2>1, <3>1 DEF InvalidAnswer, Types, TurnType
      <3> QED  BY <3>2
    <2>2. CASE Answer(t)
      BY <2>2 DEF Answer
    <2> QED  BY <2>1, <2>2
  <1>3. Turned(t) /\ SameTools(t) /\ turn'[t].at = at /\ turn'[t].thread = turn[t].thread
        /\ turn'[t].opens = turn[t].opens /\ turn'[t].seeds = turn[t].seeds
    <2>1. at \in Stages /\ turn \in [Turns -> TurnType]
      BY DEF Stages, Running, Types
    <2> QED  BY ZenonT(30), <1>2, <2>1 DEF Turned, SameTools, TurnType
  <1> QED  BY <1>1, <1>3 DEF MovesOn, Middle, tables

LEMMA RejectedMoves ==
  ASSUME Types, NEW t \in Turns, NEW tool, CallRejected(t, tool) \/ ToolWaits(t, tool)
  PROVE  MovesOn(t) /\ SameTools(t) /\ turn'[t].at \in {"calls", "waiting"}
  <1>1. turn[t].at = "calls" /\ UNCHANGED <<tables, jobs, doubt>>
    BY DEF CallRejected, ToolWaits
  <1>2. CASE CallRejected(t, tool)
    <2>1. PICK calls \in Nat : calls = turn[t].calls + 1
      BY DEF Types, TurnType
    <2>2. turn' = [turn EXCEPT ![t].calls = calls]
      BY <1>2, <2>1 DEF CallRejected
    <2>3. Turned(t) /\ SameTools(t) /\ turn'[t].at = "calls" /\ turn'[t].thread = turn[t].thread
          /\ turn'[t].opens = turn[t].opens /\ turn'[t].seeds = turn[t].seeds
      BY ZenonT(30), <1>1, <2>2 DEF Turned, SameTools, Types, TurnType
    <2> QED  BY <1>1, <2>3 DEF MovesOn, Middle, tables
  <1>3. CASE ToolWaits(t, tool)
    <2>1. turn' = [turn EXCEPT ![t].at = "waiting"]
      BY <1>3 DEF ToolWaits
    <2>2. Turned(t) /\ SameTools(t) /\ turn'[t].at = "waiting" /\ turn'[t].thread = turn[t].thread
          /\ turn'[t].opens = turn[t].opens /\ turn'[t].seeds = turn[t].seeds
      <3>1. PICK old \in TurnType : old = turn[t] /\ turn \in [Turns -> TurnType]
        BY DEF Types
      <3>2. PICK new : new = [old EXCEPT !.at = "waiting"]
        OBVIOUS
      <3>3. /\ new \in TurnType /\ new.at = "waiting" /\ new.thread = old.thread
            /\ new.executed = old.executed /\ new.loaded = old.loaded
            /\ new.opens = old.opens /\ new.seeds = old.seeds
        BY <3>1, <3>2 DEF TurnType, Stages, Running
      <3>4. turn' = [turn EXCEPT ![t] = new]
        BY <2>1, <3>1, <3>2
      <3> QED  BY <3>1, <3>3, <3>4 DEF Turned, SameTools
    <2> QED  BY <1>1, <2>2 DEF MovesOn, Middle, tables
  <1> QED  BY <1>2, <1>3

LEMMA CallMoves ==
  ASSUME Types, NEW t \in Turns, NEW tool, CallTool(t, tool)
  PROVE  /\ MovesOn(t) /\ turn'[t].loaded = turn[t].loaded
         /\ turn'[t].executed = Append(turn[t].executed, tool) /\ turn'[t].at = "calls"
  <1>1. turn[t].at = "calls" /\ UNCHANGED <<tables, jobs, doubt>> /\ tool \in Registered
    BY DEF CallTool
  <1>2. PICK calls \in Nat : calls = turn[t].calls + 1
    BY DEF Types, TurnType
  <1>3. PICK executed \in Seq(Registered) : executed = Append(turn[t].executed, tool)
    <2>1. PICK ran \in Seq(Registered) : ran = turn[t].executed
      BY DEF Types, TurnType
    <2>2. Append(ran, tool) \in Seq(Registered)
      BY <1>1
    <2> QED  BY <2>1, <2>2
  <1>4. turn' = [turn EXCEPT ![t].calls = calls, ![t].executed = executed]
    BY <1>2, <1>3 DEF CallTool
  <1>5. Turned(t) /\ turn'[t].at = "calls" /\ turn'[t].thread = turn[t].thread
        /\ turn'[t].executed = executed /\ turn'[t].loaded = turn[t].loaded
        /\ turn'[t].opens = turn[t].opens /\ turn'[t].seeds = turn[t].seeds
    <2>1. PICK old \in TurnType : old = turn[t] /\ turn \in [Turns -> TurnType]
      BY DEF Types
    <2>2. PICK new : new = [old EXCEPT !.calls = calls, !.executed = executed]
      OBVIOUS
    <2>3. /\ new \in TurnType /\ new.at = old.at /\ new.thread = old.thread
          /\ new.executed = executed /\ new.loaded = old.loaded
          /\ new.opens = old.opens /\ new.seeds = old.seeds
      BY <2>1, <2>2 DEF TurnType
    <2>4. turn' = [turn EXCEPT ![t] = new]
      BY <1>4, <2>1, <2>2
    <2> QED  BY <1>1, <2>1, <2>3, <2>4 DEF Turned
  <1> QED  BY <1>1, <1>3, <1>5 DEF MovesOn, Middle, tables

LEMMA EndCallsMoves ==
  ASSUME Types, NEW t \in Turns, EndCalls(t)
  PROVE  MovesOn(t) /\ turn'[t].executed = <<>> /\ turn'[t].loaded = {}
  <1>1. turn[t].at = "calls" /\ UNCHANGED <<tables, jobs, doubt>>
    BY DEF EndCalls
  <1>2. PICK plain \in TurnType : /\ plain = Plain(t, "store") /\ plain.at = "store"
                                  /\ plain.thread = turn[t].thread
                                  /\ plain.executed = <<>> /\ plain.loaded = {}
    BY PlainHasType DEF Stages, Running
  <1>3. PICK opens \in BOOLEAN, seeds \in SUBSET Builtin : opens = turn[t].opens /\ seeds = turn[t].seeds
    BY DEF Types, TurnType
  <1>4. PICK rec \in TurnType : rec = [plain EXCEPT !.opens = opens, !.seeds = seeds]
    BY DEF TurnType
  <1>5. rec.at = "store" /\ rec.thread = turn[t].thread /\ rec.executed = <<>> /\ rec.loaded = {}
        /\ rec.opens = opens /\ rec.seeds = seeds
    BY <1>2, <1>4 DEF TurnType
  <1>6. turn' = [turn EXCEPT ![t] = rec]
    BY <1>2, <1>3, <1>4 DEF EndCalls
  <1>7. Turned(t) /\ turn'[t] = rec
    BY <1>6 DEF Turned, Types
  <1> QED  BY <1>1, <1>3, <1>5, <1>7 DEF MovesOn, Middle, tables

(* The steps that add rows, and the ends of a turn. *)
LEMMA OpenWorkspaceMoves ==
  ASSUME Types, NEW t \in Turns, OpenWorkspace(t)
  PROVE  /\ Turned(t) /\ SameTools(t)
         /\ turn[t].at = "open" /\ turn'[t].at = "thread" /\ turn'[t].opens = TRUE
         /\ turn'[t].seeds = turn[t].seeds
  <1>1. "thread" \in Stages /\ turn \in [Turns -> TurnType]
    BY DEF Stages, Running, Types
  <1>2. turn' = [turn EXCEPT ![t].at = "thread", ![t].opens = TRUE] /\ turn[t].at = "open"
    BY DEF OpenWorkspace
  <1> QED  BY ZenonT(30), <1>1, <1>2 DEF Turned, SameTools, TurnType

LEMMA OpenMoves ==
  ASSUME Types, NEW t \in Turns, NEW asked, Open(t, asked)
  PROVE  /\ Turned(t) /\ SameTools(t)
         /\ turn[t].at = "thread" \/ opened
         /\ turn[t].at \in {"new", "thread"} /\ turn'[t].at = "context"
         /\ turn'[t].thread \in Threads
         /\ turn'[t].opens = turn[t].opens /\ turn'[t].seeds = turn[t].seeds
         /\ threads' \in [Threads -> {"unused", "pending", "live", "deleted"}]
         /\ \A th \in Threads : threads[th] = "deleted" => threads'[th] = "deleted"
  <1>1. "context" \in Stages /\ turn \in [Turns -> TurnType]
        /\ threads \in [Threads -> {"unused", "pending", "live", "deleted"}]
    BY DEF Stages, Running, Types
  <1>2. PICK th \in Chosen(asked) :
          /\ turn' = [turn EXCEPT ![t].at = "context", ![t].thread = th]
          /\ threads' = [threads EXCEPT ![th] = IF @ = "unused" THEN "pending" ELSE @]
    BY DEF Open
  <1>3. th \in Threads
    BY DEF Chosen, Live
  <1>4. /\ threads' \in [Threads -> {"unused", "pending", "live", "deleted"}]
        /\ \A o \in Threads : threads[o] = "deleted" => threads'[o] = "deleted"
    BY <1>1, <1>2, <1>3
  <1>5. /\ Turned(t) /\ SameTools(t) /\ turn'[t].at = "context" /\ turn'[t].thread = th
        /\ turn'[t].opens = turn[t].opens /\ turn'[t].seeds = turn[t].seeds
    BY ZenonT(30), <1>1, <1>2, <1>3 DEF Turned, SameTools, TurnType
  <1>6. (turn[t].at = "thread" \/ opened) /\ turn[t].at \in {"new", "thread"}
    BY DEF Open
  <1> QED  BY <1>3, <1>4, <1>5, <1>6

LEMMA SeedMoves ==
  ASSUME Types, NEW t \in Turns, SeedSkills(t)
  PROVE  /\ Turned(t) /\ SameTools(t)
         /\ turn[t].at = "seed" /\ turn'[t].at = "skills"
         /\ turn'[t].thread = turn[t].thread /\ turn'[t].opens = turn[t].opens
         /\ turn'[t].seeds = turn[t].seeds
  <1>1. "skills" \in Stages /\ turn \in [Turns -> TurnType]
    BY DEF Stages, Running, Types
  <1>2. PICK listed \in [Skills -> Policies \cup {Disabled}] :
          listed = SkillsListed(Filled(turn[t].seeds))
    <2>1. PICK table \in [Skills -> Policies \cup {NoSkill}] : table = Filled(turn[t].seeds)
      BY FilledHasType
    <2> QED  BY <2>1, ListedHasType
  <1>3. turn' = [turn EXCEPT ![t].at = "skills", ![t].catalog = listed] /\ turn[t].at = "seed"
    BY <1>2 DEF SeedSkills
  <1> QED  BY ZenonT(30), <1>1, <1>3 DEF Turned, SameTools, TurnType

LEMMA EnqueueMoves ==
  ASSUME Types, NEW t \in Turns, Enqueue(t)
  PROVE  /\ Turned(t) /\ SameTools(t)
         /\ turn[t].at = "stored" /\ turn'[t].at = "completed"
         /\ turn'[t].thread = turn[t].thread /\ turn'[t].opens = turn[t].opens
         /\ turn'[t].seeds = turn[t].seeds
  <1>1. "completed" \in Stages /\ turn \in [Turns -> TurnType]
    BY DEF Stages, Over, Types
  <1>2. turn' = [turn EXCEPT ![t].at = "completed"] /\ turn[t].at = "stored"
    BY DEF Enqueue
  <1> QED  BY <1>1, <1>2 DEF Turned, SameTools, TurnType

(* A turn that is over, or stored, has let go of all it had. *)
LetsGo(t, at) ==
  /\ Turned(t) /\ turn'[t].at = at /\ turn'[t].thread = turn[t].thread
  /\ turn'[t].executed = <<>> /\ turn'[t].loaded = {}
  /\ turn'[t].opens = FALSE /\ turn'[t].seeds = {}

LEMMA PlainLetsGo ==
  ASSUME Types, NEW t \in Turns, NEW at \in Stages, turn' = [turn EXCEPT ![t] = Plain(t, at)]
  PROVE  LetsGo(t, at)
  <1>1. PICK rec \in TurnType :
          /\ rec = Plain(t, at) /\ rec.at = at /\ rec.thread = turn[t].thread
          /\ rec.executed = <<>> /\ rec.loaded = {} /\ rec.opens = FALSE /\ rec.seeds = {}
    BY PlainHasType
  <1>2. turn' = [turn EXCEPT ![t] = rec]
    BY <1>1
  <1>3. Turned(t) /\ turn'[t] = rec
    BY <1>2 DEF Turned, Types
  <1> QED  BY <1>1, <1>3 DEF LetsGo

LEMMA GiveUpMoves ==
  ASSUME Types, NEW t \in Turns, NEW end \in Stages, GiveUp(t, end)
  PROVE  /\ LetsGo(t, end)
         /\ threads' \in [Threads -> {"unused", "pending", "live", "deleted"}]
         /\ \A th \in Threads : threads[th] = "deleted" => threads'[th] = "deleted"
  <1>1. LetsGo(t, end)
    BY PlainLetsGo DEF GiveUp
  <1>2. threads' \in [Threads -> {"unused", "pending", "live", "deleted"}]
    BY DEF GiveUp, Types
  <1> QED  BY <1>1, <1>2 DEF GiveUp

LEMMA StoredMoves ==
  ASSUME Types, NEW t \in Turns, Stored(t)
  PROVE  /\ turn[t].at = "store"
         /\ messages' = messages \cup {t} /\ opened' = (opened \/ turn[t].opens)
         /\ skills' = Filled(turn[t].seeds) /\ skills' \in [Skills -> Policies \cup {NoSkill}]
         /\ threads' \in [Threads -> {"unused", "pending", "live", "deleted"}]
         /\ \A th \in Threads : threads[th] = "deleted" => threads'[th] = "deleted"
  <1>1. /\ turn[t].at = "store"
        /\ messages' = messages \cup {t} /\ opened' = (opened \/ turn[t].opens)
        /\ skills' = Filled(turn[t].seeds)
        /\ threads' = [threads EXCEPT ![turn[t].thread] = IF @ = "pending" THEN "live" ELSE @]
    BY DEF Stored
  <1>2. skills' \in [Skills -> Policies \cup {NoSkill}]
    BY <1>1, FilledHasType
  <1>3. /\ threads' \in [Threads -> {"unused", "pending", "live", "deleted"}]
        /\ \A th \in Threads : threads[th] = "deleted" => threads'[th] = "deleted"
    BY <1>1 DEF Types
  <1> QED  BY <1>1, <1>2, <1>3

-----------------------------------------------------------------------------
(* What a turn has reached is in the tables, and what it has not is not. *)
OutcomeOf(t) ==
  /\ turn[t].at \in Middle => turn[t].thread \in Threads
  /\ turn[t].at \in Middle \cup {"thread"} => opened \/ turn[t].opens
  /\ turn[t].at \in {"stored", "completed"} =>
       /\ opened /\ turn[t].thread \in Threads
       /\ t \in messages \/ threads[turn[t].thread] = "deleted"
  /\ turn[t].at = "completed" => t \in jobs
  /\ t \in messages \ doubt => turn[t].at \in {"stored", "completed", "left"}
  /\ t \in jobs => turn[t].at = "completed"

Outcomes == \A t \in Turns : OutcomeOf(t)

(* The tables that a step leaves at least as they are. *)
TablesGrow(t) ==
  /\ opened => opened'
  /\ \A th \in Threads : threads[th] = "deleted" => threads'[th] = "deleted"
  /\ \A o \in Turns \ {t} : /\ o \in messages <=> o \in messages'
                            /\ o \in jobs <=> o \in jobs'
                            /\ o \in doubt <=> o \in doubt'

LEMMA OthersKeepOutcome ==
  ASSUME Outcomes, NEW t \in Turns, Turned(t), TablesGrow(t), OutcomeOf(t)'
  PROVE  Outcomes'
  <1>1. ASSUME NEW o \in Turns \ {t} PROVE OutcomeOf(o)'
    BY DEF Outcomes, OutcomeOf, Turned, TablesGrow
  <1> QED  BY <1>1 DEF Outcomes

LEMMA MovingKeepsOutcomes ==
  ASSUME Outcomes, NEW t \in Turns, MovesOn(t)
  PROVE  Outcomes'
  <1>1. Turned(t) /\ TablesGrow(t)
    BY DEF MovesOn, TablesGrow
  <1>2. OutcomeOf(t)'
    BY DEF MovesOn, Outcomes, OutcomeOf, Middle
  <1> QED  BY <1>1, <1>2, OthersKeepOutcome

LEMMA EndingKeepsOutcomes ==
  ASSUME Types, Outcomes, NEW t \in Turns, Refused(t) \/ Fail(t) \/ ClientGone(t)
  PROVE  Outcomes' /\ Types' /\ \E end \in {"failed", "left", "gone"} : LetsGo(t, end)
         /\ UNCHANGED <<opened, skills, messages, jobs, doubt>>
  <1>1. PICK end \in {"failed", "left", "gone"} :
          GiveUp(t, end) /\ (turn[t].at = "stored" => end = "left")
    BY DEF Refused, Fail, ClientGone
  <1>2. UNCHANGED <<opened, skills, messages, jobs, doubt>>
        /\ turn[t].at \in Running
    BY DEF Refused, Fail, ClientGone, Running
  <1>3. /\ LetsGo(t, end)
        /\ threads' \in [Threads -> {"unused", "pending", "live", "deleted"}]
        /\ \A th \in Threads : threads[th] = "deleted" => threads'[th] = "deleted"
    <2>1. end \in Stages
      BY DEF Stages, Over
    <2> QED  BY <1>1, <2>1, GiveUpMoves
  <1>4. TablesGrow(t) /\ Turned(t)
    BY <1>2, <1>3 DEF TablesGrow, LetsGo
  <1>5. OutcomeOf(t)'
    BY <1>1, <1>2, <1>3 DEF LetsGo, Outcomes, OutcomeOf, Middle, Running
  <1>6. Outcomes'
    BY <1>4, <1>5, OthersKeepOutcome
  <1>7. Types'
    BY <1>2, <1>3, <1>4 DEF Types, Turned
  <1> QED  BY <1>2, <1>3, <1>6, <1>7

LEMMA StoringKeepsOutcomes ==
  ASSUME Types, Outcomes, NEW t \in Turns, Store(t) \/ StoreUnanswered(t)
  PROVE  Outcomes' /\ Types' /\ \E end \in {"stored", "failed"} : LetsGo(t, end)
  <1>1. PICK end \in {"stored", "failed"} :
          /\ turn' = [turn EXCEPT ![t] = Plain(t, end)]
          /\ doubt' = (IF end = "stored" THEN doubt ELSE doubt \cup {t})
          /\ jobs' = jobs
    BY DEF Store, StoreUnanswered
  <1>2. LetsGo(t, end)
    <2>1. end \in Stages
      BY DEF Stages, Over, Running
    <2> QED  BY <1>1, <2>1, PlainLetsGo
  <1>3. /\ turn[t].at = "store"
        /\ messages' = messages \cup {t} /\ opened' = (opened \/ turn[t].opens)
        /\ skills' \in [Skills -> Policies \cup {NoSkill}]
        /\ threads' \in [Threads -> {"unused", "pending", "live", "deleted"}]
        /\ \A th \in Threads : threads[th] = "deleted" => threads'[th] = "deleted"
    BY StoredMoves DEF Store, StoreUnanswered
  <1>4. TablesGrow(t) /\ Turned(t)
    BY <1>1, <1>2, <1>3 DEF TablesGrow, LetsGo
  <1>5. opened \/ turn[t].opens
    BY <1>3 DEF Outcomes, OutcomeOf, Middle
  <1>6. OutcomeOf(t)'
    <2>1. turn'[t].at = end /\ turn'[t].thread = turn[t].thread /\ turn[t].thread \in Threads
      BY <1>2, <1>3 DEF LetsGo, Outcomes, OutcomeOf, Middle
    <2>2. opened' /\ t \in messages' /\ (end = "failed" => t \in doubt') /\ t \notin jobs'
      BY <1>1, <1>3, <1>5 DEF Outcomes, OutcomeOf
    <2> QED  BY <2>1, <2>2 DEF OutcomeOf, Middle
  <1>7. Outcomes'
    BY <1>4, <1>6, OthersKeepOutcome
  <1>8. Types'
    BY <1>3, <1>4 DEF Types, Turned
  <1> QED  BY <1>2, <1>7, <1>8

LEMMA AddingKeepsOutcomes ==
  ASSUME Types, Outcomes, NEW t \in Turns,
         \/ OpenWorkspace(t) \/ SeedSkills(t) \/ Enqueue(t)
         \/ \E asked \in Threads \cup {NoThread} : Open(t, asked)
  PROVE  Outcomes' /\ Types'
  <1>1. CASE OpenWorkspace(t)
    <2>1. TablesGrow(t) /\ UNCHANGED <<threads, opened, skills, messages, jobs, doubt>>
      BY <1>1 DEF OpenWorkspace, tables, TablesGrow
    <2>2. Turned(t) /\ turn[t].at = "open" /\ turn'[t].at = "thread" /\ turn'[t].opens
      BY <1>1, OpenWorkspaceMoves
    <2>3. OutcomeOf(t)'
      BY <2>1, <2>2 DEF Outcomes, OutcomeOf, Middle
    <2> QED  BY <2>1, <2>2, <2>3, OthersKeepOutcome DEF Types, Turned
  <1>2. CASE SeedSkills(t)
    <2>1. TablesGrow(t) /\ UNCHANGED <<threads, opened, skills, messages, jobs, doubt>>
      BY <1>2 DEF SeedSkills, tables, TablesGrow
    <2>2. Turned(t) /\ turn[t].at = "seed" /\ turn'[t].at = "skills" /\ turn'[t].opens = turn[t].opens
          /\ turn'[t].thread = turn[t].thread
      BY <1>2, SeedMoves
    <2>3. OutcomeOf(t)'
      BY <2>1, <2>2 DEF Outcomes, OutcomeOf, Middle
    <2> QED  BY <2>1, <2>2, <2>3, OthersKeepOutcome DEF Types, Turned
  <1>3. CASE Enqueue(t)
    <2>1. TablesGrow(t) /\ UNCHANGED <<threads, opened, skills, messages, doubt>>
          /\ jobs' = jobs \cup {t}
      BY <1>3 DEF Enqueue, TablesGrow
    <2>2. Turned(t) /\ turn[t].at = "stored" /\ turn'[t].at = "completed"
          /\ turn'[t].thread = turn[t].thread
      BY <1>3, EnqueueMoves
    <2>3. OutcomeOf(t)'
      BY <2>1, <2>2 DEF Outcomes, OutcomeOf, Middle
    <2> QED  BY <2>1, <2>2, <2>3, OthersKeepOutcome DEF Types, Turned
  <1>4. CASE \E asked \in Threads \cup {NoThread} : Open(t, asked)
    <2>1. /\ Turned(t) /\ (turn[t].at = "thread" \/ opened)
          /\ turn[t].at \in {"new", "thread"} /\ turn'[t].at = "context"
          /\ turn'[t].thread \in Threads /\ turn'[t].opens = turn[t].opens
          /\ threads' \in [Threads -> {"unused", "pending", "live", "deleted"}]
          /\ \A th \in Threads : threads[th] = "deleted" => threads'[th] = "deleted"
      BY <1>4, OpenMoves
    <2>2. UNCHANGED <<opened, skills, messages, jobs, doubt>>
      BY <1>4 DEF Open
    <2>3. TablesGrow(t)
      BY <2>1, <2>2 DEF TablesGrow
    <2>4. OutcomeOf(t)'
      BY <2>1, <2>2 DEF Outcomes, OutcomeOf, Middle
    <2> QED  BY <2>1, <2>2, <2>3, <2>4, OthersKeepOutcome DEF Types, Turned
  <1> QED  BY <1>1, <1>2, <1>3, <1>4

(* The page and the user. *)
Others ==
  \/ GetWorkspace \/ ListSkills
  \/ \E th \in Threads : CreateThread(th) \/ DeleteThread(th)
  \/ \E s \in Skills : DeleteSkill(s) \/ \E p \in Policies : PutSkill(s, p)

LEMMA OthersKeepOutcomes ==
  ASSUME Types, Outcomes, Others
  PROVE  Outcomes' /\ Types' /\ UNCHANGED turn
  <1>1. UNCHANGED <<turn, jobs, doubt>>
    BY DEF Others, GetWorkspace, ListSkills, CreateThread, DeleteThread, DeleteSkill, PutSkill
  <1>2. ASSUME threads' \in [Threads -> {"unused", "pending", "live", "deleted"}],
               skills' \in [Skills -> Policies \cup {NoSkill}],
               opened => opened', messages' = messages,
               \A th \in Threads : threads[th] = "deleted" => threads'[th] = "deleted"
        PROVE  Outcomes' /\ Types'
    BY <1>1, <1>2 DEF Outcomes, OutcomeOf, Types
  <1>3. CASE GetWorkspace
    <2>1. /\ opened' /\ UNCHANGED <<skills, messages>>
          /\ \/ threads' = threads
             \/ \E th \in Chosen(NoThread) : ~Live(th) /\ threads' = [threads EXCEPT ![th] = "live"]
      BY <1>3 DEF GetWorkspace
    <2>2. \A th \in Chosen(NoThread) : ~Live(th) => th \in Threads /\ threads[th] = "unused"
      BY ChatAssumption DEF Chosen, Live
    <2>3. skills' \in [Skills -> Policies \cup {NoSkill}]
      BY <2>1 DEF Types
    <2>4. /\ threads' \in [Threads -> {"unused", "pending", "live", "deleted"}]
          /\ \A th \in Threads : threads[th] = "deleted" => threads'[th] = "deleted"
      BY <2>1, <2>2 DEF Types
    <2> QED  BY <1>1, <1>2, <2>1, <2>3, <2>4
  <1>4. CASE ListSkills
    <2>1. skills' = Filled(Missing) /\ UNCHANGED <<threads, opened, messages>>
      BY <1>4 DEF ListSkills
    <2>2. skills' \in [Skills -> Policies \cup {NoSkill}]
      BY <2>1, FilledHasType
    <2>3. threads' \in [Threads -> {"unused", "pending", "live", "deleted"}]
      BY <2>1 DEF Types
    <2> QED  BY <1>1, <1>2, <2>1, <2>2, <2>3
  <1>5. CASE \E th \in Threads : CreateThread(th)
    BY <1>2, <1>5 DEF CreateThread, Types
  <1>6. CASE \E th \in Threads : DeleteThread(th)
    <2>1. PICK th \in Threads : /\ threads' = [threads EXCEPT ![th] = "deleted"]
                                /\ messages' = messages \ TurnsIn(th)
                                /\ UNCHANGED <<opened, skills>>
      BY <1>6 DEF DeleteThread
    <2>2. Types' /\ threads'[th] = "deleted"
          /\ \A o \in Threads : threads[o] = "deleted" => threads'[o] = "deleted"
      BY <1>1, <2>1 DEF Types
    <2>3. \A t \in messages \ messages' : turn[t].thread = th
      BY <2>1 DEF TurnsIn
    <2>4. messages' \subseteq messages
      BY <2>1
    <2>5. ASSUME NEW t \in Turns PROVE OutcomeOf(t)'
      <3>1. OutcomeOf(t)
        BY DEF Outcomes
      <3>2. /\ turn' = turn /\ jobs' = jobs /\ doubt' = doubt /\ opened' = opened
            /\ t \in messages /\ t \notin messages' => turn[t].thread = th
            /\ turn[t].thread \in Threads /\ threads[turn[t].thread] = "deleted" =>
                 threads'[turn[t].thread] = "deleted"
        BY <1>1, <2>1, <2>2, <2>3
      <3> QED  BY <2>2, <2>4, <3>1, <3>2 DEF OutcomeOf
    <2> QED  BY <1>1, <2>2, <2>5 DEF Outcomes
  <1>7. CASE \E s \in Skills : DeleteSkill(s) \/ \E p \in Policies : PutSkill(s, p)
    <2>1. PICK s \in Skills, p \in Policies \cup {NoSkill} : skills' = [skills EXCEPT ![s] = p]
      BY <1>7 DEF DeleteSkill, PutSkill
    <2>2. UNCHANGED <<threads, opened, messages>>
      BY <1>7 DEF DeleteSkill, PutSkill
    <2>3. skills' \in [Skills -> Policies \cup {NoSkill}]
      BY <2>1 DEF Types
    <2>4. threads' \in [Threads -> {"unused", "pending", "live", "deleted"}]
      BY <2>2 DEF Types
    <2> QED  BY <1>1, <1>2, <2>2, <2>3, <2>4
  <1> QED  BY <1>1, <1>3, <1>4, <1>5, <1>6, <1>7 DEF Others

-----------------------------------------------------------------------------
(* The kinds of steps. *)
LEMMA StepKinds ==
  ASSUME Types, Next
  PROVE  \/ Others
         \/ \E t \in Turns :
              \/ MovesOn(t)
              \/ OpenWorkspace(t) \/ SeedSkills(t) \/ Enqueue(t)
              \/ \E asked \in Threads \cup {NoThread} : Open(t, asked)
              \/ Store(t) \/ StoreUnanswered(t)
              \/ Refused(t) \/ Fail(t) \/ ClientGone(t)
  <1>1. ASSUME NEW t \in Turns, Send(t) \/ Proceed(t)
        PROVE  \/ MovesOn(t)
               \/ OpenWorkspace(t) \/ SeedSkills(t) \/ Enqueue(t)
               \/ \E asked \in Threads \cup {NoThread} : Open(t, asked)
               \/ Store(t) \/ StoreUnanswered(t) \/ Refused(t)
    BY <1>1, FindClosedMoves, FindMissingMoves, ReadContextMoves, ChooseMoves, AnswerMoves,
       RejectedMoves, CallMoves, EndCallsMoves DEF Send, Proceed
  <1> QED  BY <1>1 DEF Next, Others

LEMMA OutcomesInit == Init => Types /\ Outcomes
  <1>1. Init => Types
    BY NewHasType DEF Init, Types
  <1>2. Init => Outcomes
    BY DEF Init, New, Outcomes, OutcomeOf, Middle
  <1> QED  BY <1>1, <1>2

LEMMA OutcomesStep == Types /\ Outcomes /\ [Next]_vars => Types' /\ Outcomes'
  <1> SUFFICES ASSUME Types, Outcomes, [Next]_vars PROVE Types' /\ Outcomes'
    OBVIOUS
  <1>1. ASSUME NEW t \in Turns, MovesOn(t) PROVE Types' /\ Outcomes'
    BY <1>1, MovingKeepsOutcomes DEF MovesOn, Types, Turned
  <1>2. CASE Next
    BY <1>1, <1>2, StepKinds, OthersKeepOutcomes, AddingKeepsOutcomes, StoringKeepsOutcomes,
       EndingKeepsOutcomes
  <1>3. CASE UNCHANGED vars
    BY <1>3 DEF vars, tables, Types, Outcomes, OutcomeOf
  <1> QED  BY <1>2, <1>3

LEMMA OutcomesAlways == Spec => [](Types /\ Outcomes)
  BY OutcomesInit, OutcomesStep, PTL DEF Spec

(* A turn that completed is in its thread, unless that was deleted, its job is
   in the queue, and the workspace is open: for any number of turns at once. *)
THEOREM CompletedAreStored == Spec => []CompletedIsStored
  <1>1. Outcomes => CompletedIsStored
    BY DEF Outcomes, OutcomeOf, CompletedIsStored
  <1> QED  BY <1>1, OutcomesAlways, PTL

(* Only turns are stored and enqueued. *)
Known == messages \subseteq Turns /\ jobs \subseteq Turns

LEMMA KnownStep == Known /\ [Next]_vars => Known'
  <1> SUFFICES ASSUME Known, [Next]_vars PROVE Known'
    OBVIOUS
  <1>1. ASSUME NEW t \in Turns, Send(t) \/ Proceed(t) \/ Fail(t) \/ ClientGone(t)
        PROVE  messages' \in {messages, messages \cup {t}} /\ jobs' \in {jobs, jobs \cup {t}}
    BY <1>1 DEF Send, Proceed, FindClosed, OpenWorkspace, Open, FindMissingSkills, SeedSkills,
         ReadContext, ChooseSkills, InvalidAnswer, Answer, CallRejected, CallTool, ToolWaits, EndCalls,
         Store, StoreUnanswered, Stored, Enqueue, Refused, Fail, ClientGone, tables
  <1>2. CASE Others
    BY <1>2 DEF Others, GetWorkspace, ListSkills, CreateThread, DeleteThread, DeleteSkill, PutSkill, Known
  <1>3. CASE UNCHANGED vars
    BY <1>3 DEF vars, tables, Known
  <1> QED  BY <1>1, <1>2, <1>3 DEF Next, Others, Known

(* A turn that failed, or was left before it was stored, is neither in a
   thread nor in the queue, unless the answer to its COMMIT was lost. *)
THEOREM FailedAreNowhere == Spec => []FailedStoresNothing
  <1>1. Outcomes /\ Known => FailedStoresNothing
    BY DEF Outcomes, OutcomeOf, Known, FailedStoresNothing
  <1>2. Init => Known
    BY DEF Init, Known
  <1> QED  BY <1>1, <1>2, KnownStep, OutcomesAlways, PTL DEF Spec

-----------------------------------------------------------------------------
(* Nothing that a turn keeps uncommitted is in the tables or kept twice. *)
KeptOnce ==
  /\ \A t \in Turns : turn[t].opens => ~opened
  /\ \A t, o \in Turns : turn[t].opens /\ turn[o].opens => t = o
  /\ \A t \in Turns : SeededBy(t) \subseteq Missing
  /\ \A t, o \in Turns : t # o => SeededBy(t) \cap SeededBy(o) = {}

(* A step of a turn that takes nothing more. *)
LEMMA TakingNothing ==
  ASSUME KeptOnce, NEW t \in Turns, Turned(t), UNCHANGED <<opened, skills>>,
         turn'[t].opens => turn[t].opens,
         turn'[t].at = "seed" \/ turn'[t].seeds = {} \/
           (turn'[t].seeds = turn[t].seeds /\ turn[t].at # "seed")
  PROVE  KeptOnce'
  <1>1. \A o \in Turns \ {t} : SeededBy(o)' = SeededBy(o) /\ turn'[o].opens = turn[o].opens
    BY DEF SeededBy, Turned
  <1>2. SeededBy(t)' \subseteq SeededBy(t)
    BY DEF SeededBy
  <1>3. Missing' = Missing
    BY DEF Missing
  <1> QED  BY <1>1, <1>2, <1>3 DEF KeptOnce

LEMMA OpeningKeepsOnce ==
  ASSUME Types, KeptOnce, NEW t \in Turns, OpenWorkspace(t)
  PROVE  KeptOnce'
  <1>1. /\ Turned(t) /\ turn[t].at = "open" /\ turn'[t].at = "thread"
        /\ turn'[t].opens = TRUE /\ turn'[t].seeds = turn[t].seeds
    BY OpenWorkspaceMoves
  <1>2. UNCHANGED <<opened, skills>> /\ ~opened /\ \A o \in Turns \ {t} : ~turn[o].opens
    BY DEF OpenWorkspace, OpenedByOther, tables
  <1>3. \A o \in Turns \ {t} : SeededBy(o)' = SeededBy(o) /\ turn'[o].opens = turn[o].opens
    BY <1>1 DEF SeededBy, Turned
  <1>4. SeededBy(t)' = SeededBy(t) /\ Missing' = Missing
    BY <1>1, <1>2 DEF SeededBy, Missing
  <1> QED  BY <1>1, <1>2, <1>3, <1>4 DEF KeptOnce

LEMMA SeedingKeepsOnce ==
  ASSUME Types, KeptOnce, NEW t \in Turns, SeedSkills(t)
  PROVE  KeptOnce'
  <1>1. /\ Turned(t) /\ turn[t].at = "seed" /\ turn'[t].at = "skills"
        /\ turn'[t].opens = turn[t].opens /\ turn'[t].seeds = turn[t].seeds
    BY SeedMoves
  <1>2. /\ UNCHANGED <<opened, skills>> /\ turn[t].seeds \subseteq Missing
        /\ \A o \in Turns \ {t} : turn[t].seeds \cap SeededBy(o) = {}
    BY DEF SeedSkills, SeededByOther, tables
  <1>3. \A o \in Turns \ {t} : SeededBy(o)' = SeededBy(o) /\ turn'[o].opens = turn[o].opens
    BY <1>1 DEF SeededBy, Turned
  <1>4. SeededBy(t)' = turn[t].seeds /\ Missing' = Missing
    BY <1>1, <1>2 DEF SeededBy, Missing
  <1>5. /\ \A o \in Turns : turn'[o].opens = turn[o].opens
        /\ opened' = opened
    BY <1>1, <1>2, <1>3
  <1> QED  BY <1>2, <1>3, <1>4, <1>5 DEF KeptOnce

LEMMA StoringKeepsOnce ==
  ASSUME Types, KeptOnce, NEW t \in Turns, Store(t) \/ StoreUnanswered(t)
  PROVE  KeptOnce'
  <1>1. PICK end \in {"stored", "failed"} : turn' = [turn EXCEPT ![t] = Plain(t, end)]
    BY DEF Store, StoreUnanswered
  <1>2. LetsGo(t, end)
    <2>1. end \in Stages
      BY DEF Stages, Over, Running
    <2> QED  BY <1>1, <2>1, PlainLetsGo
  <1>3. turn[t].at = "store" /\ opened' = (opened \/ turn[t].opens) /\ skills' = Filled(turn[t].seeds)
    BY StoredMoves DEF Store, StoreUnanswered
  <1>4. /\ \A o \in Turns \ {t} : SeededBy(o)' = SeededBy(o) /\ turn'[o].opens = turn[o].opens
        /\ SeededBy(t)' = {} /\ turn'[t].opens = FALSE
    BY <1>2 DEF LetsGo, SeededBy, Turned
  <1>5. SeededBy(t) = turn[t].seeds
    BY <1>3 DEF SeededBy
  <1>6. Missing' = Missing \ turn[t].seeds
    BY <1>3, ChatAssumption DEF Missing, Filled
  <1>7. \A o \in Turns \ {t} : SeededBy(o) \subseteq Missing'
    BY <1>5, <1>6 DEF KeptOnce
  <1>8. \A o \in Turns \ {t} : turn[o].opens => ~opened'
    BY <1>3 DEF KeptOnce
  <1> QED  BY <1>4, <1>7, <1>8 DEF KeptOnce

LEMMA OthersKeepOnce ==
  ASSUME Types, KeptOnce, Others
  PROVE  KeptOnce'
  <1>1. UNCHANGED turn
    BY DEF Others, GetWorkspace, ListSkills, CreateThread, DeleteThread, DeleteSkill, PutSkill
  <1>2. \A t \in Turns : SeededBy(t)' = SeededBy(t)
    BY <1>1 DEF SeededBy
  <1>3. ASSUME \A t \in Turns : turn[t].opens => ~opened',
               \A t \in Turns : SeededBy(t) \subseteq Missing'
        PROVE  KeptOnce'
    BY <1>1, <1>2, <1>3 DEF KeptOnce
  <1>4. CASE GetWorkspace
    <2>1. Missing' = Missing /\ \A t \in Turns : ~turn[t].opens
      BY <1>4 DEF GetWorkspace, Missing
    <2> QED  BY <1>3, <2>1 DEF KeptOnce
  <1>5. CASE ListSkills
    <2>1. /\ Missing \cap SeededByTurns = {} /\ opened' = opened
      BY <1>5 DEF ListSkills
    <2>2. \A t \in Turns : SeededBy(t) \subseteq SeededByTurns
      BY DEF SeededByTurns
    <2>3. \A t \in Turns : SeededBy(t) = {}
      BY <2>1, <2>2 DEF KeptOnce
    <2> QED  BY <1>3, <2>1, <2>3 DEF KeptOnce
  <1>6. CASE \E th \in Threads : CreateThread(th) \/ DeleteThread(th)
    <2>1. opened' = opened /\ Missing' = Missing
      BY <1>6 DEF CreateThread, DeleteThread, Missing
    <2> QED  BY <1>3, <2>1 DEF KeptOnce
  <1>7. CASE \E s \in Skills : DeleteSkill(s)
    <2>1. opened' = opened /\ Missing \subseteq Missing'
      BY <1>7 DEF DeleteSkill, Missing, Types
    <2> QED  BY <1>3, <2>1 DEF KeptOnce
  <1>8. CASE \E s \in Skills, p \in Policies : PutSkill(s, p)
    <2>1. PICK s \in Skills, p \in Policies :
            skills' = [skills EXCEPT ![s] = p] /\ opened' = opened /\ s \notin SeededByTurns
      BY <1>8 DEF PutSkill
    <2>2. Missing \ {s} \subseteq Missing'
      BY <2>1 DEF Missing, Types
    <2>3. \A t \in Turns : s \notin SeededBy(t)
      BY <2>1 DEF SeededByTurns
    <2> QED  BY <1>3, <2>1, <2>2, <2>3 DEF KeptOnce
  <1> QED  BY <1>4, <1>5, <1>6, <1>7, <1>8 DEF Others

LEMMA OnceStep == Types /\ Outcomes /\ KeptOnce /\ [Next]_vars => KeptOnce'
  <1> SUFFICES ASSUME Types, Outcomes, KeptOnce, [Next]_vars PROVE KeptOnce'
    OBVIOUS
  <1>1. ASSUME NEW t \in Turns, MovesOn(t) PROVE KeptOnce'
    BY <1>1, TakingNothing DEF MovesOn
  <1>2. ASSUME NEW t \in Turns, Enqueue(t) PROVE KeptOnce'
    BY <1>2, EnqueueMoves, TakingNothing DEF Enqueue
  <1>3. ASSUME NEW t \in Turns, NEW asked, Open(t, asked) PROVE KeptOnce'
    <2>1. /\ Turned(t) /\ turn[t].at # "seed"
          /\ turn'[t].opens = turn[t].opens /\ turn'[t].seeds = turn[t].seeds
      BY <1>3, OpenMoves
    <2> QED  BY <1>3, <2>1, TakingNothing DEF Open
  <1>4. ASSUME NEW t \in Turns, Refused(t) \/ Fail(t) \/ ClientGone(t) PROVE KeptOnce'
    <2>1. UNCHANGED <<opened, skills>> /\ \E end \in {"failed", "left", "gone"} : LetsGo(t, end)
      BY <1>4, EndingKeepsOutcomes
    <2>2. Turned(t) /\ ~turn'[t].opens /\ turn'[t].seeds = {}
      BY <2>1 DEF LetsGo
    <2> QED  BY <2>1, <2>2, TakingNothing
  <1>5. CASE Next
    BY <1>1, <1>2, <1>3, <1>4, <1>5, StepKinds, OthersKeepOnce, OpeningKeepsOnce, SeedingKeepsOnce,
       StoringKeepsOnce
  <1>6. CASE UNCHANGED vars
    BY <1>6 DEF vars, tables, KeptOnce, SeededBy, Missing
  <1> QED  BY <1>5, <1>6

(* Of all turns and pages that miss a row, one adds it. *)
THEOREM RowsAreMadeOnce == Spec => []SeededOnce
  <1>1. Init => KeptOnce
    BY DEF Init, New, KeptOnce, SeededBy
  <1>2. KeptOnce => SeededOnce
    BY DEF KeptOnce, SeededOnce, OpenedByOther, SeededByOther
  <1> QED  BY <1>1, <1>2, OutcomesAlways, OnceStep, PTL DEF Spec

-----------------------------------------------------------------------------
(* The tools that ran, in their order, keep to the policies that are loaded. *)
Apart(ran, blocked) ==
  \A pair \in blocked : ~(\E m, n \in 1..Len(ran) : m # n /\ ran[m] = pair[1] /\ ran[n] = pair[2])

InOrder(ran, order) ==
  \A n \in 1..Len(ran), j \in 1..Len(order) :
    (ran[n] = order[j] /\ \A i \in 1..j - 1 : order[i] # ran[n]) =>
      \A i \in 1..j - 1 : \E m \in 1..n - 1 : ran[m] = order[i]

Follows(ran, loaded) ==
  /\ \A n \in 1..Len(ran) : \E p \in loaded : ran[n] \in p.allowed
  /\ \A p \in loaded : Apart(ran, p.blocked) /\ InOrder(ran, p.order)

(* No required order names a tool twice. *)
OrdersAreDistinct ==
  \A p \in Policies : \A i, j \in 1..Len(p.order) : p.order[i] = p.order[j] => i = j

LEMMA NothingFollows ==
  ASSUME NEW loaded
  PROVE  Follows(<<>>, loaded)
  BY DEF Follows, Apart, InOrder

LEMMA BeforeInOrder ==
  ASSUME NEW ran, NEW order, InOrder(ran, order),
         NEW n \in 1..Len(ran), NEW j \in 1..Len(order), ran[n] = order[j],
         \A i \in 1..j - 1 : order[i] # ran[n], NEW i \in 1..j - 1
  PROVE  \E m \in 1..n - 1 : ran[m] = order[i]
  BY DEF InOrder

(* One more tool that is allowed keeps to the policies: that the one before it
   has run is enough, for that one needed all the others. *)
LEMMA OneMoreFollows ==
  ASSUME OrdersAreDistinct, NEW loaded \in SUBSET Policies, NEW ran \in Seq(Registered),
         NEW tool \in Registered, Follows(ran, loaded),
         NEW done, done = {ran[n] : n \in 1..Len(ran)},
         \E p \in loaded : tool \in p.allowed,
         \A p \in loaded :
           /\ \A pair \in p.blocked : /\ tool = pair[1] => pair[2] \notin done
                                      /\ tool = pair[2] => pair[1] \notin done
           /\ Predecessor(p.order, tool) \subseteq done
  PROVE  Follows(Append(ran, tool), loaded)
  <1>1. PICK len \in Nat, last \in Nat : len = Len(ran) /\ last = len + 1
    OBVIOUS
  <1>2. PICK new : new = Append(ran, tool)
    OBVIOUS
  <1>3. /\ 1..Len(new) = (1..len) \cup {last} /\ new[last] = tool
        /\ \A n \in 1..len : new[n] = ran[n] /\ n < last
        /\ 1..last - 1 = 1..len
    BY <1>1, <1>2, Z3
  <1>4. \A n \in 1..Len(new) : \E p \in loaded : new[n] \in p.allowed
    BY <1>1, <1>3 DEF Follows
  <1>5. ASSUME NEW p \in loaded, NEW pair \in p.blocked,
               NEW m \in 1..Len(new), NEW n \in 1..Len(new), m # n,
               new[m] = pair[1], new[n] = pair[2]
        PROVE  FALSE
    <2>1. CASE m = last
      <3>1. n \in 1..len /\ tool = pair[1]
        BY <1>3, <1>5, <2>1
      <3>2. pair[2] \in done
        BY <1>1, <1>3, <1>5, <3>1
      <3> QED  BY <3>1, <3>2
    <2>2. CASE n = last
      <3>1. m \in 1..len /\ tool = pair[2]
        BY <1>3, <1>5, <2>2
      <3>2. pair[1] \in done
        BY <1>1, <1>3, <1>5, <3>1
      <3> QED  BY <3>1, <3>2
    <2>3. CASE m \in 1..len /\ n \in 1..len
      <3>1. ran[m] = pair[1] /\ ran[n] = pair[2]
        BY <1>3, <1>5, <2>3
      <3> QED  BY <1>1, <1>5, <2>3, <3>1 DEF Follows, Apart
    <2> QED  BY <1>3, <2>1, <2>2, <2>3
  <1>6. ASSUME NEW p \in loaded
        PROVE  InOrder(new, p.order)
    <2> SUFFICES ASSUME NEW n \in 1..Len(new), NEW j \in 1..Len(p.order),
                        new[n] = p.order[j], \A i \in 1..j - 1 : p.order[i] # new[n],
                        NEW i \in 1..j - 1
                 PROVE  \E m \in 1..n - 1 : new[m] = p.order[i]
      BY Zenon DEF InOrder
    <2>1. PICK order \in Seq(Tools) : order = p.order
      BY ChatAssumption DEF Policy
    <2>2. CASE n \in 1..len
      <3>1. ran[n] = order[j]
        BY <1>3, <1>6, <2>1, <2>2
      <3>2. PICK m \in 1..n - 1 : ran[m] = order[i]
        <4>1. InOrder(ran, order)
          BY <2>1 DEF Follows
        <4>2. \A h \in 1..j - 1 : order[h] # ran[n]
          BY <1>3, <2>1, <2>2
        <4>3. n \in 1..Len(ran) /\ j \in 1..Len(order) /\ i \in 1..j - 1
          BY <1>1, <2>1, <2>2
        <4>4. \E m \in 1..n - 1 : ran[m] = order[i]
          BY <3>1, <4>1, <4>2, <4>3, BeforeInOrder
        <4> QED  BY <4>4
      <3>3. m \in 1..len
        BY <2>2
      <3> QED  BY <1>3, <2>1, <3>2, <3>3
    <2>3. CASE n = last
      <3>1. PICK k \in 1..Len(order) - 1 : k = j - 1 /\ i <= k /\ k \in 1..Len(order)
        BY <1>6, <2>1
      <3>2. order[k + 1] = tool /\ \A h \in 1..k : order[h] # tool
        BY <1>3, <1>6, <2>1, <2>3, <3>1
      <3>3. order[k] \in Predecessor(order, tool)
        BY <3>1, <3>2 DEF Predecessor
      <3>4. PICK m \in 1..len : ran[m] = order[k]
        BY <1>1, <2>1, <3>3
      <3>5. CASE i = k
        BY <1>3, <2>1, <2>3, <3>4, <3>5
      <3>6. CASE i # k
        <4>1. i \in 1..k - 1
          BY <3>1, <3>6
        <4>2. \A h \in 1..k - 1 : order[h] # ran[m]
          <5>1. \A h \in 1..k - 1 : h \in 1..Len(order) /\ h # k
            BY <3>1
          <5> QED  BY <2>1, <3>1, <3>4, <5>1 DEF OrdersAreDistinct
        <4>3. PICK h \in 1..m - 1 : ran[h] = order[i]
          <5>1. InOrder(ran, order)
            BY <2>1 DEF Follows
          <5>2. m \in 1..Len(ran) /\ k \in 1..Len(order)
            BY <1>1, <3>1, <3>4
          <5>3. ran[m] = order[k]
            BY <3>4
          <5>4. \E h \in 1..m - 1 : ran[h] = order[i]
            BY <4>1, <4>2, <5>1, <5>2, <5>3, BeforeInOrder
          <5> QED  BY <5>4
        <4>4. h \in 1..len
          BY <3>4
        <4>5. new[h] = p.order[i]
          BY <1>3, <2>1, <4>3, <4>4
        <4>6. h \in 1..n - 1
          BY <1>3, <2>3, <4>4
        <4> QED  BY <4>5, <4>6
      <3> QED  BY <3>5, <3>6
    <2> QED  BY <1>3, <2>2, <2>3
  <1>7. Follows(new, loaded)
    <2>1. ASSUME NEW p \in loaded PROVE Apart(new, p.blocked)
      BY <1>5 DEF Apart
    <2> QED  BY <1>4, <2>1, <1>6 DEF Follows
  <1> QED  BY <1>2, <1>7

PolicyInv ==
  \A t \in Turns : /\ turn[t].at \in Early => turn[t].executed = <<>>
                   /\ Follows(turn[t].executed, turn[t].loaded)

LEMMA CallKeepsPolicy ==
  ASSUME Types, PolicyInv, OrdersAreDistinct, NEW t \in Turns, NEW tool, CallTool(t, tool)
  PROVE  PolicyInv'
  <1>1. /\ MovesOn(t) /\ turn'[t].loaded = turn[t].loaded
        /\ turn'[t].executed = Append(turn[t].executed, tool) /\ turn'[t].at = "calls"
    BY CallMoves
  <1>2. PICK ran \in Seq(Registered), loaded \in SUBSET Policies :
          ran = turn[t].executed /\ loaded = turn[t].loaded
    BY DEF Types, TurnType
  <1>3. PICK done : done = Executed(t)
    OBVIOUS
  <1>4. /\ tool \in Registered /\ \E p \in loaded : tool \in p.allowed
        /\ \A p \in loaded :
             /\ \A pair \in p.blocked : /\ tool = pair[1] => pair[2] \notin done
                                        /\ tool = pair[2] => pair[1] \notin done
             /\ Predecessor(p.order, tool) \subseteq done
    BY <1>2, <1>3 DEF CallTool, IsToolAllowed
  <1>5. done = {ran[n] : n \in 1..Len(ran)}
    BY <1>2, <1>3 DEF Executed
  <1>6. Follows(ran, loaded)
    BY <1>2 DEF PolicyInv
  <1>7. Follows(Append(ran, tool), loaded)
    BY <1>4, <1>5, <1>6, OneMoreFollows
  <1>8. Follows(turn'[t].executed, turn'[t].loaded) /\ turn'[t].at \notin Early
    BY <1>1, <1>2, <1>7 DEF Early
  <1> QED  BY <1>1, <1>8 DEF PolicyInv, MovesOn, Turned

LEMMA PolicyStep == OrdersAreDistinct /\ Types /\ Outcomes /\ PolicyInv /\ [Next]_vars => PolicyInv'
  <1> SUFFICES ASSUME OrdersAreDistinct, Types, Outcomes, PolicyInv, [Next]_vars PROVE PolicyInv'
    OBVIOUS
  <1>1. ASSUME NEW t \in Turns, Turned(t), SameTools(t), turn'[t].at \in Early => turn[t].at \in Early
        PROVE  PolicyInv'
    BY <1>1 DEF PolicyInv, Turned, SameTools
  <1>2. ASSUME NEW t \in Turns, Turned(t), turn'[t].executed = <<>>
        PROVE  PolicyInv'
    BY <1>2, NothingFollows DEF PolicyInv, Turned
  <1>3. ASSUME NEW t \in Turns,
               FindClosed(t) \/ FindMissingSkills(t) \/ ReadContext(t) \/ InvalidAnswer(t) \/ Answer(t)
        PROVE  PolicyInv'
    <2>1. Turned(t) /\ SameTools(t)
      BY <1>3, FindClosedMoves, FindMissingMoves, ReadContextMoves, AnswerMoves DEF MovesOn
    <2>2. turn[t].at \in Early
      BY <1>3 DEF FindClosed, FindMissingSkills, ReadContext, InvalidAnswer, Answer, Early
    <2> QED  BY <1>1, <2>1, <2>2
  <1>4. ASSUME NEW t \in Turns, NEW requested \in SUBSET Skills, ChooseSkills(t, requested)
        PROVE  PolicyInv'
    BY <1>2, <1>4, ChooseMoves DEF MovesOn, PolicyInv, Early
  <1>5. ASSUME NEW t \in Turns, NEW tool, CallRejected(t, tool) \/ ToolWaits(t, tool)
        PROVE  PolicyInv'
    <2>1. Turned(t) /\ SameTools(t) /\ turn'[t].at \notin Early
      BY <1>5, RejectedMoves DEF MovesOn, Early
    <2> QED  BY <1>1, <2>1
  <1>6. ASSUME NEW t \in Turns, EndCalls(t)
        PROVE  PolicyInv'
    BY <1>2, <1>6, EndCallsMoves DEF MovesOn
  <1>7. ASSUME NEW t \in Turns,
               \/ OpenWorkspace(t) \/ SeedSkills(t) \/ Enqueue(t) \/ \E asked : Open(t, asked)
        PROVE  PolicyInv'
    <2>1. /\ Turned(t) /\ SameTools(t)
          /\ turn'[t].at = "completed" \/ turn[t].at \in {"open", "seed", "new", "thread"}
      BY <1>7, OpenWorkspaceMoves, SeedMoves, EnqueueMoves, OpenMoves
    <2> QED  BY <1>1, <2>1 DEF Early
  <1>8. ASSUME NEW t \in Turns,
               Store(t) \/ StoreUnanswered(t) \/ Refused(t) \/ Fail(t) \/ ClientGone(t)
        PROVE  PolicyInv'
    <2>1. PICK end : LetsGo(t, end)
      BY <1>8, StoringKeepsOutcomes, EndingKeepsOutcomes
    <2> QED  BY <1>2, <2>1 DEF LetsGo
  <1>9. CASE Others \/ UNCHANGED vars
    <2>1. UNCHANGED turn
      BY <1>9, OthersKeepOutcomes DEF vars
    <2> QED  BY <2>1 DEF PolicyInv
  <1> QED
    BY <1>3, <1>4, <1>5, <1>6, <1>7, <1>8, <1>9, CallKeepsPolicy DEF Next, Others, Send, Proceed

(* If no required order names a tool twice, the tools of a turn keep to every
   skill it loaded: only allowed ones run, no blocked pair, and each after all
   that its order puts before it, although only the last of these is checked. *)
THEOREM ToolsKeepToPolicy == ASSUME OrdersAreDistinct PROVE Spec => []ToolsFollowPolicy
  <1>1. Init => PolicyInv
    BY NothingFollows DEF Init, New, PolicyInv
  <1>2. Types /\ Outcomes /\ PolicyInv /\ [Next]_vars => PolicyInv'
    BY PolicyStep
  <1>3. PolicyInv => ToolsFollowPolicy
    BY DEF PolicyInv, Follows, Apart, InOrder, ToolsFollowPolicy
  <1> QED  BY <1>1, <1>2, <1>3, OutcomesAlways, PTL DEF Spec

-----------------------------------------------------------------------------
(* What holds of the committed rows, of a snapshot and of what a request sees:
   a document has one row, and the protected documents are there. Nothing of
   the kind holds of rules and memories: a restore adds those of the snapshot
   beside the ones that others have added since it looked. *)
Typed(rows) ==
  \A row \in rows : /\ row = [type |-> row.type, key |-> row.key, val |-> row.val]
                    /\ \E i \in 1..5 : row.type = Tables[i]

OneRowEach(rows) ==
  \A row, other \in rows :
    row.type = "document" /\ other.type = "document" /\ row.key = other.key => row = other

HasProtected(rows) ==
  \A key \in Protected : \E row \in rows : row.type = "document" /\ row.key = key

Sound(rows) == Typed(rows) /\ OneRowEach(rows) /\ HasProtected(rows)

(* The tables before the n-th. *)
Before(n) == {Tables[i] : i \in 1..n - 1}

(* What a restore of items has made of the committed rows when it comes to the
   n-th table. *)
Recreated(rows, items) ==
  {IF Key(row) \in Keys(OfType(rows, "document")) THEN row
   ELSE [row EXCEPT !.val = Stripped[row.val]] : row \in OfType(items, "document")}

Restored(rows, items, n) ==
  {row \in rows : row.type \notin Before(n)}
    \cup {row \in items : row.type \in Before(n) /\ row.type # "document"}
    \cup Recreated(rows, items)

(* The request t, over the committed rows and the snapshots. *)
Seen(rows, t) == {row \in rows : Key(row) \notin t.dels} \cup t.ins
Items(snaps, t) == (CHOOSE s \in snaps : s.id = t.target).items
Touched(t) == {key \in t.dels \cup Keys(t.ins) : key[1] = "document"}

UpTo(rows, n) == {row \in rows : row.type \in Before(n)}

IsRequest(t) ==
  t \in [at : {t.at}, type : {t.type}, since : {t.since}, target : {t.target},
         doomed : {t.doomed}, todo : {t.todo}, now : {t.now}, dels : {t.dels}, ins : {t.ins},
         found : {t.found}, copy : {t.copy}, rank : {t.rank}, parent : {t.parent}, calm : BOOLEAN]

Writing == {"delete", "update", "insert"}
Points == AtDocuments \cup {"idle", "select", "flush", "read", "parent", "commit", "done", "failed"}

IsDocument(row) ==
  row.type = "document" /\ row = [type |-> row.type, key |-> row.key, val |-> row.val]

(* The documents that a restore has still to write, and the committed rows
   with the documents that it has written. *)
Pending(t) == Keys(t.doomed \cup t.todo) \cup (IF t.at \in Writing THEN {Key(t.now)} ELSE {})

Half(rows, items, keys) ==
  {row \in rows : row.type # "document" \/ Key(row) \in keys}
    \cup {row \in Recreated(rows, items) : Key(row) \notin keys}

(* What it has done so far concerns the tables it has come to. *)
Proceeds(t) ==
  /\ t.at \in Points
  /\ t.at \in {"idle", "documents", "heads", "done", "failed"} \/ t.target = NoRequest =>
       t.dels = {} /\ t.ins = {}
  /\ t.at \in AtDocuments \cup {"select", "flush"} => t.target # NoRequest
  /\ t.at \in AtDocuments \cup {"idle", "select", "flush"} => t.copy = {}
  /\ t.at \in AtDocuments \ {"documents"} =>
       /\ \A key \in t.dels : key[1] = "document"
       /\ \A row \in t.ins : row.type = "document"
       /\ \A row \in t.doomed \cup t.todo : IsDocument(row)
       /\ \A row \in t.doomed : row.key \notin Protected
       /\ t.doomed # {} \/ t.at = "delete" => t.ins = {}
       /\ t.at \in {"update", "insert"} => t.doomed = {}
       /\ t.at \in Writing => IsDocument(t.now)
       /\ t.at = "delete" => t.now.key \notin Protected
  /\ t.at \in {"idle", "read"} => t.type \in 1..5
  /\ t.at = "idle" => t.type = 1
  /\ t.at \in {"select", "flush"} =>
       /\ t.type \in 2..5
       /\ \A key \in t.dels : key[1] \in Before(t.type)
       /\ \A row \in t.ins : row.type \in Before(t.type)
  /\ t.at = "flush" => \A row \in t.found : row.type = Tables[t.type]
  /\ t.at = "read" => IF t.type = 1 THEN t.copy = {} ELSE Sound(t.copy)
  /\ t.at \in {"parent", "commit"} => Sound(t.copy)

(* While nothing else is committed, it sees the workspace as its restore has
   left it, and copies what it sees. *)
Documents(rows, items, t) ==
  /\ t.found = OfType(rows, "document")
  /\ Seen(rows, t) = Half(rows, items, Pending(t))
  /\ t.doomed \subseteq OfType(rows, "document")
  /\ t.todo \subseteq OfType(items, "document")
  /\ \A row \in t.doomed : Key(row) \notin Keys(OfType(items, "document"))
  /\ t.at \in Writing => Key(t.now) \notin Keys(t.doomed \cup t.todo)
  /\ t.at = "delete" => /\ t.now \in OfType(rows, "document")
                        /\ Key(t.now) \notin Keys(OfType(items, "document"))
  /\ t.at \in {"update", "insert"} => t.now \in Recreated(rows, items)

Undisturbed(rows, items, t) ==
  /\ t.at \in AtDocuments \ {"documents"} => Documents(rows, items, t)
  /\ t.at \in {"select", "flush"} => Seen(rows, t) = Restored(rows, items, t.type)
  /\ t.at = "flush" => t.found = OfType(rows, Tables[t.type])
  /\ t.at \in {"read", "parent", "commit"} /\ t.target # NoRequest =>
       Seen(rows, t) = Restored(rows, items, 6)
  /\ t.at = "read" => t.copy = UpTo(Seen(rows, t), t.type)
  /\ t.at \in {"parent", "commit"} => t.copy = Seen(rows, t)

RequestOK(rows, snaps, t) ==
  /\ IsRequest(t) /\ Proceeds(t)
  /\ t.target # NoRequest => \E s \in snaps : s.id = t.target
  /\ Sound(Seen(rows, t))
  /\ t.calm => Undisturbed(rows, Items(snaps, t), t)

(* A snapshot bears the name of a request that is over. *)
SnapshotsOK ==
  /\ \A s \in snapshots : s.id \in Requests /\ req[s.id].at = "done" /\ Sound(s.items)
  /\ \A s, t \in snapshots : s.id = t.id => s = t

(* No two requests write the same document. *)
DocumentsApart == \A r, q \in Requests : r # q => Touched(req[r]) \cap Touched(req[q]) = {}

SnapshotsInv ==
  /\ Sound(ws) /\ SnapshotsOK /\ DocumentsApart
  /\ DOMAIN req = Requests /\ req = [r \in Requests |-> req[r]]
  /\ \A r \in Requests : RequestOK(ws, snapshots, req[r])

-----------------------------------------------------------------------------
(* The tables and their order *)
LEMMA TablesAre ==
  /\ Len(Tables) = 5 /\ DOMAIN Tables = 1..5 /\ Tables[1] = "document"
  /\ \A i \in 2..5 : Tables[i] # "document"
  /\ \A i, j \in 1..5 : Tables[i] = Tables[j] => i = j
  BY DEF Tables

LEMMA BeforeAre ==
  /\ Before(1) = {}
  /\ \A n \in 1..5 : Before(n + 1) = Before(n) \cup {Tables[n]} /\ Tables[n] \notin Before(n)
  /\ \A n \in 2..6 : "document" \in Before(n)
  /\ \A i \in 1..5 : Tables[i] \in Before(6)
  <1>1. Before(1) = {}
    BY DEF Before
  <1>2. ASSUME NEW n \in 1..5
        PROVE  Before(n + 1) = Before(n) \cup {Tables[n]} /\ Tables[n] \notin Before(n)
    <2>1. 1..(n + 1) - 1 = (1..n - 1) \cup {n}
      OBVIOUS
    <2>2. Before(n + 1) = Before(n) \cup {Tables[n]}
      BY <2>1 DEF Before
    <2>3. \A i \in 1..n - 1 : Tables[i] # Tables[n]
      BY TablesAre
    <2> QED  BY <2>2, <2>3 DEF Before
  <1>3. ASSUME NEW n \in 2..6 PROVE "document" \in Before(n)
    <2>1. 1 \in 1..n - 1
      OBVIOUS
    <2> QED  BY <2>1, TablesAre DEF Before
  <1>4. \A i \in 1..5 : Tables[i] \in Before(6)
    BY DEF Before
  <1> QED  BY <1>1, <1>2, <1>3, <1>4

LEMMA KeysAre ==
  ASSUME NEW row, NEW other
  PROVE  /\ Key(row) = Key(other) <=> row.type = other.type /\ row.key = other.key
         /\ Key(row)[1] = row.type
  BY DEF Key

(* Only the documents of a set of rows matter for it to be sound. *)
LEMMA SoundByDocuments ==
  ASSUME NEW rows, NEW other, Sound(rows), Typed(other),
         OfType(other, "document") = OfType(rows, "document")
  PROVE  Sound(other)
  <1>1. \A row : row \in other /\ row.type = "document" <=> row \in rows /\ row.type = "document"
    BY DEF OfType
  <1>2. OneRowEach(other)
    BY <1>1 DEF Sound, OneRowEach
  <1>3. HasProtected(other)
    BY <1>1 DEF Sound, HasProtected
  <1> QED  BY <1>2, <1>3 DEF Sound

LEMMA FirstIsSound ==
  ASSUME NEW rows \in {Fresh} \cup {s.items : s \in Earlier}
  PROVE  Sound(rows)
  <1>1. rows \subseteq Rows
    BY SnapshotsAssumption
  <1>2. Typed(rows)
    BY <1>1, SnapshotsAssumption, TablesAre DEF Typed
  <1>3. OneRowEach(rows) /\ HasProtected(rows)
    BY SnapshotsAssumption DEF OneRowEach, HasProtected
  <1> QED  BY <1>2, <1>3 DEF Sound

(* A change of documents that a request does not touch leaves what it sees sound. *)
LEMMA SeenStaysSound ==
  ASSUME NEW rows, NEW other, NEW t, NEW keys, Sound(Seen(rows, t)), Sound(other),
         \A row : row.type = "document" /\ Key(row) \notin keys => (row \in rows <=> row \in other),
         Touched(t) \cap keys = {}
  PROVE  Sound(Seen(other, t))
  <1>1. \A row \in t.ins : row \in Seen(rows, t)
    BY DEF Seen
  <1>2. Typed(Seen(other, t))
    BY <1>1 DEF Sound, Typed, Seen
  <1>3. ASSUME NEW row \in other, NEW mine \in t.ins,
               row.type = "document", mine.type = "document", row.key = mine.key,
               Key(row) \notin t.dels
        PROVE  row = mine
    <2>1. Key(row) = Key(mine) /\ Key(mine)[1] = "document"
      BY <1>3, KeysAre
    <2>2. Key(mine) \in Touched(t)
      BY <2>1 DEF Touched, Keys
    <2>3. row \in rows
      BY <1>3, <2>1, <2>2
    <2>4. row \in Seen(rows, t)
      BY <1>3, <2>3 DEF Seen
    <2> QED  BY <1>1, <1>3, <2>4 DEF Sound, OneRowEach
  <1>4. OneRowEach(Seen(other, t))
    <2> SUFFICES ASSUME NEW x \in Seen(other, t), NEW y \in Seen(other, t),
                        x.type = "document", y.type = "document", x.key = y.key
                 PROVE  x = y
      BY DEF OneRowEach
    <2>1. CASE x \in t.ins /\ y \in t.ins
      BY <1>1, <2>1 DEF Sound, OneRowEach
    <2>2. CASE x \in t.ins /\ y \notin t.ins
      BY <1>3, <2>2 DEF Seen
    <2>3. CASE x \notin t.ins /\ y \in t.ins
      BY <1>3, <2>3 DEF Seen
    <2>4. CASE x \notin t.ins /\ y \notin t.ins
      BY <2>4 DEF Seen, Sound, OneRowEach
    <2> QED  BY <2>1, <2>2, <2>3, <2>4
  <1>5. HasProtected(Seen(other, t))
    <2> SUFFICES ASSUME NEW key \in Protected
                 PROVE  \E row \in Seen(other, t) : row.type = "document" /\ row.key = key
      BY DEF HasProtected
    <2>1. PICK z \in Seen(rows, t) : z.type = "document" /\ z.key = key
      BY DEF Sound, HasProtected
    <2>2. PICK y \in other : y.type = "document" /\ y.key = key
      BY DEF Sound, HasProtected
    <2>3. CASE z \in t.ins
      BY <2>1, <2>3 DEF Seen
    <2>4. CASE z \notin t.ins
      <3>1. Key(z) \notin t.dels /\ Key(y) = Key(z)
        BY <2>1, <2>2, <2>4, KeysAre DEF Seen
      <3>2. y \in Seen(other, t)
        BY <3>1 DEF Seen
      <3> QED  BY <2>2, <3>2
    <2> QED  BY <2>3, <2>4
  <1> QED  BY <1>2, <1>4, <1>5 DEF Sound

-----------------------------------------------------------------------------
(* Restoring the documents *)
LEMMA RecreatedAre ==
  ASSUME NEW rows, NEW items, Typed(items), NEW row \in Recreated(rows, items)
  PROVE  \E item \in items :
           /\ item.type = "document" /\ row.type = "document" /\ row.key = item.key
           /\ row = [type |-> row.type, key |-> row.key, val |-> row.val]
           /\ row = IF Key(item) \in Keys(OfType(rows, "document")) THEN item
                    ELSE [item EXCEPT !.val = Stripped[item.val]]
  <1>1. PICK item \in OfType(items, "document") :
          row = IF Key(item) \in Keys(OfType(rows, "document")) THEN item
                ELSE [item EXCEPT !.val = Stripped[item.val]]
    BY DEF Recreated
  <1>2. /\ item \in items /\ item.type = "document"
        /\ item = [type |-> item.type, key |-> item.key, val |-> item.val]
    BY DEF OfType, Typed
  <1>3. CASE Key(item) \in Keys(OfType(rows, "document"))
    BY <1>1, <1>2, <1>3
  <1>4. CASE Key(item) \notin Keys(OfType(rows, "document"))
    <2>1. PICK val : val = Stripped[item.val]
      OBVIOUS
    <2>2. row = [type |-> item.type, key |-> item.key, val |-> val]
      BY <1>1, <1>2, <1>4, <2>1
    <2> QED  BY <1>1, <1>2, <2>2
  <1> QED  BY <1>3, <1>4

LEMMA RecreatedIsSound ==
  ASSUME NEW rows, NEW items, Sound(items)
  PROVE  Sound(Recreated(rows, items)) /\ \A row \in Recreated(rows, items) : row.type = "document"
  <1> DEFINE made == Recreated(rows, items)
  <1>1. \A row \in made : row.type = "document"
    BY RecreatedAre DEF Sound
  <1>2. Typed(made)
    BY <1>1, RecreatedAre, TablesAre DEF Sound, Typed
  <1>3. OneRowEach(made)
    <2> SUFFICES ASSUME NEW x \in made, NEW y \in made, x.key = y.key PROVE x = y
      BY DEF OneRowEach
    <2>1. PICK i \in items :
            /\ i.type = "document" /\ x.key = i.key
            /\ x = IF Key(i) \in Keys(OfType(rows, "document")) THEN i
                   ELSE [i EXCEPT !.val = Stripped[i.val]]
      BY RecreatedAre DEF Sound
    <2>2. PICK j \in items :
            /\ j.type = "document" /\ y.key = j.key
            /\ y = IF Key(j) \in Keys(OfType(rows, "document")) THEN j
                   ELSE [j EXCEPT !.val = Stripped[j.val]]
      BY RecreatedAre DEF Sound
    <2>3. i = j
      BY <2>1, <2>2 DEF Sound, OneRowEach
    <2> QED  BY <2>1, <2>2, <2>3
  <1>4. HasProtected(made)
    <2> SUFFICES ASSUME NEW key \in Protected PROVE \E row \in made : row.key = key
      BY <1>1 DEF HasProtected
    <2>1. PICK item \in items : item.type = "document" /\ item.key = key
      BY DEF Sound, HasProtected
    <2>2. PICK row : row = IF Key(item) \in Keys(OfType(rows, "document")) THEN item
                           ELSE [item EXCEPT !.val = Stripped[item.val]]
      OBVIOUS
    <2>3. row \in made
      BY <2>1, <2>2 DEF Recreated, OfType
    <2>4. item = [type |-> item.type, key |-> item.key, val |-> item.val]
      BY DEF Sound, Typed
    <2>5. row.key = key
      BY <2>1, <2>2, <2>4
    <2> QED  BY <2>3, <2>5
  <1> QED  BY <1>1, <1>2, <1>3, <1>4 DEF Sound

LEMMA RestoredIsSound ==
  ASSUME NEW rows, NEW items, Typed(rows), Sound(items)
  PROVE  Sound(Restored(rows, items, 2))
  <1> DEFINE made == Recreated(rows, items)
             all == Restored(rows, items, 2)
  <1>1. Sound(made) /\ \A row \in made : row.type = "document"
    BY RecreatedIsSound
  <1>2. Before(2) = {"document"}
    <2>1. Before(1) = {} /\ Before(1 + 1) = Before(1) \cup {Tables[1]}
      BY BeforeAre
    <2> QED  BY <2>1, TablesAre
  <1>3. all = {row \in rows : row.type # "document"} \cup made
    BY <1>2 DEF Restored
  <1> HIDE DEF made, all
  <1>4. Typed(all)
    BY <1>1, <1>3 DEF Sound, Typed
  <1>5. OfType(all, "document") = OfType(made, "document")
    BY <1>3 DEF OfType
  <1>6. Sound(all)
    BY <1>1, <1>4, <1>5, SoundByDocuments
  <1> QED  BY <1>6 DEF all

(* One document after the other: what the request sees of it changes, and
   what it is to see in the end comes about. *)
LEMMA WrittenIsSound ==
  ASSUME NEW rows, NEW t, NEW u, NEW row, Sound(Seen(rows, t)), IsDocument(row),
         u.dels = t.dels \cup {Key(row)},
         u.ins = {x \in t.ins : Key(x) # Key(row)} \cup {row}
  PROVE  /\ Sound(Seen(rows, u))
         /\ Seen(rows, u) = {x \in Seen(rows, t) : Key(x) # Key(row)} \cup {row}
         /\ Touched(u) \subseteq Touched(t) \cup {Key(row)}
  <1> DEFINE seen == Seen(rows, t)
             new == {x \in seen : Key(x) # Key(row)} \cup {row}
  <1>1. Seen(rows, u) = new
    BY DEF Seen
  <1>2. Typed(new)
    BY TablesAre DEF Sound, Typed, IsDocument
  <1>3. OneRowEach(new)
    BY KeysAre DEF Sound, OneRowEach, IsDocument
  <1>4. HasProtected(new)
    <2> SUFFICES ASSUME NEW key \in Protected
                 PROVE  \E x \in new : x.type = "document" /\ x.key = key
      BY DEF HasProtected
    <2>1. PICK x \in seen : x.type = "document" /\ x.key = key
      BY DEF Sound, HasProtected
    <2>2. CASE Key(x) = Key(row)
      BY <2>1, <2>2, KeysAre
    <2>3. CASE Key(x) # Key(row)
      BY <2>1, <2>3
    <2> QED  BY <2>2, <2>3
  <1>5. Touched(u) \subseteq Touched(t) \cup {Key(row)}
    BY DEF Touched, Keys
  <1> QED  BY <1>1, <1>2, <1>3, <1>4, <1>5 DEF Sound

LEMMA DeletedIsSound ==
  ASSUME NEW rows, NEW t, NEW u, NEW key, Sound(Seen(rows, t)), key[2] \notin Protected,
         u.dels = t.dels \cup {key}, u.ins = t.ins
  PROVE  /\ Sound(Seen(rows, u))
         /\ Touched(u) \subseteq Touched(t) \cup {key}
  <1>1. Seen(rows, u) \subseteq Seen(rows, t)
    BY DEF Seen
  <1>2. Typed(Seen(rows, u)) /\ OneRowEach(Seen(rows, u))
    BY <1>1 DEF Sound, Typed, OneRowEach
  <1>3. \A x \in Seen(rows, t) : Key(x) # key => x \in Seen(rows, u)
    BY DEF Seen
  <1>4. HasProtected(Seen(rows, u))
    <2> SUFFICES ASSUME NEW k \in Protected
                 PROVE  \E x \in Seen(rows, u) : x.type = "document" /\ x.key = k
      BY DEF HasProtected
    <2>1. PICK x \in Seen(rows, t) : x.type = "document" /\ x.key = k
      BY DEF Sound, HasProtected
    <2>2. Key(x) # key
      BY <2>1 DEF Key
    <2> QED  BY <1>3, <2>1, <2>2
  <1>5. Touched(u) \subseteq Touched(t) \cup {key}
    BY DEF Touched, Keys
  <1> QED  BY <1>2, <1>4, <1>5 DEF Sound

(* Before the first document all is as it was... *)
LEMMA HalfAtFirst ==
  ASSUME NEW rows, NEW items, NEW keys, Sound(items),
         \A row \in rows : row.type = "document" => Key(row) \in keys,
         Keys(OfType(items, "document")) \subseteq keys
  PROVE  Half(rows, items, keys) = rows
  <1>1. ASSUME NEW row \in Recreated(rows, items) PROVE Key(row) \in keys
    <2>1. PICK item \in items : item.type = "document" /\ row.type = "document" /\ row.key = item.key
      BY RecreatedAre DEF Sound
    <2>2. Key(row) = Key(item) /\ Key(item) \in Keys(OfType(items, "document"))
      BY <2>1, KeysAre DEF Keys, OfType
    <2> QED  BY <2>2
  <1> QED  BY <1>1 DEF Half

(* ...and after the last one all documents are those of the snapshot. *)
LEMMA HalfAtLast ==
  ASSUME NEW rows, NEW items, Sound(items)
  PROVE  Half(rows, items, {}) = Restored(rows, items, 2)
  <1>1. Before(2) = {"document"}
    <2>1. Before(1) = {} /\ Before(1 + 1) = Before(1) \cup {Tables[1]}
      BY BeforeAre
    <2> QED  BY <2>1, TablesAre
  <1> QED  BY <1>1 DEF Half, Restored

(* A document that is no longer wanted goes... *)
LEMMA HalfDeleted ==
  ASSUME NEW rows, NEW items, NEW keys, NEW key, Sound(items),
         key \notin Keys(OfType(items, "document")), key[1] = "document"
  PROVE  Half(rows, items, keys \ {key}) = {row \in Half(rows, items, keys) : Key(row) # key}
  <1>1. ASSUME NEW row \in Recreated(rows, items) PROVE Key(row) # key
    <2>1. PICK item \in items : item.type = "document" /\ row.type = "document" /\ row.key = item.key
      BY RecreatedAre DEF Sound
    <2>2. Key(row) = Key(item) /\ Key(item) \in Keys(OfType(items, "document"))
      BY <2>1, KeysAre DEF Keys, OfType
    <2> QED  BY <2>2
  <1>2. \A row : row.type # "document" => Key(row) # key
    BY KeysAre
  <1> QED  BY <1>1, <1>2 DEF Half

(* ...and one that is wanted takes the place of what was there. *)
LEMMA HalfWritten ==
  ASSUME NEW rows, NEW items, NEW keys, NEW now \in Recreated(rows, items), Sound(items)
  PROVE  Half(rows, items, keys \ {Key(now)})
           = {row \in Half(rows, items, keys) : Key(row) # Key(now)} \cup {now}
  <1>1. \A row \in Recreated(rows, items) : row.type = "document" /\ (Key(row) = Key(now) => row = now)
    BY RecreatedIsSound, KeysAre DEF Sound, OneRowEach
  <1>2. \A row : row.type # "document" => Key(row) # Key(now)
    BY <1>1, KeysAre
  <1> QED  BY <1>1, <1>2 DEF Half

(* A document that is as the snapshot has it need not be written. *)
LEMMA HalfUnchanged ==
  ASSUME NEW rows, NEW items, NEW keys, NEW now \in Recreated(rows, items), Sound(items), Sound(rows),
         Key(now) \in keys, now \in rows
  PROVE  Half(rows, items, keys \ {Key(now)}) = Half(rows, items, keys)
  <1>1. now.type = "document"
    BY RecreatedIsSound
  <1>2. \A row \in Half(rows, items, keys) : Key(row) = Key(now) => row = now
    <2>1. \A row \in rows : Key(row) = Key(now) => row = now
      BY <1>1, KeysAre DEF Sound, OneRowEach
    <2> QED  BY <2>1 DEF Half
  <1>3. now \in Half(rows, items, keys)
    BY DEF Half
  <1> QED  BY <1>2, <1>3, HalfWritten

-----------------------------------------------------------------------------
(* Replacing the rows of one of the other tables *)
LEMMA FlushedDocuments ==
  ASSUME NEW rows, NEW items, NEW t, NEW u, NEW n \in 2..5,
         Sound(Seen(rows, t)), Sound(items),
         \A row \in t.found : row.type = Tables[n],
         u.dels = t.dels \cup Keys(t.found), u.ins = t.ins \cup OfType(items, Tables[n])
  PROVE  Sound(Seen(rows, u)) /\ Touched(u) = Touched(t)
  <1>1. Tables[n] # "document"
    BY TablesAre
  <1>2. \A key \in Keys(t.found) : key[1] = Tables[n]
    BY KeysAre DEF Keys
  <1>3. \A row \in OfType(items, Tables[n]) : row.type = Tables[n] /\ row \in items
    BY DEF OfType
  <1>4. Typed(Seen(rows, u))
    <2>1. \A row \in Seen(rows, u) : row \in Seen(rows, t) \/ row \in items
      BY <1>3 DEF Seen
    <2> QED  BY <2>1 DEF Sound, Typed
  <1>5. OfType(Seen(rows, u), "document") = OfType(Seen(rows, t), "document")
    <2>1. \A row : row.type = "document" => Key(row) \notin Keys(t.found)
      BY <1>1, <1>2, KeysAre
    <2>2. \A row : row.type = "document" => row \notin OfType(items, Tables[n])
      BY <1>1, <1>3
    <2> QED  BY <2>1, <2>2 DEF OfType, Seen
  <1>6. Touched(u) = Touched(t)
    <2>1. Keys(u.ins) = Keys(t.ins) \cup Keys(OfType(items, Tables[n]))
      BY DEF Keys
    <2>2. \A key \in Keys(OfType(items, Tables[n])) : key[1] = Tables[n]
      BY <1>3, KeysAre DEF Keys
    <2> QED  BY <1>1, <1>2, <2>1, <2>2 DEF Touched
  <1> QED  BY <1>4, <1>5, <1>6, SoundByDocuments

LEMMA FlushedTable ==
  ASSUME NEW rows, NEW items, NEW t, NEW u, NEW n \in 2..5, Sound(items),
         \A row \in t.ins : row.type \in Before(n),
         t.found = OfType(rows, Tables[n]), Seen(rows, t) = Restored(rows, items, n),
         u.dels = t.dels \cup Keys(t.found), u.ins = t.ins \cup OfType(items, Tables[n])
  PROVE  Seen(rows, u) = Restored(rows, items, n + 1)
  <1> DEFINE wanted == OfType(items, Tables[n])
  <1>1. /\ Tables[n] # "document" /\ Tables[n] \notin Before(n)
        /\ Before(n + 1) = Before(n) \cup {Tables[n]}
    BY TablesAre, BeforeAre
  <1>2. \A row \in rows : Key(row) \in Keys(t.found) <=> row.type = Tables[n]
    <2>1. \A key \in Keys(t.found) : key[1] = Tables[n]
      BY KeysAre DEF Keys, OfType
    <2>2. \A row \in rows : row.type = Tables[n] => Key(row) \in Keys(t.found)
      BY DEF Keys, OfType
    <2> QED  BY <2>1, <2>2, KeysAre
  <1>3. \A row \in t.ins : row.type # Tables[n]
    BY <1>1
  <1>4. Seen(rows, u) = {row \in Seen(rows, t) : row.type # Tables[n]} \cup wanted
    BY <1>2, <1>3 DEF Seen
  <1>5. \A row \in Recreated(rows, items) : row.type # Tables[n]
    BY <1>1, RecreatedIsSound
  <1>6. Restored(rows, items, n + 1)
          = {row \in Restored(rows, items, n) : row.type # Tables[n]} \cup wanted
    BY <1>1, <1>5 DEF Restored, OfType
  <1> QED  BY <1>4, <1>6

(* Copying one table after the other *)
LEMMA CopiedTable ==
  ASSUME NEW seen, NEW copy, NEW n \in 1..5, Sound(seen),
         IF n = 1 THEN copy = {} ELSE Sound(copy)
  PROVE  /\ Sound(copy \cup OfType(seen, Tables[n]))
         /\ copy = UpTo(seen, n) => copy \cup OfType(seen, Tables[n]) = UpTo(seen, n + 1)
  <1> DEFINE both == copy \cup OfType(seen, Tables[n])
  <1>1. Typed(both)
    BY DEF Sound, Typed, OfType
  <1>2. Sound(both)
    <2>1. CASE n = 1
      <3>1. OfType(both, "document") = OfType(seen, "document")
        BY <2>1, TablesAre DEF OfType
      <3> QED  BY <1>1, <3>1, SoundByDocuments
    <2>2. CASE n # 1
      <3>1. Tables[n] # "document"
        BY <2>2, TablesAre
      <3>2. OfType(both, "document") = OfType(copy, "document")
        BY <3>1 DEF OfType
      <3> QED  BY <1>1, <2>2, <3>2, SoundByDocuments
    <2> QED  BY <2>1, <2>2
  <1>3. copy = UpTo(seen, n) => both = UpTo(seen, n + 1)
    BY BeforeAre DEF OfType, UpTo
  <1> QED  BY <1>2, <1>3

LEMMA AllAreCopied ==
  ASSUME NEW seen, Sound(seen)
  PROVE  UpTo(seen, 6) = seen
  BY BeforeAre DEF Sound, Typed, UpTo

-----------------------------------------------------------------------------
(* The target of a restore *)
LEMMA TargetIs ==
  ASSUME SnapshotsInv, NEW t, \E s \in snapshots : s.id = t.target
  PROVE  Sound(Items(snapshots, t))
  <1>1. (CHOOSE s \in snapshots : s.id = t.target) \in snapshots
    OBVIOUS
  <1> QED  BY <1>1 DEF Items, SnapshotsInv, SnapshotsOK

LEMMA ItemsAreTargets ==
  ASSUME NEW r
  PROVE  Snapshot(req[r].target).items = Items(snapshots, req[r])
  BY DEF Snapshot, Items

LEMMA RequestIs ==
  ASSUME SnapshotsInv, NEW r \in Requests
  PROVE  /\ RequestOK(ws, snapshots, req[r]) /\ IsRequest(req[r]) /\ Proceeds(req[r])
         /\ req[r].target # NoRequest => /\ \E s \in snapshots : s.id = req[r].target
                                         /\ Sound(Items(snapshots, req[r]))
         /\ Sound(Seen(ws, req[r])) /\ View(r) = Seen(ws, req[r])
         /\ Sound(ws)
         /\ req[r].calm => Undisturbed(ws, Items(snapshots, req[r]), req[r])
  BY TargetIs DEF SnapshotsInv, RequestOK, View, Seen

(* A statement of one request, which commits nothing *)
LEMMA OwnStepKeepsInv ==
  ASSUME SnapshotsInv, NEW r \in Requests, NEW t, req' = [req EXCEPT ![r] = t],
         UNCHANGED <<ws, snapshots>>, req[r].at # "done", RequestOK(ws, snapshots, t),
         \A q \in Requests \ {r} : Touched(t) \cap Touched(req[q]) = {}
  PROVE  SnapshotsInv'
  <1>1. \A q \in Requests : req'[q] = IF q = r THEN t ELSE req[q]
    BY DEF SnapshotsInv
  <1>2. DOMAIN req' = Requests /\ req' = [q \in Requests |-> req'[q]]
    BY <1>1 DEF SnapshotsInv
  <1>3. \A q \in Requests : RequestOK(ws, snapshots, req'[q])
    BY <1>1 DEF SnapshotsInv
  <1>4. SnapshotsOK'
    BY <1>1 DEF SnapshotsInv, SnapshotsOK
  <1>5. DocumentsApart'
    <2>1. ASSUME NEW p \in Requests, NEW q \in Requests, p # q
          PROVE  Touched(req'[p]) \cap Touched(req'[q]) = {}
      <3>1. Touched(req[p]) \cap Touched(req[q]) = {}
        BY <2>1 DEF SnapshotsInv, DocumentsApart
      <3> QED  BY <1>1, <2>1, <3>1
    <2> QED  BY <2>1 DEF DocumentsApart, Touched, Keys, Key
  <1>6. Sound(ws)'
    BY DEF SnapshotsInv
  <1>7. \A q \in Requests : RequestOK(ws, snapshots, req[q])'
    BY <1>3
  <1> QED  BY <1>2, <1>4, <1>5, <1>6, <1>7 DEF SnapshotsInv

LEMMA BeginKeepsInv ==
  ASSUME SnapshotsInv, NEW r \in Requests, NEW target, NEW at, Begin(r, target, at),
         \/ at = "read" /\ target = NoRequest
         \/ at = "documents" /\ target # NoRequest /\ \E s \in snapshots : s.id = target
  PROVE  SnapshotsInv'
  <1>1. PICK since : since = begun + 1
    OBVIOUS
  <1>2. PICK t : t = [req[r] EXCEPT !.at = at, !.since = since, !.target = target]
    OBVIOUS
  <1>3. req[r].at = "idle" /\ IsRequest(req[r]) /\ Proceeds(req[r]) /\ Sound(ws)
    BY RequestIs DEF Begin
  <1>4. req[r].dels = {} /\ req[r].ins = {} /\ req[r].copy = {} /\ req[r].type = 1
    BY <1>3 DEF Proceeds
  <1>5. /\ IsRequest(t) /\ t.at = at /\ t.target = target
        /\ t.dels = {} /\ t.ins = {} /\ t.copy = {} /\ t.type = 1
    BY <1>2, <1>3, <1>4 DEF IsRequest
  <1>6. req' = [req EXCEPT ![r] = t] /\ UNCHANGED <<ws, snapshots>>
    BY <1>1, <1>2 DEF Begin, SnapshotsInv
  <1>7. Seen(ws, t) = ws /\ Touched(t) = {}
    BY <1>5 DEF Seen, Touched, Keys
  <1>8. Proceeds(t)
    BY <1>5 DEF Proceeds, Points, AtDocuments
  <1>9. Undisturbed(ws, Items(snapshots, t), t)
    BY <1>5, BeforeAre DEF Undisturbed, AtDocuments, UpTo
  <1>10. RequestOK(ws, snapshots, t)
    BY <1>3, <1>5, <1>7, <1>8, <1>9 DEF RequestOK
  <1> QED  BY <1>3, <1>6, <1>7, <1>10, OwnStepKeepsInv

(* A request that is over has no rows of its own. *)
LEMMA OverIsRight ==
  ASSUME NEW rows, NEW snaps, NEW t, IsRequest(t), t.at \in {"done", "failed"},
         t.dels = {}, t.ins = {}, t.target = NoRequest, Sound(rows)
  PROVE  RequestOK(rows, snaps, t) /\ Touched(t) = {}
  <1>1. Seen(rows, t) = rows
    BY DEF Seen
  <1>2. Proceeds(t) /\ Undisturbed(rows, Items(snaps, t), t)
    BY DEF Proceeds, Points, AtDocuments, Undisturbed
  <1>3. Touched(t) = {}
    BY DEF Touched, Keys
  <1> QED  BY <1>1, <1>2, <1>3 DEF RequestOK

(* An exception or a deadlock leaves nothing of a request. *)
LEMMA RollBackKeepsInv ==
  ASSUME SnapshotsInv, NEW r \in Requests, NEW calm \in BOOLEAN, RollBack(r, calm),
         req[r].at # "done"
  PROVE  SnapshotsInv'
  <1>1. PICK t : t = [Unstarted EXCEPT !.at = "failed", !.calm = calm]
    OBVIOUS
  <1>2. /\ IsRequest(t) /\ t.at = "failed" /\ t.dels = {} /\ t.ins = {} /\ t.target = NoRequest
    BY <1>1 DEF IsRequest, Unstarted
  <1>3. req' = [req EXCEPT ![r] = t] /\ UNCHANGED <<ws, snapshots>>
    BY <1>1 DEF RollBack
  <1>4. Sound(ws)
    BY DEF SnapshotsInv
  <1>5. RequestOK(ws, snapshots, t) /\ Touched(t) = {}
    BY <1>2, <1>4, OverIsRight
  <1> QED  BY <1>3, <1>5, OwnStepKeepsInv

LEMMA FailuresKeepInv ==
  ASSUME SnapshotsInv, NEW r \in Requests,
         HeadsFail(r) \/ WriteFails(r) \/ FlushFails(r) \/ DeadlockVictim(r)
  PROVE  SnapshotsInv'
  <1>1. req[r].calm \in BOOLEAN
    BY RequestIs DEF IsRequest
  <1>2. CASE DeadlockVictim(r)
    <2>1. Writes(r) # {}
      BY <1>2 DEF DeadlockVictim, Waits
    <2>2. req[r].at # "done"
      BY <2>1, Zenon DEF Writes
    <2> QED  BY <1>2, <2>2, RollBackKeepsInv DEF DeadlockVictim
  <1>3. CASE ~DeadlockVictim(r)
    <2>1. RollBack(r, req[r].calm) /\ req[r].at # "done"
      BY <1>3 DEF HeadsFail, WriteFails, FlushFails
    <2> QED  BY <1>1, <2>1, RollBackKeepsInv
  <1> QED  BY <1>2, <1>3

LEMMA ListDocumentsKeepsInv ==
  ASSUME SnapshotsInv, NEW r \in Requests, ListDocuments(r)
  PROVE  SnapshotsInv'
  <1>1. PICK items, found, wanted, doomed :
          /\ items = Items(snapshots, req[r]) /\ found = OfType(ws, "document")
          /\ wanted = OfType(items, "document")
          /\ doomed = {d \in found : Key(d) \notin Keys(wanted) /\ d.key \notin Protected}
    OBVIOUS
  <1>2. PICK t : t = [req[r] EXCEPT !.at = "heads", !.found = found, !.todo = wanted,
                                    !.doomed = doomed]
    OBVIOUS
  <1>3. /\ req[r].at = "documents" /\ IsRequest(req[r]) /\ Proceeds(req[r])
        /\ req[r].target # NoRequest /\ Sound(ws) /\ Sound(items) /\ req[r].copy = {}
        /\ req[r].dels = {} /\ req[r].ins = {}
        /\ \E s \in snapshots : s.id = req[r].target
    BY <1>1, RequestIs DEF ListDocuments, Proceeds, AtDocuments
  <1>4. /\ IsRequest(t) /\ t.at = "heads" /\ t.dels = {} /\ t.ins = {} /\ t.copy = {}
        /\ t.found = found /\ t.todo = wanted /\ t.doomed = doomed
        /\ t.target = req[r].target
    BY <1>2, <1>3 DEF IsRequest
  <1>5. req' = [req EXCEPT ![r] = t] /\ UNCHANGED <<ws, snapshots>>
    <2>1. Wanted(r, "document") = wanted
      BY <1>1, ItemsAreTargets DEF Wanted
    <2> QED  BY <1>1, <1>2, <2>1 DEF ListDocuments
  <1>6. Seen(ws, t) = ws /\ Touched(t) = {} /\ Items(snapshots, t) = items
    BY <1>1, <1>4 DEF Seen, Touched, Keys, Items
  <1>7. Proceeds(t)
    <2>1. \A row \in doomed \cup wanted : IsDocument(row)
      BY <1>1, <1>3 DEF OfType, Sound, Typed, IsDocument
    <2>2. \A row \in doomed : row.key \notin Protected
      BY <1>1
    <2> QED  BY <1>3, <1>4, <2>1, <2>2 DEF Proceeds, Points, AtDocuments, Writing
  <1>8. Documents(ws, items, t)
    <2>1. Pending(t) = Keys(doomed \cup wanted)
      BY <1>4 DEF Pending, Writing
    <2>2. ASSUME NEW row \in ws, row.type = "document" PROVE Key(row) \in Keys(doomed \cup wanted)
      <3>1. CASE row.key \in Protected
        <4>1. PICK item \in items : item.type = "document" /\ item.key = row.key
          BY <1>3, <3>1 DEF Sound, HasProtected
        <4>2. item \in wanted /\ Key(item) = Key(row)
          BY <1>1, <2>2, <4>1, KeysAre DEF OfType
        <4> QED  BY <4>2 DEF Keys
      <3>2. CASE row.key \notin Protected
        <4>1. row \in found
          BY <1>1, <2>2 DEF OfType
        <4>2. row \in doomed \/ Key(row) \in Keys(wanted)
          BY <1>1, <3>2, <4>1
        <4> QED  BY <4>2 DEF Keys
      <3> QED  BY <3>1, <3>2
    <2>3. Keys(wanted) \subseteq Keys(doomed \cup wanted)
      BY DEF Keys
    <2>4. Half(ws, items, Pending(t)) = ws
      BY <1>1, <1>3, <2>1, <2>2, <2>3, HalfAtFirst
    <2> QED  BY <1>1, <1>4, <1>6, <2>4 DEF Documents, Writing
  <1>9. Undisturbed(ws, items, t)
    BY <1>4, <1>8 DEF Undisturbed, AtDocuments
  <1>10. RequestOK(ws, snapshots, t)
    BY <1>3, <1>4, <1>6, <1>7, <1>9 DEF RequestOK
  <1> QED  BY <1>3, <1>5, <1>6, <1>10, OwnStepKeepsInv

(* A step among the documents *)
LEMMA AmongDocuments ==
  ASSUME SnapshotsInv, NEW r \in Requests, req[r].at \in AtDocuments \ {"documents"}
  PROVE  /\ IsRequest(req[r]) /\ Proceeds(req[r]) /\ Sound(ws) /\ Sound(Seen(ws, req[r]))
         /\ Sound(Items(snapshots, req[r])) /\ View(r) = Seen(ws, req[r])
         /\ req[r].target # NoRequest /\ \E s \in snapshots : s.id = req[r].target
         /\ req[r].copy = {} /\ req[r].at # "done"
         /\ req[r].calm => Documents(ws, Items(snapshots, req[r]), req[r])
  BY RequestIs DEF Proceeds, AtDocuments, Undisturbed

LEMMA RequestIsTyped ==
  ASSUME SnapshotsInv, NEW r \in Requests
  PROVE  IsRequest(req[r])
  BY RequestIs

LEMMA AmongDocumentsStays ==
  ASSUME SnapshotsInv, NEW r \in Requests, NEW t, req' = [req EXCEPT ![r] = t],
         UNCHANGED <<ws, snapshots>>, req[r].at \in AtDocuments \ {"documents"},
         IsRequest(t), t.at \in AtDocuments \ {"documents"}, t.target = req[r].target,
         Proceeds(t), Sound(Seen(ws, t)),
         t.calm => Documents(ws, Items(snapshots, req[r]), t),
         \A q \in Requests \ {r} : Touched(t) \cap Touched(req[q]) = {}
  PROVE  SnapshotsInv'
  <1>1. Items(snapshots, t) = Items(snapshots, req[r])
    BY DEF Items
  <1>2. t.calm => Undisturbed(ws, Items(snapshots, t), t)
    BY <1>1 DEF Undisturbed, AtDocuments
  <1>3. RequestOK(ws, snapshots, t) /\ req[r].at # "done"
    BY <1>2, AmongDocuments DEF RequestOK
  <1> QED  BY <1>3, OwnStepKeepsInv

LEMMA ReadHeadsKeepsInv ==
  ASSUME SnapshotsInv, NEW r \in Requests, ReadHeads(r)
  PROVE  SnapshotsInv'
  <1>1. PICK t : t = [req[r] EXCEPT !.at = "next"]
    OBVIOUS
  <1>2. /\ req[r].at = "heads" /\ req[r].at \in AtDocuments \ {"documents"}
        /\ req' = [req EXCEPT ![r] = t] /\ UNCHANGED <<ws, snapshots>>
    BY <1>1 DEF ReadHeads, AtDocuments
  <1>3. /\ IsRequest(t) /\ t.at = "next" /\ t.found = req[r].found /\ t.dels = req[r].dels
        /\ t.ins = req[r].ins /\ t.doomed = req[r].doomed /\ t.todo = req[r].todo
        /\ t.target = req[r].target /\ t.copy = req[r].copy /\ t.calm = req[r].calm
    BY <1>1, <1>2, RequestIsTyped DEF IsRequest
  <1>4. Seen(ws, t) = Seen(ws, req[r]) /\ Touched(t) = Touched(req[r]) /\ Pending(t) = Pending(req[r])
    BY <1>2, <1>3 DEF Seen, Touched, Pending, Writing
  <1>5. Proceeds(t)
    BY <1>2, <1>3, AmongDocuments DEF Proceeds, Points, AtDocuments, Writing
  <1>6. t.calm => Documents(ws, Items(snapshots, req[r]), t)
    BY <1>2, <1>3, <1>4, AmongDocuments DEF Documents, Writing
  <1>7. t.at \in AtDocuments \ {"documents"} /\ Sound(Seen(ws, t))
    BY <1>2, <1>3, <1>4, AmongDocuments DEF AtDocuments
  <1>8. \A q \in Requests \ {r} : Touched(t) \cap Touched(req[q]) = {}
    BY <1>4 DEF SnapshotsInv, DocumentsApart
  <1> QED  BY <1>2, <1>3, <1>5, <1>6, <1>7, <1>8, AmongDocumentsStays

(* Looking for the next document *)
LEMMA LookedKeepsInv ==
  ASSUME SnapshotsInv, NEW r \in Requests, NEW t, IsRequest(t), req' = [req EXCEPT ![r] = t],
         UNCHANGED <<ws, snapshots>>, req[r].at = "next", t.at \in Writing \cup {"next"},
         t.dels = req[r].dels, t.ins = req[r].ins, t.found = req[r].found, t.copy = req[r].copy,
         t.target = req[r].target, t.calm = req[r].calm,
         t.doomed \subseteq req[r].doomed, t.todo \subseteq req[r].todo,
         t.at \in Writing => IsDocument(t.now),
         t.at = "delete" => t.now \in req[r].doomed,
         t.at \in {"update", "insert"} => t.doomed = {},
         t.calm => /\ t.at \in Writing /\ Keys(t.doomed \cup t.todo) \cup {Key(t.now)} = Pending(req[r])
                   /\ Key(t.now) \notin Keys(t.doomed \cup t.todo)
                   /\ t.at # "delete" => t.now \in Recreated(ws, Items(snapshots, req[r]))
  PROVE  SnapshotsInv'
  <1>1. req[r].at \in AtDocuments \ {"documents"} /\ t.at \in AtDocuments \ {"documents"}
    BY DEF AtDocuments, Writing
  <1>2. Seen(ws, t) = Seen(ws, req[r]) /\ Touched(t) = Touched(req[r])
    BY DEF Seen, Touched
  <1>3. Proceeds(t)
    BY <1>1, AmongDocuments DEF Proceeds, Points, AtDocuments, Writing
  <1>4. ASSUME t.calm PROVE Documents(ws, Items(snapshots, req[r]), t)
    <2>1. Documents(ws, Items(snapshots, req[r]), req[r])
      BY <1>1, <1>4, AmongDocuments
    <2>2. Pending(t) = Pending(req[r])
      BY <1>4 DEF Pending
    <2> QED  BY <1>2, <1>4, <2>1, <2>2 DEF Documents, Writing
  <1>5. Sound(Seen(ws, t)) /\ \A q \in Requests \ {r} : Touched(t) \cap Touched(req[q]) = {}
    BY <1>1, <1>2, AmongDocuments DEF SnapshotsInv, DocumentsApart
  <1> QED  BY <1>1, <1>3, <1>4, <1>5, AmongDocumentsStays

LEMMA LookToDeleteKeepsInv ==
  ASSUME SnapshotsInv, NEW r \in Requests, LookToDelete(r)
  PROVE  SnapshotsInv'
  <1>1. req[r].at = "next" /\ req[r].at \in AtDocuments \ {"documents"}
    BY DEF LookToDelete, AtDocuments
  <1>2. CASE RollBack(r, req[r].calm)
    <2>1. req[r].calm \in BOOLEAN
      BY RequestIs DEF IsRequest
    <2> QED  BY <1>1, <1>2, <2>1, RollBackKeepsInv
  <1>3. CASE ~ RollBack(r, req[r].calm)
    <2>1. PICK d \in req[r].doomed :
            /\ req' = [req EXCEPT ![r].at = "delete", ![r].now = d, ![r].doomed = @ \ {d}]
            /\ UNCHANGED <<ws, snapshots, begun, edits>>
      BY <1>3 DEF LookToDelete
    <2>2. PICK doomed : doomed = req[r].doomed \ {d}
      OBVIOUS
    <2>3. PICK t : t = [req[r] EXCEPT !.at = "delete", !.now = d, !.doomed = doomed]
      OBVIOUS
    <2>4. /\ IsRequest(t) /\ t.at = "delete" /\ t.now = d /\ t.doomed = doomed
          /\ t.todo = req[r].todo /\ t.dels = req[r].dels /\ t.ins = req[r].ins
          /\ t.found = req[r].found /\ t.copy = req[r].copy
          /\ t.target = req[r].target /\ t.calm = req[r].calm
      BY <1>1, <2>3, RequestIsTyped DEF IsRequest
    <2>5. req' = [req EXCEPT ![r] = t]
      BY <2>1, <2>2, <2>3
    <2>6. IsDocument(d)
      BY <1>1, <2>1, AmongDocuments DEF Proceeds
    <2>7. ASSUME t.calm
          PROVE  /\ Keys(doomed \cup t.todo) \cup {Key(d)} = Pending(req[r])
                 /\ Key(d) \notin Keys(doomed \cup t.todo)
      <3>1. Documents(ws, Items(snapshots, req[r]), req[r]) /\ Sound(ws)
        BY <1>1, <2>4, <2>7, AmongDocuments
      <3>2. Pending(req[r]) = Keys(req[r].doomed \cup req[r].todo)
        BY <1>1 DEF Pending, Writing
      <3>3. \A x \in doomed : Key(x) # Key(d)
        BY <2>2, <3>1, KeysAre DEF Documents, OfType, Sound, OneRowEach
      <3>4. \A x \in req[r].todo : Key(x) # Key(d)
        <4>1. \A x \in req[r].todo : Key(x) \in Keys(OfType(Items(snapshots, req[r]), "document"))
          BY <3>1 DEF Documents, Keys
        <4> QED  BY <2>1, <3>1, <4>1 DEF Documents
      <3> QED  BY <2>2, <2>4, <3>2, <3>3, <3>4 DEF Keys
    <2>8. doomed \subseteq req[r].doomed /\ t.at \in Writing
      BY <2>2, <2>4 DEF Writing
    <2> QED  BY <1>1, <2>1, <2>4, <2>5, <2>6, <2>7, <2>8, LookedKeepsInv
  <1> QED  BY <1>2, <1>3

LEMMA LookIs ==
  ASSUME SnapshotsInv, NEW r \in Requests, NEW at, NEW row, NEW now, Look(r, at, row, now)
  PROVE  /\ req[r].at = "next" /\ req[r].at \in AtDocuments \ {"documents"}
         /\ req[r].doomed = {} /\ row \in req[r].todo /\ IsDocument(row)
         /\ UNCHANGED <<ws, snapshots>>
         /\ \E t : /\ req' = [req EXCEPT ![r] = t] /\ IsRequest(t) /\ t.at = at /\ t.now = now
                   /\ t.doomed = {} /\ t.todo = req[r].todo \ {row} /\ t.dels = req[r].dels
                   /\ t.ins = req[r].ins /\ t.found = req[r].found /\ t.copy = req[r].copy
                   /\ t.target = req[r].target /\ t.calm = req[r].calm
  <1>1. /\ req[r].at = "next" /\ req[r].at \in AtDocuments \ {"documents"}
        /\ req[r].doomed = {} /\ row \in req[r].todo /\ UNCHANGED <<ws, snapshots>>
    BY DEF Look, First, AtDocuments
  <1>2. IsDocument(row)
    BY <1>1, AmongDocuments DEF Proceeds
  <1>3. PICK todo : todo = req[r].todo \ {row}
    OBVIOUS
  <1>4. PICK t : t = [req[r] EXCEPT !.at = at, !.now = now, !.todo = todo]
    OBVIOUS
  <1>5. /\ IsRequest(t) /\ t.at = at /\ t.now = now
        /\ t.doomed = {} /\ t.todo = req[r].todo \ {row} /\ t.dels = req[r].dels
        /\ t.ins = req[r].ins /\ t.found = req[r].found /\ t.copy = req[r].copy
        /\ t.target = req[r].target /\ t.calm = req[r].calm
    BY <1>1, <1>3, <1>4, RequestIsTyped DEF IsRequest
  <1>6. req' = [req EXCEPT ![r] = t]
    BY <1>3, <1>4 DEF Look
  <1>7. \E u : /\ req' = [req EXCEPT ![r] = u] /\ IsRequest(u) /\ u.at = at /\ u.now = now
              /\ u.doomed = {} /\ u.todo = req[r].todo \ {row} /\ u.dels = req[r].dels
              /\ u.ins = req[r].ins /\ u.found = req[r].found /\ u.copy = req[r].copy
              /\ u.target = req[r].target /\ u.calm = req[r].calm
    <2> WITNESS t
    <2> QED  BY <1>5, <1>6
  <1> QED  BY <1>1, <1>2, <1>7

(* For an undisturbed restore, what it looks for is where it was listed. *)
LEMMA LookFinds ==
  ASSUME SnapshotsInv, NEW r \in Requests, req[r].at = "next", req[r].calm, req[r].doomed = {},
         NEW row \in req[r].todo
  PROVE  LET items == Items(snapshots, req[r])
             todo == req[r].todo \ {row}
         IN  /\ row \in OfType(items, "document")
             /\ req[r].found = OfType(ws, "document")
             /\ Key(row) \in Keys(req[r].found) <=> Key(row) \in Keys(View(r))
             /\ Keys(todo) \cup {Key(row)} = Pending(req[r]) /\ Key(row) \notin Keys(todo)
  <1> DEFINE items == Items(snapshots, req[r])
             todo == req[r].todo \ {row}
  <1>1. req[r].at \in AtDocuments \ {"documents"}
    BY DEF AtDocuments
  <1>2. /\ Documents(ws, items, req[r]) /\ Sound(items) /\ Sound(ws)
        /\ View(r) = Half(ws, items, Pending(req[r]))
    BY <1>1, AmongDocuments DEF Documents
  <1>3. row \in OfType(items, "document") /\ req[r].found = OfType(ws, "document")
    BY <1>2 DEF Documents
  <1>4. Pending(req[r]) = Keys(req[r].todo)
    BY DEF Pending, Writing
  <1>5. Keys(todo) \cup {Key(row)} = Pending(req[r])
    BY <1>4 DEF Keys
  <1>6. \A x \in todo : Key(x) # Key(row)
    BY <1>2, <1>3, KeysAre DEF Documents, OfType, Sound, OneRowEach
  <1>7. Key(row) \in Keys(req[r].found) <=> Key(row) \in Keys(View(r))
    <2>1. Key(row) \in Pending(req[r])
      BY <1>5
    <2>2. \A x : Key(x) = Key(row) =>
                   (x \in Half(ws, items, Pending(req[r])) <=> x \in OfType(ws, "document"))
      <3>1. row.type = "document"
        BY <1>3 DEF OfType
      <3>2. \A x : Key(x) = Key(row) => x.type = "document"
        BY <3>1, KeysAre
      <3> QED  BY <2>1, <3>2 DEF Half, OfType
    <2>3. \A S : Key(row) \in Keys(S) <=> \E x \in S : Key(x) = Key(row)
      BY DEF Keys
    <2>4. Key(row) \in Keys(OfType(ws, "document"))
            <=> Key(row) \in Keys(Half(ws, items, Pending(req[r])))
      BY <2>2, <2>3
    <2> QED  BY <1>2, <1>3, <2>4
  <1>8. Key(row) \notin Keys(todo)
    BY <1>6 DEF Keys
  <1> QED  BY <1>3, <1>5, <1>7, <1>8

LEMMA LookToUpdateKeepsInv ==
  ASSUME SnapshotsInv, NEW r \in Requests, NEW row, LookToUpdate(r, row)
  PROVE  SnapshotsInv'
  <1>1. Look(r, "update", row, row) /\ Key(row) \in Keys(req[r].found)
    BY DEF LookToUpdate
  <1>2. /\ req[r].at = "next" /\ req[r].doomed = {} /\ row \in req[r].todo /\ IsDocument(row)
        /\ UNCHANGED <<ws, snapshots>>
    BY <1>1, LookIs
  <1>3. PICK t :
          /\ req' = [req EXCEPT ![r] = t] /\ IsRequest(t) /\ t.at = "update" /\ t.now = row
          /\ t.doomed = {} /\ t.todo = req[r].todo \ {row} /\ t.dels = req[r].dels
          /\ t.ins = req[r].ins /\ t.found = req[r].found /\ t.copy = req[r].copy
          /\ t.target = req[r].target /\ t.calm = req[r].calm
    BY <1>1, LookIs
  <1>4. ASSUME t.calm
        PROVE  /\ Keys(t.doomed \cup t.todo) \cup {Key(t.now)} = Pending(req[r])
               /\ Key(t.now) \notin Keys(t.doomed \cup t.todo)
               /\ t.now \in Recreated(ws, Items(snapshots, req[r]))
    <2>1. t.doomed \cup t.todo = req[r].todo \ {row}
      BY <1>3
    <2>2. /\ row \in OfType(Items(snapshots, req[r]), "document")
          /\ req[r].found = OfType(ws, "document")
          /\ Keys(req[r].todo \ {row}) \cup {Key(row)} = Pending(req[r])
          /\ Key(row) \notin Keys(req[r].todo \ {row})
      BY <1>2, <1>3, <1>4, LookFinds
    <2>3. row \in Recreated(ws, Items(snapshots, req[r]))
      BY <1>1, <2>2 DEF Recreated
    <2> QED  BY <1>3, <2>1, <2>2, <2>3
  <1> QED  BY <1>2, <1>3, <1>4, LookedKeepsInv DEF Writing

LEMMA PassOverKeepsInv ==
  ASSUME SnapshotsInv, NEW r \in Requests, NEW row, PassOver(r, row)
  PROVE  SnapshotsInv'
  <1>1. Look(r, "next", row, NoRow) /\ Key(row) \in Keys(req[r].found) \ Keys(View(r))
    BY DEF PassOver
  <1>2. /\ req[r].at = "next" /\ req[r].doomed = {} /\ row \in req[r].todo
        /\ UNCHANGED <<ws, snapshots>>
    BY <1>1, LookIs
  <1>3. PICK t :
          /\ req' = [req EXCEPT ![r] = t] /\ IsRequest(t) /\ t.at = "next"
          /\ t.doomed = {} /\ t.todo = req[r].todo \ {row} /\ t.dels = req[r].dels
          /\ t.ins = req[r].ins /\ t.found = req[r].found /\ t.copy = req[r].copy
          /\ t.target = req[r].target /\ t.calm = req[r].calm
    BY <1>1, LookIs
  <1>4. ~ req[r].calm
    BY <1>1, <1>2, LookFinds
  <1> QED  BY <1>2, <1>3, <1>4, LookedKeepsInv DEF Writing

LEMMA LookToCreateKeepsInv ==
  ASSUME SnapshotsInv, NEW r \in Requests, NEW row, LookToCreate(r, row)
  PROVE  SnapshotsInv'
  <1>1. PICK key, val :
          /\ val = Stripped[row.val]
          /\ key = row.key \/ Key(row) \in Keys(View(r))
          /\ Look(r, "insert", row, [row EXCEPT !.key = key, !.val = val])
    BY DEF LookToCreate
  <1>2. PICK now : now = [row EXCEPT !.key = key, !.val = val]
    OBVIOUS
  <1>3. /\ req[r].at = "next" /\ req[r].doomed = {} /\ row \in req[r].todo /\ IsDocument(row)
        /\ UNCHANGED <<ws, snapshots>> /\ Key(row) \notin Keys(req[r].found)
    BY <1>1, LookIs DEF LookToCreate
  <1>4. IsDocument(now)
    <2>1. now = [type |-> row.type, key |-> key, val |-> val] /\ row.type = "document"
      BY <1>2, <1>3 DEF IsDocument
    <2> QED  BY <2>1 DEF IsDocument
  <1>5. PICK t :
          /\ req' = [req EXCEPT ![r] = t] /\ IsRequest(t) /\ t.at = "insert" /\ t.now = now
          /\ t.doomed = {} /\ t.todo = req[r].todo \ {row} /\ t.dels = req[r].dels
          /\ t.ins = req[r].ins /\ t.found = req[r].found /\ t.copy = req[r].copy
          /\ t.target = req[r].target /\ t.calm = req[r].calm
    BY <1>1, <1>2, LookIs
  <1>6. ASSUME t.calm
        PROVE  /\ Keys(t.doomed \cup t.todo) \cup {Key(t.now)} = Pending(req[r])
               /\ Key(t.now) \notin Keys(t.doomed \cup t.todo)
               /\ t.now \in Recreated(ws, Items(snapshots, req[r]))
    <2>1. t.doomed \cup t.todo = req[r].todo \ {row}
      BY <1>5
    <2>2. /\ row \in OfType(Items(snapshots, req[r]), "document")
          /\ req[r].found = OfType(ws, "document")
          /\ Key(row) \in Keys(req[r].found) <=> Key(row) \in Keys(View(r))
          /\ Keys(req[r].todo \ {row}) \cup {Key(row)} = Pending(req[r])
          /\ Key(row) \notin Keys(req[r].todo \ {row})
      BY <1>3, <1>5, <1>6, LookFinds
    <2>3. key = row.key
      BY <1>1, <1>3, <2>2
    <2>4. now = [row EXCEPT !.val = val] /\ Key(now) = Key(row)
      <3>1. row = [type |-> row.type, key |-> row.key, val |-> row.val]
        BY <1>3 DEF IsDocument
      <3>2. now = [type |-> row.type, key |-> row.key, val |-> val]
        BY <1>2, <2>3, <3>1
      <3> QED  BY <3>1, <3>2, KeysAre
    <2>5. now \in Recreated(ws, Items(snapshots, req[r]))
      BY <1>1, <1>3, <2>2, <2>4 DEF Recreated
    <2> QED  BY <1>5, <2>1, <2>2, <2>4, <2>5
  <1> QED  BY <1>3, <1>4, <1>5, <1>6, LookedKeepsInv DEF Writing

(* Writing it *)
LEMMA NoLongerPending ==
  ASSUME NEW t, NEW u, u.doomed = t.doomed, u.todo = t.todo, t.at \in Writing, u.at = "next",
         Key(t.now) \notin Keys(t.doomed \cup t.todo)
  PROVE  Pending(u) = Pending(t) \ {Key(t.now)} /\ Key(t.now) \in Pending(t)
  BY DEF Pending, Writing

LEMMA DeleteDocumentKeepsInv ==
  ASSUME SnapshotsInv, NEW r \in Requests, DeleteDocument(r)
  PROVE  SnapshotsInv'
  <1>1. PICK dels, now, items :
          dels = req[r].dels \cup Writes(r) /\ now = req[r].now /\ items = Items(snapshots, req[r])
    OBVIOUS
  <1>2. PICK t : t = [req[r] EXCEPT !.at = "next", !.now = NoRow, !.dels = dels]
    OBVIOUS
  <1>3. /\ req[r].at = "delete" /\ req[r].at \in AtDocuments \ {"documents"} /\ ~Waits(r)
        /\ req' = [req EXCEPT ![r] = t] /\ UNCHANGED <<ws, snapshots>>
    BY <1>1, <1>2 DEF DeleteDocument, AtDocuments
  <1>4. /\ IsRequest(t) /\ t.at = "next" /\ t.found = req[r].found /\ t.dels = dels
        /\ t.ins = req[r].ins /\ t.doomed = req[r].doomed /\ t.todo = req[r].todo
        /\ t.target = req[r].target /\ t.copy = req[r].copy /\ t.calm = req[r].calm
    BY <1>2, <1>3, RequestIsTyped DEF IsRequest
  <1>5. IsDocument(now) /\ now.key \notin Protected /\ req[r].ins = {} /\ Key(now)[1] = "document"
    BY <1>1, <1>3, AmongDocuments, KeysAre DEF Proceeds, Writing, IsDocument
  <1>6. Writes(r) = IF Present(r) THEN {Key(now)} ELSE {}
    BY <1>1, <1>3 DEF Writes
  <1>7. Proceeds(t)
    BY <1>1, <1>3, <1>4, <1>5, <1>6, AmongDocuments DEF Proceeds, Points, AtDocuments, Writing
  <1>8. CASE Present(r)
    <2>1. t.dels = req[r].dels \cup {Key(now)} /\ Key(now)[2] \notin Protected
      BY <1>1, <1>4, <1>5, <1>6, <1>8 DEF Key
    <2>2. /\ Sound(Seen(ws, t)) /\ Touched(t) \subseteq Touched(req[r]) \cup {Key(now)}
          /\ Seen(ws, t) = {x \in Seen(ws, req[r]) : Key(x) # Key(now)}
      <3>1. PICK old, key : old = req[r] /\ key = Key(now)
        OBVIOUS
      <3>2. Sound(Seen(ws, old))
        BY <1>3, <3>1, AmongDocuments
      <3>3. t.dels = old.dels \cup {key} /\ t.ins = old.ins /\ old.ins = {} /\ key[2] \notin Protected
        BY <1>4, <1>5, <2>1, <3>1
      <3>4. Sound(Seen(ws, t)) /\ Touched(t) \subseteq Touched(old) \cup {key}
        BY <3>2, <3>3, DeletedIsSound
      <3>5. Seen(ws, t) = {x \in Seen(ws, old) : Key(x) # key}
        BY <3>3 DEF Seen
      <3> QED  BY <3>1, <3>4, <3>5
    <2>3. ASSUME NEW q \in Requests \ {r} PROVE Touched(t) \cap Touched(req[q]) = {}
      <3>1. Key(now) \notin Touched(req[q])
        BY <1>3, <1>6, <1>8 DEF Waits, Locked, Held, Touched
      <3> QED  BY <2>2, <3>1 DEF SnapshotsInv, DocumentsApart
    <2>4. ASSUME t.calm PROVE Documents(ws, items, t)
      <3>1. Documents(ws, items, req[r]) /\ Sound(items)
        BY <1>1, <1>3, <1>4, <2>4, AmongDocuments
      <3>2. Pending(t) = Pending(req[r]) \ {Key(now)}
        BY <1>1, <1>3, <1>4, <3>1, NoLongerPending DEF Documents, Writing
      <3>3. Key(now) \notin Keys(OfType(items, "document"))
        BY <1>1, <1>3, <3>1 DEF Documents
      <3>4. Seen(ws, t) = Half(ws, items, Pending(t))
        BY <1>5, <2>2, <3>1, <3>2, <3>3, HalfDeleted DEF Documents
      <3> QED  BY <1>4, <3>1, <3>4 DEF Documents, Writing
    <2>5. t.at \in AtDocuments \ {"documents"}
      BY <1>4 DEF AtDocuments
    <2> QED  BY <1>1, <1>3, <1>4, <1>7, <2>2, <2>3, <2>4, <2>5, AmongDocumentsStays
  <1>9. CASE ~ Present(r)
    <2>1. t.dels = req[r].dels
      BY <1>1, <1>4, <1>6, <1>9
    <2>2. Seen(ws, t) = Seen(ws, req[r]) /\ Touched(t) = Touched(req[r])
      BY <1>4, <2>1 DEF Seen, Touched
    <2>3. ~ t.calm
      <3> SUFFICES ASSUME t.calm PROVE FALSE
        OBVIOUS
      <3>1. Documents(ws, items, req[r]) /\ View(r) = Seen(ws, req[r])
        BY <1>1, <1>3, <1>4, AmongDocuments
      <3>2. now \in ws /\ Key(now) \in Pending(req[r])
        BY <1>1, <1>3, <3>1 DEF Documents, OfType, Pending, Writing
      <3>3. now \in View(r)
        BY <3>1, <3>2 DEF Documents, Half
      <3> QED  BY <1>1, <1>9, <3>3 DEF Present, Keys
    <2>4. t.at \in AtDocuments \ {"documents"}
      BY <1>4 DEF AtDocuments
    <2>5. Sound(Seen(ws, t)) /\ \A q \in Requests \ {r} : Touched(t) \cap Touched(req[q]) = {}
      BY <1>3, <2>2, AmongDocuments DEF SnapshotsInv, DocumentsApart
    <2> QED  BY <1>3, <1>4, <1>7, <2>3, <2>4, <2>5, AmongDocumentsStays
  <1> QED  BY <1>8, <1>9

LEMMA WriteDocumentKeepsInv ==
  ASSUME SnapshotsInv, NEW r \in Requests, WriteDocument(r)
  PROVE  SnapshotsInv'
  <1>1. PICK dels, ins, now, items :
          /\ dels = req[r].dels \cup Writes(r) /\ now = req[r].now
          /\ ins = {x \in req[r].ins : Key(x) \notin Writes(r)} \cup {x \in {now} : Key(x) \in Writes(r)}
          /\ items = Items(snapshots, req[r])
    OBVIOUS
  <1>2. PICK t : t = [req[r] EXCEPT !.at = "next", !.now = NoRow, !.dels = dels, !.ins = ins]
    OBVIOUS
  <1>3. /\ req[r].at \in {"update", "insert"} /\ req[r].at \in AtDocuments \ {"documents"} /\ ~Waits(r)
        /\ req' = [req EXCEPT ![r] = t] /\ UNCHANGED <<ws, snapshots>>
    BY <1>1, <1>2 DEF WriteDocument, AtDocuments
  <1>4. /\ IsRequest(t) /\ t.at = "next" /\ t.found = req[r].found /\ t.dels = dels
        /\ t.ins = ins /\ t.doomed = req[r].doomed /\ t.todo = req[r].todo
        /\ t.target = req[r].target /\ t.copy = req[r].copy /\ t.calm = req[r].calm
    BY <1>2, <1>3, RequestIsTyped DEF IsRequest
  <1>5. IsDocument(now) /\ req[r].doomed = {} /\ Key(now)[1] = "document"
    BY <1>1, <1>3, AmongDocuments, KeysAre DEF Proceeds, Writing, IsDocument
  <1>6. Writes(r) = {Key(now)} \/ (Writes(r) = {} /\ Unchanged(r))
    <2>1. CASE req[r].at = "update" /\ Present(r) /\ ~Unchanged(r)
      BY <1>1, <2>1 DEF Writes
    <2>2. CASE req[r].at = "update" /\ ~ (Present(r) /\ ~Unchanged(r))
      <3>1. Writes(r) = {}
        BY <2>2 DEF Writes
      <3> QED  BY <2>2, <3>1 DEF WriteDocument
    <2>3. CASE req[r].at = "insert"
      BY <1>1, <2>3 DEF Writes
    <2> QED  BY <1>3, <2>1, <2>2, <2>3
  <1>7. Proceeds(t)
    <2>1. \A row \in ins : row.type = "document"
      BY <1>1, <1>3, <1>5, AmongDocuments DEF Proceeds, IsDocument
    <2>2. \A key \in dels : key[1] = "document"
      BY <1>1, <1>3, <1>5, <1>6, AmongDocuments DEF Proceeds
    <2> QED  BY <1>3, <1>4, <1>5, <2>1, <2>2, AmongDocuments DEF Proceeds, Points, AtDocuments, Writing
  <1>8. t.at \in AtDocuments \ {"documents"}
    BY <1>4 DEF AtDocuments
  <1>9. CASE Writes(r) = {Key(now)}
    <2>1. dels = req[r].dels \cup {Key(now)} /\ ins = {x \in req[r].ins : Key(x) # Key(now)} \cup {now}
      BY <1>1, <1>9
    <2>2. /\ Sound(Seen(ws, t)) /\ Touched(t) \subseteq Touched(req[r]) \cup {Key(now)}
          /\ Seen(ws, t) = {x \in Seen(ws, req[r]) : Key(x) # Key(now)} \cup {now}
      <3>1. Sound(Seen(ws, req[r])) /\ IsDocument(now)
        BY <1>3, <1>5, AmongDocuments
      <3>2. t.dels = req[r].dels \cup {Key(now)} /\ t.ins = {x \in req[r].ins : Key(x) # Key(now)} \cup {now}
        BY <1>4, <2>1
      <3> QED  BY <3>1, <3>2, WrittenIsSound
    <2>3. ASSUME NEW q \in Requests \ {r} PROVE Touched(t) \cap Touched(req[q]) = {}
      <3>1. Key(now) \notin Touched(req[q])
        BY <1>3, <1>9 DEF Waits, Locked, Held, Touched
      <3> QED  BY <2>2, <3>1 DEF SnapshotsInv, DocumentsApart
    <2>4. ASSUME t.calm PROVE Documents(ws, items, t)
      <3>1. Documents(ws, items, req[r]) /\ Sound(items) /\ now \in Recreated(ws, items)
        BY <1>1, <1>3, <1>4, <2>4, AmongDocuments DEF Documents
      <3>2. Pending(t) = Pending(req[r]) \ {Key(now)}
        BY <1>1, <1>3, <1>4, <3>1, NoLongerPending DEF Documents, Writing
      <3>3. Seen(ws, t) = Half(ws, items, Pending(t))
        BY <2>2, <3>1, <3>2, HalfWritten DEF Documents
      <3> QED  BY <1>4, <3>1, <3>3 DEF Documents, Writing
    <2> QED  BY <1>1, <1>3, <1>4, <1>7, <1>8, <2>2, <2>3, <2>4, AmongDocumentsStays
  <1>10. CASE Writes(r) = {} /\ Unchanged(r)
    <2>1. dels = req[r].dels /\ ins = req[r].ins
      BY <1>1, <1>10
    <2>2. Seen(ws, t) = Seen(ws, req[r]) /\ Touched(t) = Touched(req[r])
      BY <1>4, <2>1 DEF Seen, Touched
    <2>3. ASSUME t.calm PROVE Documents(ws, items, t)
      <3>1. /\ Documents(ws, items, req[r]) /\ Sound(items) /\ Sound(ws)
            /\ now \in Recreated(ws, items)
        BY <1>1, <1>3, <1>4, <2>3, AmongDocuments DEF Documents
      <3>2. Pending(t) = Pending(req[r]) \ {Key(now)} /\ Key(now) \in Pending(req[r])
        BY <1>1, <1>3, <1>4, <3>1, NoLongerPending DEF Documents, Writing
      <3>3. now \in ws
        <4>1. CASE now \in req[r].ins
          <5>1. now \in Half(ws, items, Pending(req[r]))
            BY <3>1, <4>1 DEF Documents, Seen
          <5> QED  BY <3>2, <5>1 DEF Half
        <4>2. CASE now \in req[r].found
          BY <3>1, <4>2 DEF Documents, OfType
        <4> QED  BY <1>1, <1>10, <4>1, <4>2 DEF Unchanged
      <3>4. Half(ws, items, Pending(t)) = Half(ws, items, Pending(req[r]))
        BY <3>1, <3>2, <3>3, HalfUnchanged
      <3> QED  BY <1>4, <2>2, <3>1, <3>4 DEF Documents, Writing
    <2>4. Sound(Seen(ws, t)) /\ \A q \in Requests \ {r} : Touched(t) \cap Touched(req[q]) = {}
      BY <1>3, <2>2, AmongDocuments DEF SnapshotsInv, DocumentsApart
    <2> QED  BY <1>1, <1>3, <1>4, <1>7, <1>8, <2>3, <2>4, AmongDocumentsStays
  <1> QED  BY <1>6, <1>9, <1>10

LEMMA RestoreDocumentKeepsInv ==
  ASSUME SnapshotsInv, NEW r \in Requests, RestoreDocument(r)
  PROVE  SnapshotsInv'
  BY LookToDeleteKeepsInv, DeleteDocumentKeepsInv, LookToUpdateKeepsInv, PassOverKeepsInv,
     LookToCreateKeepsInv, WriteDocumentKeepsInv, FailuresKeepInv DEF RestoreDocument

(* Past the documents *)
LEMMA DocumentsDoneKeepsInv ==
  ASSUME SnapshotsInv, NEW r \in Requests, DocumentsDone(r)
  PROVE  SnapshotsInv'
  <1>1. PICK items : items = Items(snapshots, req[r])
    OBVIOUS
  <1>2. PICK t : t = [req[r] EXCEPT !.at = "select", !.type = 2, !.found = {}]
    OBVIOUS
  <1>3. /\ req[r].at = "next" /\ req[r].at \in AtDocuments \ {"documents"}
        /\ req[r].doomed = {} /\ req[r].todo = {}
        /\ req' = [req EXCEPT ![r] = t] /\ UNCHANGED <<ws, snapshots>>
    BY <1>2 DEF DocumentsDone, AtDocuments
  <1>4. /\ IsRequest(t) /\ t.at = "select" /\ t.type = 2 /\ t.dels = req[r].dels
        /\ t.ins = req[r].ins /\ t.copy = {} /\ t.target = req[r].target /\ t.calm = req[r].calm
    BY <1>2, <1>3, AmongDocuments DEF IsRequest
  <1>5. /\ Seen(ws, t) = Seen(ws, req[r]) /\ Touched(t) = Touched(req[r])
        /\ Items(snapshots, t) = items
    BY <1>1, <1>4 DEF Seen, Touched, Items
  <1>6. Proceeds(t)
    <2>1. "document" \in Before(2)
      BY BeforeAre
    <2> QED  BY <1>3, <1>4, <2>1, AmongDocuments DEF Proceeds, Points, AtDocuments
  <1>7. ASSUME t.calm PROVE Undisturbed(ws, items, t)
    <2>1. Documents(ws, items, req[r]) /\ Sound(items)
      BY <1>1, <1>3, <1>4, <1>7, AmongDocuments
    <2>2. Pending(req[r]) = {}
      BY <1>3 DEF Pending, Writing, Keys
    <2>3. Seen(ws, t) = Restored(ws, items, 2)
      BY <1>5, <2>1, <2>2, HalfAtLast DEF Documents
    <2> QED  BY <1>4, <2>3 DEF Undisturbed, AtDocuments
  <1>8. RequestOK(ws, snapshots, t) /\ req[r].at # "done"
    BY <1>3, <1>4, <1>5, <1>6, <1>7, AmongDocuments DEF RequestOK
  <1>9. \A q \in Requests \ {r} : Touched(t) \cap Touched(req[q]) = {}
    BY <1>5 DEF SnapshotsInv, DocumentsApart
  <1> QED  BY <1>3, <1>8, <1>9, OwnStepKeepsInv

LEMMA SelectKeepsInv ==
  ASSUME SnapshotsInv, NEW r \in Requests, Select(r)
  PROVE  SnapshotsInv'
  <1>1. PICK n, items, found :
          /\ n = req[r].type /\ items = Items(snapshots, req[r])
          /\ found = OfType(View(r), Tables[req[r].type])
    OBVIOUS
  <1>2. PICK t : t = [req[r] EXCEPT !.at = "flush", !.found = found]
    OBVIOUS
  <1>3. /\ req[r].at = "select" /\ IsRequest(req[r]) /\ Proceeds(req[r]) /\ n \in 2..5
        /\ RequestOK(ws, snapshots, req[r]) /\ Sound(Seen(ws, req[r]))
        /\ found = OfType(Seen(ws, req[r]), Tables[n]) /\ Sound(items)
    BY <1>1, RequestIs DEF Select, Proceeds, AtDocuments
  <1>4. /\ IsRequest(t) /\ t.at = "flush" /\ t.type = n /\ t.found = found
        /\ t.dels = req[r].dels /\ t.ins = req[r].ins /\ t.copy = req[r].copy
        /\ t.target = req[r].target /\ t.calm = req[r].calm
    BY <1>1, <1>2, <1>3 DEF IsRequest
  <1>5. req' = [req EXCEPT ![r] = t] /\ UNCHANGED <<ws, snapshots>>
    BY <1>1, <1>2 DEF Select, SnapshotsInv
  <1>6. Seen(ws, t) = Seen(ws, req[r]) /\ Touched(t) = Touched(req[r]) /\ Items(snapshots, t) = items
    BY <1>1, <1>4 DEF Seen, Touched, Items
  <1>7. Proceeds(t)
    BY <1>1, <1>3, <1>4 DEF Proceeds, Points, AtDocuments, OfType
  <1>8. ASSUME t.calm PROVE Undisturbed(ws, items, t)
    <2>1. Seen(ws, t) = Restored(ws, items, n)
      BY <1>1, <1>3, <1>4, <1>6, <1>8 DEF RequestOK, Undisturbed, AtDocuments
    <2>2. OfType(Restored(ws, items, n), Tables[n]) = OfType(ws, Tables[n])
      <3>1. Tables[n] # "document" /\ Tables[n] \notin Before(n)
        BY <1>3, TablesAre, BeforeAre
      <3>2. \A row \in Recreated(ws, items) : row.type = "document"
        BY <1>3, RecreatedIsSound
      <3> QED  BY <3>1, <3>2 DEF Restored, OfType
    <2> QED  BY <1>3, <1>4, <1>6, <2>1, <2>2 DEF Undisturbed, AtDocuments
  <1>9. RequestOK(ws, snapshots, t)
    BY <1>3, <1>4, <1>6, <1>7, <1>8 DEF RequestOK
  <1>10. \A q \in Requests \ {r} : Touched(t) \cap Touched(req[q]) = {}
    BY <1>6 DEF SnapshotsInv, DocumentsApart
  <1> QED  BY <1>3, <1>5, <1>9, <1>10, OwnStepKeepsInv

LEMMA FlushKeepsInv ==
  ASSUME SnapshotsInv, NEW r \in Requests, Flush(r)
  PROVE  SnapshotsInv'
  <1>1. PICK n, items, dels, ins, at, type :
          /\ n = req[r].type /\ items = Items(snapshots, req[r])
          /\ dels = req[r].dels \cup Keys(req[r].found)
          /\ ins = req[r].ins \cup OfType(items, Tables[n])
          /\ at = (IF n = 5 THEN "read" ELSE "select")
          /\ type = (IF n = 5 THEN 1 ELSE n + 1)
    OBVIOUS
  <1>2. PICK t : t = [req[r] EXCEPT !.dels = dels, !.ins = ins, !.found = {}, !.at = at,
                                    !.type = type]
    OBVIOUS
  <1>3. /\ req[r].at = "flush" /\ IsRequest(req[r]) /\ Proceeds(req[r]) /\ n \in 2..5
        /\ req[r].target # NoRequest /\ \E s \in snapshots : s.id = req[r].target
        /\ RequestOK(ws, snapshots, req[r]) /\ Sound(Seen(ws, req[r])) /\ Sound(items)
    BY <1>1, RequestIs DEF Flush, Proceeds, AtDocuments
  <1>4. /\ IsRequest(t) /\ t.at = at /\ t.type = type /\ t.dels = dels /\ t.ins = ins
        /\ t.copy = {} /\ t.target = req[r].target /\ t.calm = req[r].calm
    BY <1>2, <1>3 DEF IsRequest, Proceeds, AtDocuments
  <1>5. req' = [req EXCEPT ![r] = t] /\ UNCHANGED <<ws, snapshots>>
    <2>1. Wanted(r, Tables[n]) = OfType(items, Tables[n])
      BY <1>1, ItemsAreTargets DEF Wanted
    <2>2. t = Flushed(r)
      BY <1>1, <1>2, <2>1, TablesAre DEF Flushed
    <2> QED  BY <2>2 DEF Flush
  <1>6. \A row \in req[r].found : row.type = Tables[n]
    BY <1>1, <1>3 DEF Proceeds
  <1>7. Sound(Seen(ws, t)) /\ Touched(t) = Touched(req[r]) /\ Items(snapshots, t) = items
    <2>1. t.dels = req[r].dels \cup Keys(req[r].found)
          /\ t.ins = req[r].ins \cup OfType(items, Tables[n])
      BY <1>1, <1>4
    <2>2. Sound(Seen(ws, t)) /\ Touched(t) = Touched(req[r])
      BY <1>3, <1>6, <2>1, FlushedDocuments
    <2>3. Items(snapshots, t) = items
      BY <1>1, <1>4 DEF Items
    <2> QED  BY <2>2, <2>3
  <1>8. n # 5 => /\ \A key \in dels : key[1] \in Before(n + 1)
                 /\ \A row \in ins : row.type \in Before(n + 1)
    <2>1. Before(n + 1) = Before(n) \cup {Tables[n]}
      BY <1>3, BeforeAre
    <2>2. \A key \in Keys(req[r].found) : key[1] = Tables[n]
      BY <1>6, KeysAre DEF Keys
    <2>3. \A row \in OfType(items, Tables[n]) : row.type = Tables[n]
      BY DEF OfType
    <2> QED  BY <1>1, <1>3, <2>1, <2>2, <2>3 DEF Proceeds
  <1>9. Proceeds(t)
    <2>1. CASE n = 5
      BY <1>1, <1>3, <1>4, <2>1 DEF Proceeds, Points, AtDocuments
    <2>2. CASE n # 5
      <3>1. n + 1 \in 2..5 /\ at = "select" /\ type = n + 1
        BY <1>1, <1>3, <2>2
      <3> QED  BY <1>3, <1>4, <1>8, <2>2, <3>1 DEF Proceeds, Points, AtDocuments
    <2> QED  BY <2>1, <2>2
  <1>10. ASSUME t.calm PROVE Undisturbed(ws, items, t)
    <2>1. Seen(ws, req[r]) = Restored(ws, items, n) /\ req[r].found = OfType(ws, Tables[n])
      BY <1>1, <1>3, <1>4, <1>10 DEF RequestOK, Undisturbed, AtDocuments
    <2>2. \A row \in req[r].ins : row.type \in Before(n)
      BY <1>1, <1>3 DEF Proceeds
    <2>3. Seen(ws, t) = Restored(ws, items, n + 1)
      BY <1>1, <1>3, <1>4, <2>1, <2>2, FlushedTable
    <2>4. CASE n = 5
      <3>1. at = "read" /\ type = 1 /\ n + 1 = 6
        BY <1>1, <2>4
      <3>2. Before(1) = {}
        BY BeforeAre
      <3> QED  BY <1>4, <2>3, <3>1, <3>2 DEF Undisturbed, AtDocuments, UpTo
    <2>5. CASE n # 5
      <3>1. at = "select" /\ type = n + 1
        BY <1>1, <2>5
      <3> QED  BY <1>4, <2>3, <3>1 DEF Undisturbed, AtDocuments
    <2> QED  BY <2>4, <2>5
  <1>11. RequestOK(ws, snapshots, t)
    BY <1>3, <1>4, <1>7, <1>9, <1>10 DEF RequestOK
  <1>12. \A q \in Requests \ {r} : Touched(t) \cap Touched(req[q]) = {}
    BY <1>7 DEF SnapshotsInv, DocumentsApart
  <1> QED  BY <1>3, <1>5, <1>11, <1>12, OwnStepKeepsInv

LEMMA ReadKeepsInv ==
  ASSUME SnapshotsInv, NEW r \in Requests, Read(r)
  PROVE  SnapshotsInv'
  <1>1. PICK n, items, copy, at, type :
          /\ n = req[r].type /\ items = Items(snapshots, req[r])
          /\ copy = req[r].copy \cup OfType(View(r), Tables[n])
          /\ at = (IF n = 5 THEN "parent" ELSE "read")
          /\ type = (IF n = 5 THEN n ELSE n + 1)
    OBVIOUS
  <1>12. PICK rank :
          req' = [req EXCEPT ![r].copy = @ \cup OfType(View(r), Tables[req[r].type]),
                             ![r].rank = rank,
                             ![r].at = IF req[r].type = Len(Tables) THEN "parent" ELSE "read",
                             ![r].type = IF req[r].type = Len(Tables) THEN @ ELSE @ + 1]
    BY DEF Read, Reads
  <1>13. req' = [req EXCEPT ![r].copy = copy, ![r].rank = rank, ![r].at = at, ![r].type = type]
    BY <1>1, <1>12, TablesAre
  <1>2. PICK t : t = [req[r] EXCEPT !.copy = copy, !.rank = rank, !.at = at, !.type = type]
    OBVIOUS
  <1>3. /\ req[r].at = "read" /\ IsRequest(req[r]) /\ Proceeds(req[r]) /\ n \in 1..5
        /\ RequestOK(ws, snapshots, req[r]) /\ Sound(Seen(ws, req[r]))
        /\ copy = req[r].copy \cup OfType(Seen(ws, req[r]), Tables[n])
    BY <1>1, RequestIs DEF Read, Reads, Proceeds
  <1>4. /\ IsRequest(t) /\ t.at = at /\ t.type = type /\ t.copy = copy
        /\ t.dels = req[r].dels /\ t.ins = req[r].ins
        /\ t.target = req[r].target /\ t.calm = req[r].calm
    BY <1>2, <1>3 DEF IsRequest
  <1>5. req' = [req EXCEPT ![r] = t] /\ UNCHANGED <<ws, snapshots>>
    <2>1. UNCHANGED <<ws, snapshots>>
      BY DEF Read, Reads
    <2> QED  BY <1>2, <1>13, <2>1
  <1>6. Seen(ws, t) = Seen(ws, req[r]) /\ Touched(t) = Touched(req[r]) /\ Items(snapshots, t) = items
    BY <1>1, <1>4 DEF Seen, Touched, Items
  <1>7. /\ Sound(copy)
        /\ req[r].copy = UpTo(Seen(ws, req[r]), n) => copy = UpTo(Seen(ws, req[r]), n + 1)
    <2>1. IF n = 1 THEN req[r].copy = {} ELSE Sound(req[r].copy)
      BY <1>1, <1>3 DEF Proceeds
    <2>2. PICK seen, old : seen = Seen(ws, req[r]) /\ old = req[r].copy
      OBVIOUS
    <2>3. Sound(seen) /\ n \in 1..5 /\ IF n = 1 THEN old = {} ELSE Sound(old)
      BY <1>3, <2>1, <2>2
    <2>4. /\ Sound(old \cup OfType(seen, Tables[n]))
          /\ old = UpTo(seen, n) => old \cup OfType(seen, Tables[n]) = UpTo(seen, n + 1)
      BY <2>3, CopiedTable
    <2> QED  BY <1>3, <2>2, <2>4
  <1>8. Proceeds(t)
    <2>1. at \in {"read", "parent"} /\ (at = "read" => type \in 2..5)
      BY <1>1, <1>3
    <2> QED  BY <1>3, <1>4, <1>7, <2>1 DEF Proceeds, Points, AtDocuments
  <1>9. ASSUME t.calm PROVE Undisturbed(ws, items, t)
    <2>1. Undisturbed(ws, items, req[r])
      BY <1>1, <1>3, <1>4, <1>9 DEF RequestOK
    <2>2. copy = UpTo(Seen(ws, t), n + 1)
      BY <1>1, <1>3, <1>6, <1>7, <2>1 DEF Undisturbed, AtDocuments
    <2>3. t.target # NoRequest => Seen(ws, t) = Restored(ws, items, 6)
      BY <1>3, <1>4, <1>6, <2>1 DEF Undisturbed, AtDocuments
    <2>4. CASE n = 5
      <3>1. at = "parent" /\ n + 1 = 6
        BY <1>1, <2>4
      <3>2. copy = Seen(ws, t)
        BY <1>3, <1>6, <2>2, <3>1, AllAreCopied
      <3> QED  BY <1>4, <2>3, <3>1, <3>2 DEF Undisturbed, AtDocuments, UpTo
    <2>5. CASE n # 5
      <3>1. at = "read" /\ type = n + 1
        BY <1>1, <2>5
      <3> QED  BY <1>4, <2>2, <2>3, <3>1 DEF Undisturbed, AtDocuments
    <2> QED  BY <2>4, <2>5
  <1>10. RequestOK(ws, snapshots, t)
    BY <1>3, <1>4, <1>6, <1>8, <1>9 DEF RequestOK
  <1>11. \A q \in Requests \ {r} : Touched(t) \cap Touched(req[q]) = {}
    BY <1>6 DEF SnapshotsInv, DocumentsApart
  <1> QED  BY <1>3, <1>5, <1>10, <1>11, OwnStepKeepsInv

LEMMA ReadParentKeepsInv ==
  ASSUME SnapshotsInv, NEW r \in Requests, ReadParent(r)
  PROVE  SnapshotsInv'
  <1>1. PICK parent : parent = Latest
    OBVIOUS
  <1>2. PICK t : t = [req[r] EXCEPT !.parent = parent, !.at = "commit"]
    OBVIOUS
  <1>3. /\ req[r].at = "parent" /\ IsRequest(req[r]) /\ Proceeds(req[r])
        /\ RequestOK(ws, snapshots, req[r])
    BY RequestIs DEF ReadParent
  <1>4. /\ IsRequest(t) /\ t.at = "commit" /\ t.type = req[r].type /\ t.copy = req[r].copy
        /\ t.dels = req[r].dels /\ t.ins = req[r].ins
        /\ t.target = req[r].target /\ t.calm = req[r].calm
    BY <1>2, <1>3 DEF IsRequest
  <1>5. req' = [req EXCEPT ![r] = t] /\ UNCHANGED <<ws, snapshots>>
    BY <1>1, <1>2 DEF ReadParent
  <1>6. /\ Seen(ws, t) = Seen(ws, req[r]) /\ Touched(t) = Touched(req[r])
        /\ Items(snapshots, t) = Items(snapshots, req[r])
    BY <1>4 DEF Seen, Touched, Items
  <1>7. Proceeds(t)
    BY <1>3, <1>4 DEF Proceeds, Points, AtDocuments
  <1>8. t.calm => Undisturbed(ws, Items(snapshots, t), t)
    BY <1>3, <1>4, <1>6 DEF RequestOK, Undisturbed, AtDocuments
  <1>9. RequestOK(ws, snapshots, t)
    BY <1>3, <1>4, <1>6, <1>7, <1>8 DEF RequestOK
  <1>10. \A q \in Requests \ {r} : Touched(t) \cap Touched(req[q]) = {}
    BY <1>6 DEF SnapshotsInv, DocumentsApart
  <1> QED  BY <1>3, <1>5, <1>9, <1>10, OwnStepKeepsInv

-----------------------------------------------------------------------------
(* A commit, of this request or of others, changes what the others see; those
   that are under way are disturbed by it. *)
LEMMA OthersStayRight ==
  ASSUME SnapshotsInv, NEW by, NEW q \in Requests, q # by, NEW rows, NEW snaps, NEW keys,
         Sound(rows), snapshots \subseteq snaps,
         \A row : row.type = "document" /\ Key(row) \notin keys => (row \in ws <=> row \in rows),
         Touched(req[q]) \cap keys = {}
  PROVE  LET t == Disturbed(by)[q]
         IN  RequestOK(rows, snaps, t) /\ Touched(t) = Touched(req[q]) /\ t.at = req[q].at
  <1>1. PICK t : t = IF Active(q) THEN [req[q] EXCEPT !.calm = FALSE] ELSE req[q]
    OBVIOUS
  <1>2. Disturbed(by)[q] = t
    BY <1>1 DEF Disturbed
  <1>3. /\ IsRequest(req[q]) /\ Proceeds(req[q]) /\ RequestOK(ws, snapshots, req[q])
    BY RequestIs
  <1>4. /\ IsRequest(t) /\ t.at = req[q].at /\ t.type = req[q].type /\ t.dels = req[q].dels
        /\ t.ins = req[q].ins /\ t.found = req[q].found /\ t.copy = req[q].copy
        /\ t.target = req[q].target
        /\ t.doomed = req[q].doomed /\ t.todo = req[q].todo /\ t.now = req[q].now
        /\ t.calm => t.at \in {"idle", "done", "failed"}
    <2>1. CASE Active(q)
      <3>1. t = [req[q] EXCEPT !.calm = FALSE]
        BY <1>1, <2>1
      <3> QED  BY <1>3, <3>1 DEF IsRequest
    <2>2. CASE ~Active(q)
      BY <1>1, <1>3, <2>2 DEF Active
    <2> QED  BY <2>1, <2>2
  <1>5. Touched(t) = Touched(req[q]) /\ Seen(ws, t) = Seen(ws, req[q])
    BY <1>4 DEF Touched, Seen
  <1>6. Proceeds(t)
    BY <1>3, <1>4 DEF Proceeds
  <1>7. Sound(Seen(rows, t))
    BY <1>3, <1>5, SeenStaysSound DEF RequestOK
  <1>8. t.target # NoRequest => \E s \in snaps : s.id = t.target
    BY <1>3, <1>4 DEF RequestOK
  <1>9. t.calm => Undisturbed(rows, Items(snaps, t), t)
    BY <1>4 DEF Undisturbed, AtDocuments
  <1>10. RequestOK(rows, snaps, t)
    BY <1>4, <1>6, <1>7, <1>8, <1>9 DEF RequestOK
  <1> QED  BY <1>2, <1>4, <1>5, <1>10

LEMMA DisturbedIs ==
  ASSUME NEW by
  PROVE  DOMAIN Disturbed(by) = Requests
         /\ Disturbed(by) = [q \in Requests |-> Disturbed(by)[q]]
  BY DEF Disturbed

LEMMA EditKeepsInv ==
  ASSUME SnapshotsInv, NEW rows, NEW keys, Edit(rows), Sound(rows),
         \A row : row.type = "document" /\ Key(row) \notin keys => (row \in ws <=> row \in rows),
         keys \cap Locked(NoRequest) = {}
  PROVE  SnapshotsInv'
  <1>1. ws' = rows /\ snapshots' = snapshots /\ req' = Disturbed(NoRequest)
    BY DEF Edit
  <1>2. ASSUME NEW q \in Requests
        PROVE  /\ RequestOK(rows, snapshots, req'[q]) /\ Touched(req'[q]) = Touched(req[q])
               /\ req'[q].at = req[q].at
    <2>1. q # NoRequest
      BY SnapshotsAssumption
    <2>2. req[q].dels \cup Keys(req[q].ins) \subseteq Locked(NoRequest)
      BY <2>1 DEF Locked, Held
    <2>3. Touched(req[q]) \cap keys = {}
      BY <2>2 DEF Touched
    <2>4. PICK t : t = Disturbed(NoRequest)[q]
      OBVIOUS
    <2>5. RequestOK(rows, snapshots, t) /\ Touched(t) = Touched(req[q]) /\ t.at = req[q].at
      BY <2>1, <2>3, <2>4, OthersStayRight
    <2> QED  BY <1>1, <2>4, <2>5
  <1>3. SnapshotsOK'
    BY <1>1, <1>2 DEF SnapshotsInv, SnapshotsOK
  <1>4. DocumentsApart'
    <2>1. \A p, q \in Requests : p # q => Touched(req'[p]) \cap Touched(req'[q]) = {}
      BY <1>2 DEF SnapshotsInv, DocumentsApart
    <2> QED  BY <2>1 DEF DocumentsApart, Touched, Keys, Key
  <1>5. DOMAIN req' = Requests /\ req' = [q \in Requests |-> req'[q]]
    BY <1>1, DisturbedIs
  <1>6. \A q \in Requests : RequestOK(ws, snapshots, req[q])'
    BY <1>1, <1>2
  <1>7. Sound(ws)'
    BY <1>1
  <1> QED  BY <1>3, <1>4, <1>5, <1>6, <1>7 DEF SnapshotsInv

LEMMA PutKeepsInv ==
  ASSUME SnapshotsInv, NEW row \in Rows, Put(row)
  PROVE  SnapshotsInv'
  <1>1. PICK rows : rows = {x \in ws : Key(x) # Key(row)} \cup {row}
    OBVIOUS
  <1>2. Edit(rows) /\ Key(row) \notin Locked(NoRequest)
    BY <1>1 DEF Put
  <1>3. Sound(ws)
    BY DEF SnapshotsInv
  <1>4. Typed(rows)
    BY <1>1, <1>3, SnapshotsAssumption, TablesAre DEF Sound, Typed
  <1>5. OneRowEach(rows)
    BY <1>1, <1>3, KeysAre DEF Sound, OneRowEach
  <1>6. HasProtected(rows)
    <2> SUFFICES ASSUME NEW key \in Protected
                 PROVE  \E x \in rows : x.type = "document" /\ x.key = key
      BY DEF HasProtected
    <2>1. PICK x \in ws : x.type = "document" /\ x.key = key
      BY <1>3 DEF Sound, HasProtected
    <2>2. CASE Key(x) = Key(row)
      BY <1>1, <2>1, <2>2, KeysAre
    <2>3. CASE Key(x) # Key(row)
      BY <1>1, <2>1, <2>3
    <2> QED  BY <2>2, <2>3
  <1>7. PICK keys : keys = {Key(row)}
    OBVIOUS
  <1>8. \A x : x.type = "document" /\ Key(x) \notin keys => (x \in ws <=> x \in rows)
    BY <1>1, <1>7
  <1>9. Sound(rows) /\ keys \cap Locked(NoRequest) = {}
    BY <1>2, <1>4, <1>5, <1>6, <1>7 DEF Sound
  <1> QED  BY <1>2, <1>8, <1>9, EditKeepsInv

LEMMA DeleteKeepsInv ==
  ASSUME SnapshotsInv, NEW row \in Rows, Delete(row)
  PROVE  SnapshotsInv'
  <1>1. PICK rows : rows = ws \ {row}
    OBVIOUS
  <1>2. Edit(rows) /\ Key(row) \notin Locked(NoRequest) /\ row.key \notin Protected
    BY <1>1 DEF Delete
  <1>3. Sound(ws)
    BY DEF SnapshotsInv
  <1>4. Sound(rows)
    <2>1. Typed(rows) /\ OneRowEach(rows)
      BY <1>1, <1>3 DEF Sound, Typed, OneRowEach
    <2>2. HasProtected(rows)
      BY <1>1, <1>2, <1>3 DEF Sound, HasProtected
    <2> QED  BY <2>1, <2>2 DEF Sound
  <1>5. PICK keys : keys = {Key(row)}
    OBVIOUS
  <1>6. \A x : x.type = "document" /\ Key(x) \notin keys => (x \in ws <=> x \in rows)
    BY <1>1, <1>5
  <1>7. keys \cap Locked(NoRequest) = {}
    BY <1>2, <1>5
  <1> QED  BY <1>2, <1>4, <1>6, <1>7, EditKeepsInv

LEMMA AddBuiltinsKeepsInv ==
  ASSUME SnapshotsInv, AddBuiltins
  PROVE  SnapshotsInv'
  <1>1. PICK rows : rows = ws \cup MissingSkills
    OBVIOUS
  <1>2. Edit(rows) /\ Sound(ws)
    BY <1>1 DEF AddBuiltins, SnapshotsInv
  <1>3. \A row \in MissingSkills : row.type = "skill" /\ row \in Rows
    BY SnapshotsAssumption DEF MissingSkills
  <1>4. Typed(rows)
    BY <1>1, <1>2, <1>3, SnapshotsAssumption, TablesAre DEF Sound, Typed
  <1>5. OfType(rows, "document") = OfType(ws, "document")
    BY <1>1, <1>3 DEF OfType
  <1>6. Sound(rows)
    BY <1>2, <1>4, <1>5, SoundByDocuments
  <1>7. PICK keys : keys = {}
    OBVIOUS
  <1>8. \A x : x.type = "document" /\ Key(x) \notin keys => (x \in ws <=> x \in rows)
    BY <1>1, <1>3
  <1>9. keys \cap Locked(NoRequest) = {}
    BY <1>7
  <1> QED  BY <1>2, <1>6, <1>8, <1>9, EditKeepsInv

LEMMA CommitKeepsInv ==
  ASSUME SnapshotsInv, NEW r \in Requests, Commit(r)
  PROVE  SnapshotsInv'
  <1>1. PICK rows, new, t :
          /\ rows = Seen(ws, req[r])
          /\ new = [id |-> r, parent |-> req[r].parent, since |-> req[r].since,
                    items |-> req[r].copy, rank |-> req[r].rank, calm |-> req[r].calm]
          /\ t = [Unstarted EXCEPT !.at = "done"]
    OBVIOUS
  <1>2. /\ req[r].at = "commit" /\ Sound(rows) /\ View(r) = rows /\ Sound(req[r].copy)
    BY <1>1, RequestIs DEF Commit, Proceeds
  <1>3. /\ ws' = rows /\ snapshots' = snapshots \cup {new}
        /\ req' = [Disturbed(r) EXCEPT ![r] = t]
    BY <1>1, <1>2 DEF Commit
  <1>4. /\ req'[r] = t /\ \A q \in Requests \ {r} : req'[q] = Disturbed(r)[q]
        /\ DOMAIN req' = Requests /\ req' = [q \in Requests |-> req'[q]]
    BY <1>3, DisturbedIs
  <1>5. /\ IsRequest(t) /\ t.at = "done" /\ t.dels = {} /\ t.ins = {} /\ t.target = NoRequest
    BY <1>1 DEF IsRequest, Unstarted
  <1>6. RequestOK(rows, snapshots', t) /\ Touched(t) = {}
    BY <1>2, <1>5, OverIsRight
  <1>7. ASSUME NEW q \in Requests \ {r}
        PROVE  /\ RequestOK(rows, snapshots', req'[q]) /\ Touched(req'[q]) = Touched(req[q])
               /\ req'[q].at = req[q].at
    <2>1. Touched(req[q]) \cap Touched(req[r]) = {}
      BY DEF SnapshotsInv, DocumentsApart
    <2>2. \A row : row.type = "document" /\ Key(row) \notin Touched(req[r]) =>
                     (row \in ws <=> row \in rows)
      <3>1. \A row : row.type = "document" /\ Key(row) \notin Touched(req[r]) =>
                       Key(row) \notin req[r].dels /\ Key(row) \notin Keys(req[r].ins)
        BY KeysAre DEF Touched
      <3>2. \A row \in req[r].ins : Key(row) \in Keys(req[r].ins)
        BY DEF Keys
      <3> QED  BY <1>1, <3>1, <3>2 DEF Seen
    <2>3. PICK u : u = Disturbed(r)[q]
      OBVIOUS
    <2>4. PICK snaps : snaps = snapshots'
      OBVIOUS
    <2>5. RequestOK(rows, snaps, u) /\ Touched(u) = Touched(req[q]) /\ u.at = req[q].at
      BY <1>2, <1>3, <2>1, <2>2, <2>3, <2>4, OthersStayRight
    <2> QED  BY <1>4, <2>3, <2>4, <2>5
  <1>8. SnapshotsOK'
    <2>1. new.id = r /\ new.items = req[r].copy
      BY <1>1
    <2>2. \A s \in snapshots : s.id \in Requests \ {r} /\ req[s.id].at = "done" /\ Sound(s.items)
      BY <1>2 DEF SnapshotsInv, SnapshotsOK
    <2>3. \A s \in snapshots' : s.id \in Requests /\ req'[s.id].at = "done" /\ Sound(s.items)
      BY <1>2, <1>3, <1>4, <1>5, <1>7, <2>1, <2>2
    <2>4. \A s, u \in snapshots' : s.id = u.id => s = u
      BY <1>3, <2>1, <2>2 DEF SnapshotsInv, SnapshotsOK
    <2> QED  BY <2>3, <2>4 DEF SnapshotsOK, Sound, Typed, OneRowEach, HasProtected
  <1>9. DocumentsApart'
    <2>1. \A p, q \in Requests : p # q => Touched(req'[p]) \cap Touched(req'[q]) = {}
      BY <1>4, <1>6, <1>7 DEF SnapshotsInv, DocumentsApart
    <2> QED  BY <2>1 DEF DocumentsApart, Touched, Keys, Key
  <1>10. \A q \in Requests : RequestOK(ws, snapshots, req[q])'
    BY <1>3, <1>4, <1>6, <1>7
  <1>11. Sound(ws)'
    BY <1>2, <1>3
  <1> QED  BY <1>4, <1>8, <1>9, <1>10, <1>11 DEF SnapshotsInv

-----------------------------------------------------------------------------
LEMMA SnapshotsInitHasInv == SnapshotsInit => SnapshotsInv
  <1> SUFFICES ASSUME SnapshotsInit PROVE SnapshotsInv
    OBVIOUS
  <1>1. PICK t, over : t = Unstarted /\ over = [t EXCEPT !.at = "done"]
    OBVIOUS
  <1>2. /\ IsRequest(t) /\ t.at = "idle" /\ t.type = 1 /\ t.dels = {} /\ t.ins = {}
        /\ t.copy = {} /\ t.target = NoRequest
    BY <1>1 DEF Unstarted, IsRequest
  <1>3. IsRequest(over) /\ over.at = "done" /\ over.dels = {} /\ over.ins = {}
        /\ over.target = NoRequest
    BY <1>1, <1>2 DEF IsRequest
  <1>4. /\ req = [r \in Requests |-> IF \E s \in Earlier : s.id = r THEN over ELSE t]
        /\ ws = Fresh /\ snapshots = Earlier
    BY <1>1 DEF SnapshotsInit
  <1>5. Seen(ws, t) = ws /\ Touched(t) = {}
    BY <1>2 DEF Seen, Touched, Keys
  <1>6. Sound(ws)
    BY <1>4, FirstIsSound
  <1>7. RequestOK(ws, snapshots, t)
    BY <1>2, <1>5, <1>6 DEF RequestOK, Proceeds, Points, AtDocuments, Undisturbed
  <1>8. RequestOK(ws, snapshots, over) /\ Touched(over) = {}
    BY <1>3, <1>6, OverIsRight
  <1>9. \A r \in Requests : RequestOK(ws, snapshots, req[r]) /\ Touched(req[r]) = {}
    BY <1>4, <1>5, <1>7, <1>8
  <1>10. DocumentsApart
    BY <1>9 DEF DocumentsApart
  <1>11. SnapshotsOK
    <2>1. ASSUME NEW s \in Earlier
          PROVE  s.id \in Requests /\ req[s.id].at = "done" /\ Sound(s.items)
      <3>1. s.id \in Requests
        BY SnapshotsAssumption
      <3>2. Sound(s.items)
        BY FirstIsSound
      <3> QED  BY <1>3, <1>4, <3>1, <3>2
    <2> QED  BY <1>4, <2>1, SnapshotsAssumption DEF SnapshotsOK
  <1> QED  BY <1>4, <1>6, <1>9, <1>10, <1>11 DEF SnapshotsInv

LEMMA SnapshotsNextKeepsInv == SnapshotsInv /\ [SnapshotsNext]_snapshotVars => SnapshotsInv'
  <1> SUFFICES ASSUME SnapshotsInv, [SnapshotsNext]_snapshotVars PROVE SnapshotsInv'
    OBVIOUS
  <1>1. ASSUME NEW r \in Requests, Create(r) PROVE SnapshotsInv'
    BY <1>1, BeginKeepsInv DEF Create
  <1>2. ASSUME NEW r \in Requests, NEW s \in snapshots, Restore(r, s) PROVE SnapshotsInv'
    <2>1. PICK target : target = s.id
      OBVIOUS
    <2>2. target # NoRequest
      BY <2>1, SnapshotsAssumption DEF SnapshotsInv, SnapshotsOK
    <2>3. Begin(r, target, "documents")
      BY <1>2, <2>1 DEF Restore
    <2> QED  BY <2>1, <2>2, <2>3, BeginKeepsInv
  <1>3. ASSUME NEW r \in Requests, Step(r) PROVE SnapshotsInv'
    BY <1>3, ListDocumentsKeepsInv, ReadHeadsKeepsInv, RestoreDocumentKeepsInv,
       DocumentsDoneKeepsInv, SelectKeepsInv, FlushKeepsInv, FailuresKeepInv, ReadKeepsInv,
       ReadParentKeepsInv, CommitKeepsInv DEF Step
  <1>4. ASSUME NEW row \in Rows, Put(row) \/ Delete(row) PROVE SnapshotsInv'
    BY <1>4, PutKeepsInv, DeleteKeepsInv
  <1>5. ASSUME AddBuiltins PROVE SnapshotsInv'
    BY <1>5, AddBuiltinsKeepsInv
  <1>6. CASE UNCHANGED snapshotVars
    BY <1>6 DEF snapshotVars, SnapshotsInv, SnapshotsOK, DocumentsApart, Touched, Keys, Key, RequestOK, Sound,
                Typed, OneRowEach, HasProtected
  <1> QED  BY <1>1, <1>2, <1>3, <1>4, <1>5, <1>6 DEF SnapshotsNext

-----------------------------------------------------------------------------
(* Only a commit makes a snapshot, and only a commit ends a restore. *)
LEMMA SnapshotsAreCommitted ==
  ASSUME SnapshotsInv, [SnapshotsNext]_snapshotVars, NEW s \in snapshots' \ snapshots
  PROVE  \E r \in Requests :
           Commit(r) /\ s.items = req[r].copy /\ s.calm = req[r].calm
  <1>1. snapshots' # snapshots
    OBVIOUS
  <1>2. PICK r \in Requests : Step(r)
    BY <1>1 DEF SnapshotsNext, Create, Restore, Begin, Put, Delete, AddBuiltins, Edit, snapshotVars
  <1>3. Commit(r)
    BY <1>1, <1>2 DEF Step, ListDocuments, ReadHeads, HeadsFail, RestoreDocument, LookToDelete,
       DeleteDocument, LookToUpdate, PassOver, LookToCreate, Look, WriteDocument, WriteFails,
       DocumentsDone, Select, Flush, FlushFails, Read, Reads, ReadParent, DeadlockVictim, RollBack
  <1>4. PICK new : new = [id |-> r, parent |-> req[r].parent, since |-> req[r].since,
                          items |-> req[r].copy, rank |-> req[r].rank, calm |-> req[r].calm]
    OBVIOUS
  <1>5. s = new
    BY <1>3, <1>4 DEF Commit
  <1> QED  BY <1>3, <1>4, <1>5

(* Every other statement of a request is its own, and does not end it. *)
Own(r) == \E t : t.at # "done" /\ req' = [req EXCEPT ![r] = t]

LEMMA BeginIsOwn ==
  ASSUME SnapshotsInv, NEW r \in Requests, Create(r) \/ (\E s \in snapshots : Restore(r, s))
  PROVE  Own(r)
  <1>1. PICK target, at : Begin(r, target, at) /\ at # "done"
    BY DEF Create, Restore
  <1>2. PICK since : since = begun + 1
    OBVIOUS
  <1>3. PICK t : t = [req[r] EXCEPT !.at = at, !.since = since, !.target = target]
    OBVIOUS
  <1>4. t.at # "done"
    BY <1>1, <1>3, RequestIs DEF IsRequest
  <1>5. req' = [req EXCEPT ![r] = t]
    BY <1>1, <1>2, <1>3 DEF Begin
  <1> QED  BY <1>4, <1>5 DEF Own

LEMMA RollBackIsOwn ==
  ASSUME NEW r \in Requests, HeadsFail(r) \/ WriteFails(r) \/ FlushFails(r) \/ DeadlockVictim(r)
                             \/ (\E calm : RollBack(r, calm))
  PROVE  Own(r)
  <1>1. PICK calm : RollBack(r, calm)
    BY DEF HeadsFail, WriteFails, FlushFails, DeadlockVictim
  <1>2. PICK t : t = [Unstarted EXCEPT !.at = "failed", !.calm = calm]
    OBVIOUS
  <1>3. t.at # "done"
    BY <1>2 DEF Unstarted
  <1>4. req' = [req EXCEPT ![r] = t]
    BY <1>1, <1>2 DEF RollBack
  <1> QED  BY <1>3, <1>4 DEF Own

LEMMA DocumentIsOwn ==
  ASSUME SnapshotsInv, NEW r \in Requests,
         ListDocuments(r) \/ ReadHeads(r) \/ RestoreDocument(r) \/ DocumentsDone(r)
  PROVE  Own(r)
  <1>1. IsRequest(req[r])
    BY RequestIs
  <1>2. CASE ListDocuments(r)
    <2>1. PICK found, wanted, doomed :
            req' = [req EXCEPT ![r].at = "heads", ![r].found = found, ![r].todo = wanted,
                               ![r].doomed = doomed]
      BY <1>2 DEF ListDocuments
    <2>2. PICK t : t = [req[r] EXCEPT !.at = "heads", !.found = found, !.todo = wanted,
                                      !.doomed = doomed]
      OBVIOUS
    <2>3. t.at # "done"
      BY <1>1, <2>2 DEF IsRequest
    <2> QED  BY <2>1, <2>2, <2>3 DEF Own
  <1>3. CASE ReadHeads(r)
    <2>1. PICK t : t = [req[r] EXCEPT !.at = "next"]
      OBVIOUS
    <2>2. t.at # "done" /\ req' = [req EXCEPT ![r] = t]
      BY <1>1, <1>3, <2>1 DEF IsRequest, ReadHeads
    <2> QED  BY <2>2 DEF Own
  <1>4. CASE LookToDelete(r)
    <2>1. PICK d \in req[r].doomed :
            \/ req' = [req EXCEPT ![r].at = "delete", ![r].now = d, ![r].doomed = @ \ {d}]
            \/ RollBack(r, req[r].calm)
      BY <1>4 DEF LookToDelete
    <2>2. CASE RollBack(r, req[r].calm)
      BY <2>2, RollBackIsOwn
    <2>3. CASE req' = [req EXCEPT ![r].at = "delete", ![r].now = d, ![r].doomed = @ \ {d}]
      <3>1. PICK t : t = [req[r] EXCEPT !.at = "delete", !.now = d, !.doomed = @ \ {d}]
        OBVIOUS
      <3>2. t.at # "done"
        BY <1>1, <3>1 DEF IsRequest
      <3> QED  BY <2>3, <3>1, <3>2 DEF Own
    <2> QED  BY <2>1, <2>2, <2>3
  <1>5. CASE DeleteDocument(r)
    <2>1. PICK writes : writes = Writes(r)
      OBVIOUS
    <2>2. PICK t : t = [req[r] EXCEPT !.at = "next", !.now = NoRow, !.dels = @ \cup writes]
      OBVIOUS
    <2>3. t.at # "done"
      BY <1>1, <2>2 DEF IsRequest
    <2>4. req' = [req EXCEPT ![r] = t]
      BY <1>5, <2>1, <2>2 DEF DeleteDocument
    <2> QED  BY <2>3, <2>4 DEF Own
  <1>6. CASE \E row \in req[r].todo : LookToUpdate(r, row) \/ PassOver(r, row) \/ LookToCreate(r, row)
    <2>1. PICK at, row, now : Look(r, at, row, now) /\ at # "done"
      <3>1. PICK row : LookToUpdate(r, row) \/ PassOver(r, row) \/ LookToCreate(r, row)
        BY <1>6
      <3>2. \/ Look(r, "update", row, row) \/ Look(r, "next", row, NoRow)
            \/ \E now : Look(r, "insert", row, now)
        BY <3>1 DEF LookToUpdate, PassOver, LookToCreate
      <3> QED  BY <3>2
    <2>2. PICK t : t = [req[r] EXCEPT !.at = at, !.now = now, !.todo = @ \ {row}]
      OBVIOUS
    <2>3. t.at # "done"
      BY <1>1, <2>1, <2>2 DEF IsRequest
    <2>4. req' = [req EXCEPT ![r] = t]
      BY <2>1, <2>2 DEF Look
    <2> QED  BY <2>3, <2>4 DEF Own
  <1>7. CASE WriteDocument(r)
    <2>1. PICK dels, ins :
            req' = [req EXCEPT ![r].at = "next", ![r].now = NoRow, ![r].dels = dels, ![r].ins = ins]
      BY <1>7 DEF WriteDocument
    <2>2. PICK t : t = [req[r] EXCEPT !.at = "next", !.now = NoRow, !.dels = dels, !.ins = ins]
      OBVIOUS
    <2>3. t.at # "done"
      BY <1>1, <2>2 DEF IsRequest
    <2> QED  BY <2>1, <2>2, <2>3 DEF Own
  <1>8. CASE WriteFails(r)
    BY <1>8, RollBackIsOwn
  <1>9. CASE DocumentsDone(r)
    <2>1. PICK t : t = [req[r] EXCEPT !.at = "select", !.type = 2, !.found = {}]
      OBVIOUS
    <2>2. t.at # "done"
      BY <1>1, <2>1 DEF IsRequest
    <2>3. req' = [req EXCEPT ![r] = t]
      BY <1>9, <2>1 DEF DocumentsDone
    <2> QED  BY <2>2, <2>3 DEF Own
  <1> QED  BY <1>2, <1>3, <1>4, <1>5, <1>6, <1>7, <1>8, <1>9 DEF RestoreDocument

LEMMA TableIsOwn ==
  ASSUME SnapshotsInv, NEW r \in Requests, Select(r) \/ Flush(r) \/ Read(r) \/ ReadParent(r)
  PROVE  Own(r)
  <1>1. IsRequest(req[r])
    BY RequestIs
  <1>2. CASE Select(r)
    <2>1. PICK found : found = OfType(View(r), Tables[req[r].type])
      OBVIOUS
    <2>2. PICK t : t = [req[r] EXCEPT !.at = "flush", !.found = found]
      OBVIOUS
    <2>3. t.at # "done"
      BY <1>1, <2>2 DEF IsRequest
    <2>4. req' = [req EXCEPT ![r] = t]
      BY <1>2, <2>1, <2>2 DEF Select
    <2> QED  BY <2>3, <2>4 DEF Own
  <1>3. CASE Flush(r)
    <2>1. PICK dels, ins, at, type :
            /\ dels = req[r].dels \cup Keys(req[r].found)
            /\ ins = req[r].ins \cup Wanted(r, Tables[req[r].type])
            /\ at = (IF req[r].type = Len(Tables) THEN "read" ELSE "select")
            /\ type = (IF req[r].type = Len(Tables) THEN 1 ELSE req[r].type + 1)
      OBVIOUS
    <2>2. Flushed(r) = [req[r] EXCEPT !.dels = dels, !.ins = ins, !.found = {}, !.at = at,
                                      !.type = type]
      BY <2>1 DEF Flushed
    <2>3. Flushed(r).at # "done"
      BY <1>1, <2>1, <2>2 DEF IsRequest
    <2> QED  BY <1>3, <2>3 DEF Own, Flush
  <1>4. CASE Read(r)
    <2>1. PICK copy, at, type :
            /\ copy = req[r].copy \cup OfType(View(r), Tables[req[r].type])
            /\ at = (IF req[r].type = Len(Tables) THEN "parent" ELSE "read")
            /\ type = (IF req[r].type = Len(Tables) THEN req[r].type ELSE req[r].type + 1)
      OBVIOUS
    <2>2. PICK rank :
            req' = [req EXCEPT ![r].copy = @ \cup OfType(View(r), Tables[req[r].type]),
                               ![r].rank = rank,
                               ![r].at = IF req[r].type = Len(Tables) THEN "parent" ELSE "read",
                               ![r].type = IF req[r].type = Len(Tables) THEN @ ELSE @ + 1]
      BY <1>4 DEF Read, Reads
    <2>3. req' = [req EXCEPT ![r].copy = copy, ![r].rank = rank, ![r].at = at, ![r].type = type]
      BY <2>1, <2>2
    <2>4. PICK t : t = [req[r] EXCEPT !.copy = copy, !.rank = rank, !.at = at, !.type = type]
      OBVIOUS
    <2>5. t.at # "done"
      BY <1>1, <2>1, <2>4 DEF IsRequest
    <2> QED  BY <2>3, <2>4, <2>5 DEF Own
  <1>5. CASE ReadParent(r)
    <2>1. PICK parent : parent = Latest
      OBVIOUS
    <2>2. PICK t : t = [req[r] EXCEPT !.parent = parent, !.at = "commit"]
      OBVIOUS
    <2>3. t.at # "done"
      BY <1>1, <2>2 DEF IsRequest
    <2>4. req' = [req EXCEPT ![r] = t]
      BY <1>5, <2>1, <2>2 DEF ReadParent
    <2> QED  BY <2>3, <2>4 DEF Own
  <1> QED  BY <1>2, <1>3, <1>4, <1>5

LEMMA OthersAreOwn ==
  ASSUME SnapshotsInv, NEW r \in Requests,
         Create(r) \/ (\E s \in snapshots : Restore(r, s)) \/ Step(r), ~ Commit(r)
  PROVE  Own(r)
  BY BeginIsOwn, RollBackIsOwn, DocumentIsOwn, TableIsOwn DEF Step

LEMMA RestoresAreCommitted ==
  ASSUME SnapshotsInv, [SnapshotsNext]_snapshotVars, NEW r \in Requests, RestoreCommits(r)
  PROVE  Commit(r)
  <1>1. req[r].at = "commit" /\ req'[r].at = "done"
    BY DEF RestoreCommits
  <1>2. req' # req
    BY <1>1
  <1>3. \A by : Disturbed(by)[r].at = "commit"
    <2> SUFFICES ASSUME NEW by PROVE Disturbed(by)[r].at = "commit"
      OBVIOUS
    <2>1. IsRequest(req[r])
      BY RequestIs
    <2>2. CASE Disturbed(by)[r] = req[r]
      BY <1>1, <2>2
    <2>3. CASE Disturbed(by)[r] # req[r]
      <3>1. Disturbed(by)[r] = [req[r] EXCEPT !.calm = FALSE]
        BY <2>3 DEF Disturbed
      <3> QED  BY <1>1, <2>1, <3>1 DEF IsRequest
    <2> QED  BY <2>2, <2>3
  <1>4. ~ Own(r)
    BY <1>1 DEF SnapshotsInv, Own
  <1>5. ~ (\E rows : Edit(rows))
    BY <1>1, <1>3 DEF Edit
  <1>6. ~ AddBuiltins /\ \A row \in Rows : ~ Put(row) /\ ~ Delete(row)
    BY <1>5 DEF AddBuiltins, Put, Delete
  <1>7. PICK q \in Requests : Create(q) \/ (\E s \in snapshots : Restore(q, s)) \/ Step(q)
    BY <1>2, <1>6 DEF SnapshotsNext, snapshotVars
  <1>8. q = r
    <2>1. ASSUME q # r PROVE req'[r].at = req[r].at
      <3>1. \A t : req' = [req EXCEPT ![q] = t] => req'[r] = req[r]
        BY <2>1 DEF SnapshotsInv
      <3>2. CASE Commit(q)
        BY <1>1, <1>3, <2>1, <3>2, DisturbedIs DEF Commit
      <3>3. CASE ~ Commit(q)
        <4>1. Own(q)
          BY <1>7, <3>3, OthersAreOwn
        <4> QED  BY <3>1, <4>1 DEF Own
      <3> QED  BY <3>2, <3>3
    <2> QED  BY <1>1, <2>1
  <1> QED  BY <1>4, <1>7, <1>8, OthersAreOwn

(* A snapshot during which nothing else is committed is the whole workspace,
   for any rows and however the statements of others fall between its reads
   (create_workspace_snapshot). *)
THEOREM SnapshotsAreWhole == SnapshotsSpec => SnapshotIsWorkspace
  <1>1. SnapshotsInv /\ [SnapshotsNext]_snapshotVars =>
          [\A s \in snapshots' \ snapshots : s.calm => s.items = ws']_snapshotVars
    <2> SUFFICES ASSUME SnapshotsInv, [SnapshotsNext]_snapshotVars, NEW s \in snapshots' \ snapshots, s.calm
                 PROVE  s.items = ws'
      OBVIOUS
    <2>1. PICK r \in Requests : Commit(r) /\ s.items = req[r].copy /\ s.calm = req[r].calm
      BY SnapshotsAreCommitted
    <2>2. Undisturbed(ws, Items(snapshots, req[r]), req[r]) /\ View(r) = Seen(ws, req[r])
      BY <2>1, RequestIs
    <2> QED  BY <2>1, <2>2 DEF Undisturbed, AtDocuments, Commit
  <1> QED
    BY <1>1, SnapshotsInitHasInv, SnapshotsNextKeepsInv, PTL DEF SnapshotsSpec, SnapshotIsWorkspace

(* Past the last table, what was restored is what was asked for. *)
LEMMA RestoredIsAll ==
  ASSUME NEW rows, NEW items, Typed(rows), Typed(items)
  PROVE  Restored(rows, items, 6)
           = {row \in items : row.type # "document" \/ Key(row) \in Keys(rows)}
             \cup {[row EXCEPT !.val = Stripped[row.val]] :
                     row \in {x \in items : x.type = "document" /\ Key(x) \notin Keys(rows)}}
  <1>1. \A row \in rows \cup items : row.type \in Before(6)
    BY BeforeAre DEF Typed
  <1>2. \A row \in OfType(items, "document") :
          Key(row) \in Keys(OfType(rows, "document")) <=> Key(row) \in Keys(rows)
    BY KeysAre DEF Keys, OfType
  <1>3. Restored(rows, items, 6)
          = {row \in items : row.type # "document"} \cup Recreated(rows, items)
    BY <1>1 DEF Restored
  <1>4. Recreated(rows, items)
          = {row \in items : row.type = "document" /\ Key(row) \in Keys(rows)}
            \cup {[row EXCEPT !.val = Stripped[row.val]] :
                    row \in {x \in items : x.type = "document" /\ Key(x) \notin Keys(rows)}}
    BY <1>2 DEF Recreated, OfType
  <1> QED  BY <1>3, <1>4

(* A restore during which nothing else is committed brings back every table as
   the snapshot has it, for any rows and any protected documents
   (restore_workspace_snapshot). *)
THEOREM RestoresAreComplete == SnapshotsSpec => RestoreIsComplete
  <1>1. SnapshotsInv /\ [SnapshotsNext]_snapshotVars =>
          [\A r \in Requests : RestoreCommits(r) /\ req[r].calm =>
             ws' = {row \in Snapshot(req[r].target).items :
                      row.type # "document" \/ Key(row) \in Keys(ws)}
                   \cup {[row EXCEPT !.val = Stripped[row.val]] :
                           row \in {x \in Snapshot(req[r].target).items :
                                      x.type = "document" /\ Key(x) \notin Keys(ws)}}]_snapshotVars
    <2> SUFFICES ASSUME SnapshotsInv, [SnapshotsNext]_snapshotVars, NEW r \in Requests,
                        RestoreCommits(r), req[r].calm
                 PROVE  ws' = {row \in Snapshot(req[r].target).items :
                                 row.type # "document" \/ Key(row) \in Keys(ws)}
                              \cup {[row EXCEPT !.val = Stripped[row.val]] :
                                      row \in {x \in Snapshot(req[r].target).items :
                                                 x.type = "document" /\ Key(x) \notin Keys(ws)}}
      OBVIOUS
    <2>1. PICK items : items = Items(snapshots, req[r])
      OBVIOUS
    <2>2. Commit(r) /\ req[r].target # NoRequest
      BY RestoresAreCommitted DEF RestoreCommits
    <2>3. /\ Undisturbed(ws, items, req[r]) /\ View(r) = Seen(ws, req[r])
          /\ Sound(ws) /\ Sound(items)
      BY <2>1, <2>2, RequestIs
    <2>4. ws' = Restored(ws, items, 6)
      BY <2>2, <2>3 DEF Commit, Undisturbed, AtDocuments
    <2>5. items = Snapshot(req[r].target).items
      BY <2>1, ItemsAreTargets
    <2> QED  BY <2>3, <2>4, <2>5, RestoredIsAll DEF Sound
  <1> QED
    BY <1>1, SnapshotsInitHasInv, SnapshotsNextKeepsInv, PTL DEF SnapshotsSpec, RestoreIsComplete

(* What a request has written is of the tables before the one it is at, and
   only requests under way hold anything. *)
LEMMA LocksAreBehind ==
  ASSUME SnapshotsInv, NEW q \in Requests, NEW key \in Held(q)
  PROVE  /\ Active(q)
         /\ req[q].at \in AtDocuments => key[1] = "document"
         /\ req[q].at = "flush" => req[q].type \in 2..5 /\ key[1] \in Before(req[q].type)
  <1>1. Proceeds(req[q])
    BY RequestIs
  <1>2. Keys({}) = {}
    BY DEF Keys
  <1>3. req[q].at \notin {"idle", "documents", "heads", "done", "failed"}
    BY <1>1, <1>2 DEF Held, Proceeds
  <1>4. key \in req[q].dels \/ \E row \in req[q].ins : key = Key(row)
    BY DEF Held, Keys
  <1>5. CASE req[q].at = "flush"
    BY <1>1, <1>3, <1>4, <1>5, KeysAre DEF Proceeds, Active, AtDocuments
  <1>6. CASE req[q].at \in AtDocuments
    BY <1>1, <1>3, <1>4, <1>6, KeysAre DEF Proceeds, Active, AtDocuments
  <1> QED  BY <1>3, <1>5, <1>6 DEF Active

(* A flush writes one table. *)
LEMMA FlushWritesTable ==
  ASSUME SnapshotsInv, NEW r \in Requests, req[r].at = "flush", NEW key \in Writes(r)
  PROVE  key[1] = Tables[req[r].type]
  <1>1. \A row \in req[r].found : row.type = Tables[req[r].type]
    BY RequestIs DEF Proceeds
  <1>2. key \in Keys(req[r].found) \/ (Tables[req[r].type] = "skill" /\ key \in Keys(Wanted(r, "skill")))
    BY Zenon DEF Writes
  <1>3. CASE key \in Keys(req[r].found)
    <2>1. PICK row \in req[r].found : key = Key(row)
      BY <1>3 DEF Keys
    <2> QED  BY <1>1, <2>1, KeysAre
  <1>4. CASE Tables[req[r].type] = "skill" /\ key \in Keys(Wanted(r, "skill"))
    <2>1. PICK row \in Wanted(r, "skill") : key = Key(row)
      BY <1>4 DEF Keys
    <2>2. row.type = "skill"
      BY <2>1 DEF Wanted, OfType
    <2> QED  BY <1>4, <2>1, <2>2, KeysAre
  <1> QED  BY <1>2, <1>3, <1>4

(* Tables are written in one order: of the requests at a flush, one that is at
   the last table waits for nobody who is at a flush, and those who are at
   their documents hold nothing else. *)
LEMMA SomebodyGoesOn ==
  ASSUME SnapshotsInv PROVE CirclesAreOfDocuments
  <1> SUFFICES ASSUME NEW a \in Requests, PastDocuments(a)
               PROVE  \E r \in Requests : PastDocuments(r) /\ ~Waits(r)
    BY DEF CirclesAreOfDocuments
  <1>1. CASE \E r \in Requests : PastDocuments(r) /\ req[r].at # "flush"
    <2>1. PICK r \in Requests : PastDocuments(r) /\ req[r].at # "flush"
      BY <1>1
    <2>2. req[r].at \notin {"delete", "update", "insert", "flush"}
      BY <2>1 DEF PastDocuments, AtDocuments
    <2>3. Writes(r) = {}
      BY <2>2, Zenon DEF Writes
    <2> QED  BY <2>1, <2>3 DEF Waits
  <1>2. CASE \A r \in Requests : PastDocuments(r) => req[r].at = "flush"
    <2>1. PICK types : types = {req[r].type : r \in {q \in Requests : req[q].at = "flush"}}
      OBVIOUS
    <2>2. types \subseteq 2..5 /\ types # {}
      <3>1. \A r \in Requests : req[r].at = "flush" => req[r].type \in 2..5
        BY RequestIs DEF Proceeds
      <3> QED  BY <1>2, <2>1, <3>1
    <2>3. PICK n \in types : \A m \in types : m <= n
      <3>1. \A m \in types : m \in {2, 3, 4, 5}
        BY <2>2
      <3>2. 5 \in types \/ (5 \notin types /\ 4 \in types)
            \/ (5 \notin types /\ 4 \notin types /\ 3 \in types) \/ types = {2}
        BY <2>2, <3>1
      <3> QED  BY <3>1, <3>2
    <2>4. PICK r \in Requests : req[r].at = "flush" /\ req[r].type = n
      BY <2>1, <2>3
    <2>5. ASSUME Waits(r) PROVE FALSE
      <3>1. PICK key \in Writes(r), q \in Requests : key \in Held(q)
        BY <2>5 DEF Waits, Locked
      <3>2. key[1] = Tables[n] /\ Tables[n] # "document"
        BY <2>2, <2>4, <3>1, FlushWritesTable, TablesAre
      <3>3. PastDocuments(q)
        BY <3>1, <3>2, LocksAreBehind DEF PastDocuments
      <3>4. req[q].at = "flush" /\ req[q].type \in 2..5 /\ key[1] \in Before(req[q].type)
        BY <1>2, <3>1, <3>3, LocksAreBehind
      <3>5. PICK i \in 1..req[q].type - 1 : Tables[i] = Tables[n]
        BY <3>2, <3>4 DEF Before
      <3>6. req[q].type <= n
        BY <2>1, <2>3, <3>4
      <3> QED  BY <2>2, <2>3, <3>4, <3>5, <3>6, TablesAre
    <2> QED  BY <2>4, <2>5 DEF Active, PastDocuments, AtDocuments
  <1> QED  BY <1>1, <1>2

(* However many snapshots and restores overlap, only at their documents can
   they wait for each other in a circle: of those past them, one waits for
   nobody (the order of the tables in restore_workspace_snapshot). *)
THEOREM OnlyDocumentsBlock == SnapshotsSpec => []CirclesAreOfDocuments
  <1> QED
    BY SnapshotsInitHasInv, SnapshotsNextKeepsInv, SomebodyGoesOn, PTL DEF SnapshotsSpec
-----------------------------------------------------------------------------
(* Induction over the lines of a text or of a patch, by the least-number
   principle of the library. *)
LEMMA LeastOf ==
  ASSUME NEW T, T \subseteq Nat, T # {}
  PROVE  \E n \in T : \A k \in T : n <= k
  <1>1. PICK R : R = {ss \in Nat \X Nat : ss[1] < ss[2]}
    OBVIOUS
  <1>2. IsWellFoundedOn(R, Nat)
    BY <1>1, NatLessThanWellFounded DEF OpToRel
  <1>3. T \in SUBSET Nat
    OBVIOUS
  <1>4. PICK n \in T : \A k \in T : ~(<<k, n>> \in R)
    BY <1>2, <1>3, WFMin
  <1>5. \A k \in T : ~(k < n)
    BY <1>1, <1>4
  <1> QED  BY <1>5

LEMMA ByInduction ==
  ASSUME NEW len \in Nat, NEW S, 0 \in S, \A n \in 1..len : n - 1 \in S => n \in S
  PROVE  \A n \in 0..len : n \in S
  <1> SUFFICES ASSUME NEW m \in 0..len, m \notin S PROVE FALSE
    OBVIOUS
  <1>1. PICK T : T = {n \in 0..len : n \notin S}
    OBVIOUS
  <1>2. T \subseteq Nat /\ T # {}
    BY <1>1
  <1>3. PICK n \in T : \A k \in T : n <= k
    BY <1>2, LeastOf
  <1>4. n \in 1..len /\ n - 1 \in 0..len /\ n - 1 \notin T
    BY <1>1, <1>2, <1>3
  <1> QED  BY <1>1, <1>3, <1>4

(* A function that is defined by recursion on 0..len exists, and there is one. *)
StepsIn(D, len, step) == len \in Nat /\ step \in [1..len -> [D -> D]]
LeadsOn(D, len, step, init, g) ==
  g \in [0..len -> D] /\ g[0] = init /\ \A n \in 1..len : g[n] = step[n][g[n - 1]]

LEMMA ByRecursion ==
  ASSUME NEW D, NEW init \in D, NEW len, NEW step, StepsIn(D, len, step)
  PROVE  \E g : LeadsOn(D, len, step, init, g)
  <1>0. len \in Nat /\ step \in [1..len -> [D -> D]]
    BY DEF StepsIn
  <1>1. PICK S : S = {n \in 0..len : \E g \in [0..n -> D] :
                        g[0] = init /\ \A m \in 1..n : g[m] = step[m][g[m - 1]]}
    OBVIOUS
  <1>2. 0 \in S
    <2>1. PICK g : g = [k \in 0..0 |-> init]
      OBVIOUS
    <2>2. g \in [0..0 -> D] /\ g[0] = init
      BY <2>1
    <2> QED  BY <1>0, <1>1, <2>2
  <1>3. ASSUME NEW n \in 1..len, n - 1 \in S PROVE n \in S
    <2>1. PICK k \in 0..len : k = n - 1 /\ n = k + 1
      BY <1>0
    <2>2. PICK g \in [0..k -> D] : g[0] = init /\ \A m \in 1..k : g[m] = step[m][g[m - 1]]
      BY <1>1, <1>3, <2>1
    <2>3. PICK next : next = step[n][g[k]]
      OBVIOUS
    <2>4. next \in D
      <3>1. g[k] \in D /\ step[n] \in [D -> D]
        BY <1>0, <2>2
      <3> QED  BY <2>3, <3>1
    <2>5. PICK h : h = [m \in 0..n |-> IF m = n THEN next ELSE g[m]]
      OBVIOUS
    <2>6. h \in [0..n -> D]
      BY <2>1, <2>4, <2>5
    <2>7. h[0] = init
      BY <2>1, <2>2, <2>5
    <2>8. ASSUME NEW m \in 1..n PROVE h[m] = step[m][h[m - 1]]
      <3>1. h[m - 1] = g[m - 1]
        BY <2>1, <2>5
      <3>2. CASE m = n
        BY <2>1, <2>3, <2>5, <3>1, <3>2
      <3>3. CASE m # n
        BY <2>1, <2>2, <2>5, <3>1, <3>3
      <3> QED  BY <3>2, <3>3
    <2> QED  BY <1>1, <2>6, <2>7, <2>8
  <1>4. \A n \in 0..len : n \in S
    BY <1>0, <1>2, <1>3, ByInduction
  <1>5. len \in S
    BY <1>0, <1>4
  <1> QED  BY <1>1, <1>5 DEF LeadsOn

-----------------------------------------------------------------------------
(* The state of a patch under way. *)
PatchState == [cursor : Nat, output : Seq(Lines), open : BOOLEAN,
               old_count : Nat, removed : Nat, ok : BOOLEAN]

LEMMA BetweenAreLines ==
  ASSUME NEW lines \in Seq(Lines), NEW from \in Nat, NEW to \in Nat
  PROVE  LinesBetween(lines, from, to) \in Seq(Lines)
  <1>1. PICK last \in Nat : last = (IF to < Len(lines) THEN to ELSE Len(lines)) /\ last <= Len(lines)
    OBVIOUS
  <1>2. SubSeq(lines, from + 1, last) \in Seq(Lines)
    <2>1. \A i \in from + 1..last : lines[i] \in Lines
      BY <1>1
    <2> QED  BY <2>1, SubSeqProperties
  <1> QED  BY <1>1, <1>2 DEF LinesBetween

LEMMA OpenIsState ==
  ASSUME NEW lines \in Seq(Lines), NEW s \in PatchState, NEW p \in PatchLine, p.tag = "@@"
  PROVE  OpenHunk(lines, s, p) \in PatchState
  <1>1. p.formed \in BOOLEAN /\ p.start \in Nat /\ p.count \in Nat
    BY DEF PatchLine
  <1>2. Target(p.start) \in Nat
    BY <1>1 DEF Target
  <1>3. PICK between \in Seq(Lines) : between = LinesBetween(lines, s.cursor, Target(p.start))
    BY <1>2, BetweenAreLines DEF PatchState
  <1>4. s.output \o between \in Seq(Lines)
    BY DEF PatchState
  <1>5. CountHolds(s) \in BOOLEAN
    BY DEF CountHolds
  <1> QED
    BY <1>1, <1>2, <1>3, <1>4, <1>5 DEF OpenHunk, PatchState

LEMMA HunkLineIs ==
  ASSUME NEW lines \in Seq(Lines), NEW s \in PatchState, NEW p \in PatchLine, p.tag # "@@"
  PROVE  /\ HunkLine(lines, s, p) \in PatchState
         /\ HunkLine(lines, s, p) =
              [cursor |-> IF InOld(p.tag) THEN s.cursor + 1 ELSE s.cursor,
               output |-> IF InNew(p.tag) THEN Append(s.output, p.line) ELSE s.output,
               open |-> s.open, old_count |-> s.old_count,
               removed |-> IF p.tag = "-" THEN s.removed + 1 ELSE s.removed,
               ok |-> /\ s.ok /\ p.tag \in {" ", "-", "+", "\\"}
                      /\ InOld(p.tag) => s.cursor < Len(lines) /\ lines[s.cursor + 1] = p.line]
  <1>1. p.line \in Lines
    BY DEF PatchLine
  <1>2. PICK good \in BOOLEAN :
          good = (/\ s.ok /\ p.tag \in {" ", "-", "+", "\\"}
                  /\ InOld(p.tag) => s.cursor < Len(lines) /\ lines[s.cursor + 1] = p.line)
    OBVIOUS
  <1>3. s.output \in Seq(Lines) /\ s.cursor \in Nat /\ s.removed \in Nat
        /\ s.open \in BOOLEAN /\ s.old_count \in Nat
    BY DEF PatchState
  <1>4. PICK output : output = IF InNew(p.tag) THEN Append(s.output, p.line) ELSE s.output
    OBVIOUS
  <1>5. output \in Seq(Lines)
    BY <1>1, <1>3, <1>4
  <1> DEFINE cursor == IF InOld(p.tag) THEN s.cursor + 1 ELSE s.cursor
  <1> DEFINE removed == IF p.tag = "-" THEN s.removed + 1 ELSE s.removed
  <1>6. cursor \in Nat /\ removed \in Nat
    <2>1. CASE InOld(p.tag) /\ p.tag = "-"
      BY <1>3, <2>1
    <2>2. CASE InOld(p.tag) /\ p.tag # "-"
      BY <1>3, <2>2
    <2>3. CASE ~InOld(p.tag) /\ p.tag = "-"
      BY <1>3, <2>3
    <2>4. CASE ~InOld(p.tag) /\ p.tag # "-"
      BY <1>3, <2>4
    <2> QED  BY <2>1, <2>2, <2>3, <2>4
  <1>7. HunkLine(lines, s, p) = [s EXCEPT !.ok = good, !.output = output, !.cursor = cursor,
                                          !.removed = removed]
    BY <1>2, <1>4, Zenon DEF HunkLine
  <1> HIDE DEF cursor, removed
  <1>8. HunkLine(lines, s, p) = [cursor |-> cursor, output |-> output, open |-> s.open,
                                 old_count |-> s.old_count, removed |-> removed, ok |-> good]
    BY <1>7 DEF PatchState
  <1>9. HunkLine(lines, s, p) \in PatchState
    BY <1>3, <1>5, <1>6, <1>8 DEF PatchState
  <1> QED  BY <1>2, <1>4, <1>8, <1>9 DEF cursor, removed

LEMMA LineIsDone ==
  ASSUME NEW lines \in Seq(Lines), NEW s \in PatchState, NEW p \in PatchLine
  PROVE  LineDone(lines, s, p) \in PatchState
  BY OpenIsState, HunkLineIs DEF LineDone

LEMMA StartIsState == Start \in PatchState
  BY DEF Start, PatchState

(* Run is the last of the states that the lines of the patch lead through. *)
LEMMA RunIsLast ==
  ASSUME NEW lines \in Seq(Lines), NEW patch \in Seq(PatchLine)
  PROVE  \E g \in [0..Len(patch) -> PatchState] :
           /\ g[0] = Start
           /\ \A n \in 1..Len(patch) : g[n] = LineDone(lines, g[n - 1], patch[n])
           /\ Run(lines, patch) = g[Len(patch)]
  <1>1. PICK len \in Nat : len = Len(patch)
    OBVIOUS
  <1>2. \A n \in 1..len : patch[n] \in PatchLine
    BY <1>1
  <1>3. PICK step : step = [n \in 1..len |-> [s \in PatchState |-> LineDone(lines, s, patch[n])]]
    OBVIOUS
  <1>4. step \in [1..len -> [PatchState -> PatchState]]
    <2>1. ASSUME NEW n \in 1..len PROVE step[n] \in [PatchState -> PatchState]
      <3>1. \A s \in PatchState : LineDone(lines, s, patch[n]) \in PatchState
        BY <1>2, LineIsDone
      <3>2. step[n] = [s \in PatchState |-> LineDone(lines, s, patch[n])]
        BY <1>3
      <3> QED  BY <3>1, <3>2
    <2> QED  BY <1>3, <2>1
  <1>5. PICK g \in [0..len -> PatchState] :
          g[0] = Start /\ \A n \in 1..len : g[n] = step[n][g[n - 1]]
    <2>1. StepsIn(PatchState, len, step)
      BY <1>4 DEF StepsIn
    <2>2. PICK g : LeadsOn(PatchState, len, step, Start, g)
      BY <2>1, StartIsState, ByRecursion
    <2> QED  BY <2>2 DEF LeadsOn
  <1>6. ASSUME NEW n \in 1..len PROVE g[n] = LineDone(lines, g[n - 1], patch[n])
    <2>1. n - 1 \in 0..len
      OBVIOUS
    <2>2. g[n - 1] \in PatchState
      BY <2>1
    <2> QED  BY <1>3, <1>5, <2>2
  <1>7. g = [n \in 0..len |-> IF n = 0 THEN Start ELSE LineDone(lines, g[n - 1], patch[n])]
    BY <1>5, <1>6
  <1>8. PICK f : /\ f = [n \in 0..len |-> IF n = 0 THEN Start ELSE LineDone(lines, f[n - 1], patch[n])]
                 /\ Run(lines, patch) = f[len]
    BY <1>1, <1>7 DEF Run
  <1>9. \A n \in 1..len : f[n] = LineDone(lines, f[n - 1], patch[n])
    BY <1>8
  <1>10. PICK S : S = {n \in 0..len : f[n] = g[n]}
    OBVIOUS
  <1>11. 0 \in S
    BY <1>5, <1>8, <1>10
  <1>12. \A n \in 1..len : n - 1 \in S => n \in S
    BY <1>6, <1>9, <1>10
  <1>13. \A n \in 0..len : n \in S
    BY <1>11, <1>12, ByInduction
  <1>14. Run(lines, patch) = g[len]
    BY <1>8, <1>10, <1>13
  <1> QED  BY <1>1, <1>5, <1>6, <1>14, Zenon

(* The states that a patch leads through are those of any patch it begins. *)
LEMMA RunGoesOn ==
  ASSUME NEW lines \in Seq(Lines), NEW patch \in Seq(PatchLine), NEW p \in PatchLine
  PROVE  /\ Run(lines, patch) \in PatchState
         /\ Run(lines, Append(patch, p)) = LineDone(lines, Run(lines, patch), p)
  <1>1. PICK longer : longer = Append(patch, p) /\ longer \in Seq(PatchLine)
    BY AppendProperties
  <1>2. PICK len \in Nat : len = Len(patch)
    OBVIOUS
  <1>3. Len(longer) = len + 1 /\ longer[len + 1] = p /\ \A n \in 1..len : longer[n] = patch[n]
    BY <1>1, <1>2
  <1>4. PICK g \in [0..len -> PatchState] :
          /\ g[0] = Start
          /\ \A n \in 1..len : g[n] = LineDone(lines, g[n - 1], patch[n])
          /\ Run(lines, patch) = g[len]
    BY <1>2, RunIsLast
  <1>5. PICK h \in [0..Len(longer) -> PatchState] :
          /\ h[0] = Start
          /\ \A n \in 1..Len(longer) : h[n] = LineDone(lines, h[n - 1], longer[n])
          /\ Run(lines, longer) = h[Len(longer)]
    BY RunIsLast
  <1>6. \A n \in 0..len : g[n] = h[n]
    <2>1. PICK S : S = {n \in 0..len : g[n] = h[n]}
      OBVIOUS
    <2>2. 0 \in S
      BY <1>4, <1>5, <2>1
    <2>3. \A n \in 1..len : n - 1 \in S => n \in S
      <3> TAKE n \in 1..len
      <3> HAVE n - 1 \in S
      <3>1. g[n - 1] = h[n - 1]
        BY <2>1
      <3>2. g[n] = LineDone(lines, g[n - 1], patch[n])
        BY <1>4
      <3>3. h[n] = LineDone(lines, h[n - 1], longer[n]) /\ longer[n] = patch[n]
        BY <1>3, <1>5
      <3> QED  BY <2>1, <3>1, <3>2, <3>3
    <2> QED  BY <2>1, <2>2, <2>3, ByInduction
  <1>7. Run(lines, longer) = LineDone(lines, h[len], p)
    BY <1>3, <1>5
  <1> QED  BY <1>1, <1>4, <1>6, <1>7

LEMMA RunStarts ==
  ASSUME NEW lines \in Seq(Lines)
  PROVE  Run(lines, <<>>) = Start
  <1>1. <<>> \in Seq(PatchLine) /\ Len(<<>>) = 0
    OBVIOUS
  <1>2. PICK g : g[0] = Start /\ Run(lines, <<>>) = g[Len(<<>>)]
    BY <1>1, RunIsLast
  <1> QED  BY <1>1, <1>2

-----------------------------------------------------------------------------
(* The ledger. RowsEnd is the first line from i on that has no cells. *)
LEMMA RowsEndIs ==
  ASSUME NEW lines \in Seq(Lines), NEW i \in 1..Len(lines) + 1
  PROVE  /\ RowsEnd(lines, i) \in i..Len(lines) + 1
         /\ RowsEnd(lines, i) = Len(lines) + 1 \/ Cells[lines[RowsEnd(lines, i)]] = <<>>
         /\ \A j \in i..RowsEnd(lines, i) - 1 : Cells[lines[j]] # <<>>
  <1>1. PICK T : T = {e \in i..Len(lines) + 1 : e = Len(lines) + 1 \/ Cells[lines[e]] = <<>>}
    OBVIOUS
  <1>2. T \subseteq Nat /\ T # {}
    BY <1>1
  <1>3. PICK e \in T : \A k \in T : e <= k
    BY <1>2, LeastOf
  <1>4. \A j \in i..e - 1 : Cells[lines[j]] # <<>>
    BY <1>1, <1>2, <1>3
  <1>5. \E x \in i..Len(lines) + 1 : /\ x = Len(lines) + 1 \/ Cells[lines[x]] = <<>>
                                     /\ \A j \in i..x - 1 : Cells[lines[j]] # <<>>
    BY <1>1, <1>4
  <1> QED  BY <1>5 DEF RowsEnd

LEMMA TableHasCells ==
  ASSUME NEW lines \in Seq(Lines), NEW i \in 1..Len(lines), StartsTable(lines, i)
  PROVE  i + 1 \in 1..Len(lines) /\ Cells[lines[i]] # <<>> /\ Cells[lines[i + 1]] # <<>>
  BY DEF StartsTable, IsSeparator

(* The state of the pass: the tables that begin before the line it is at. *)
PassState == [i : Nat, tables : SUBSET Nat]
PassHolds(lines, n, s) ==
  /\ s \in PassState
  /\ s.i \in 1..Len(lines) + 1
  /\ s.i >= Len(lines) \/ s.i > n
  /\ s.tables = {h \in 1..s.i - 1 : IsHeading(lines, h)}
  /\ s.i <= Len(lines) => \A j \in Block(lines, s.i) : j < s.i => ~StartsTable(lines, j)

LEMMA PassStarts ==
  ASSUME NEW lines \in Seq(Lines)
  PROVE  PassHolds(lines, 0, [i |-> 1, tables |-> {}])
  BY DEF PassHolds, PassState, Block

LEMMA PassGoesOn ==
  ASSUME NEW lines \in Seq(Lines), NEW n \in Nat, NEW s, PassHolds(lines, n, s)
  PROVE  PassHolds(lines, n + 1, Scanned(lines, s))
  <1>1. PICK i \in 1..Len(lines) + 1 : i = s.i
    BY DEF PassHolds
  <1>2. s \in PassState /\ (i >= Len(lines) \/ i > n)
        /\ s.tables = {h \in 1..i - 1 : IsHeading(lines, h)}
        /\ (i <= Len(lines) => \A j \in Block(lines, i) : j < i => ~StartsTable(lines, j))
    BY <1>1 DEF PassHolds
  <1>3. CASE i >= Len(lines)
    BY <1>1, <1>2, <1>3 DEF PassHolds, Scanned
  <1>4. CASE i < Len(lines) /\ StartsTable(lines, i)
    <2>1. i \in 1..Len(lines)
      BY <1>4
    <2>2. i + 1 \in 1..Len(lines) /\ Cells[lines[i]] # <<>> /\ Cells[lines[i + 1]] # <<>>
      BY <1>4, <2>1, TableHasCells
    <2>3. i + 2 \in 1..Len(lines) + 1
      BY <2>2
    <2>4. PICK e : e = RowsEnd(lines, i + 2)
      OBVIOUS
    <2>5. /\ e \in i + 2..Len(lines) + 1
          /\ e = Len(lines) + 1 \/ Cells[lines[e]] = <<>>
          /\ \A j \in i + 2..e - 1 : Cells[lines[j]] # <<>>
      BY <2>3, <2>4, RowsEndIs
    <2>6. Scanned(lines, s) = [i |-> e, tables |-> s.tables \cup {i}]
      BY <1>1, <1>4, <2>4 DEF Scanned
    <2>7. IsHeading(lines, i)
      BY <1>2, <1>4 DEF IsHeading
    <2>8. ASSUME NEW h \in i + 1..e - 1 PROVE ~IsHeading(lines, h)
      <3>1. \A m \in i..h : Cells[lines[m]] # <<>>
        BY <2>2, <2>5
      <3>2. i \in Block(lines, h)
        BY <2>1, <3>1 DEF Block
      <3>3. i < h
        BY <2>8
      <3> QED  BY <1>4, <3>2, <3>3 DEF IsHeading
    <2>9. s.tables \cup {i} = {h \in 1..e - 1 : IsHeading(lines, h)}
      BY <1>2, <2>5, <2>7, <2>8
    <2>10. e <= Len(lines) => \A j \in Block(lines, e) : ~(j < e)
      <3> SUFFICES ASSUME e <= Len(lines), NEW j \in Block(lines, e), j < e PROVE FALSE
        OBVIOUS
      <3>1. e \in j..e /\ j \in DOMAIN lines
        BY <2>5 DEF Block
      <3>2. Cells[lines[e]] # <<>>
        BY <3>1 DEF Block
      <3>3. e # Len(lines) + 1
        BY <2>5
      <3> QED  BY <2>5, <3>2, <3>3
    <2>11. [i |-> e, tables |-> s.tables \cup {i}] \in PassState
      BY <1>2, <2>5 DEF PassState
    <2>12. e \in 1..Len(lines) + 1 /\ (e >= Len(lines) \/ e > n + 1)
      BY <1>2, <2>5
    <2>13. PICK t : t = [i |-> e, tables |-> s.tables \cup {i}]
      OBVIOUS
    <2>14. t.i = e /\ t.tables = s.tables \cup {i} /\ t \in PassState /\ t = Scanned(lines, s)
      BY <2>6, <2>11, <2>13
    <2>15. PassHolds(lines, n + 1, t)
      BY <2>9, <2>10, <2>12, <2>14 DEF PassHolds
    <2> QED  BY <2>14, <2>15
  <1>5. CASE i < Len(lines) /\ ~StartsTable(lines, i)
    <2>1. Scanned(lines, s) = [i |-> i + 1, tables |-> s.tables]
      <3>1. Scanned(lines, s) = [s EXCEPT !.i = s.i + 1]
        BY <1>1, <1>5 DEF Scanned
      <3> QED  BY <1>1, <1>2, <3>1 DEF PassState
    <2>2. ~IsHeading(lines, i)
      BY <1>5 DEF IsHeading
    <2>3. s.tables = {h \in 1..i : IsHeading(lines, h)}
      BY <1>2, <2>2
    <2>4. ASSUME NEW j \in Block(lines, i + 1), j < i + 1 PROVE ~StartsTable(lines, j)
      <3>1. CASE j = i
        BY <1>5, <3>1
      <3>2. CASE j # i
        <4>1. j \in Block(lines, i) /\ j < i
          BY <2>4, <3>2 DEF Block
        <4> QED  BY <1>2, <1>5, <4>1
      <3> QED  BY <3>1, <3>2
    <2>5. [i |-> i + 1, tables |-> s.tables] \in PassState
      BY <1>2 DEF PassState
    <2>6. i + 1 \in 1..Len(lines) + 1 /\ (i + 1 >= Len(lines) \/ i + 1 > n + 1) /\ i + 1 - 1 = i
      BY <1>2, <1>5
    <2>7. PICK t : t = [i |-> i + 1, tables |-> s.tables]
      OBVIOUS
    <2>8. t.i = i + 1 /\ t.tables = s.tables /\ t \in PassState /\ t = Scanned(lines, s)
      BY <2>1, <2>5, <2>7
    <2> QED  BY <2>3, <2>4, <2>6, <2>8 DEF PassHolds
  <1> QED  BY <1>3, <1>4, <1>5

LEMMA ScannedIsState ==
  ASSUME NEW lines \in Seq(Lines), NEW s \in PassState
  PROVE  Scanned(lines, s) \in PassState
  <1>1. CASE s.i >= Len(lines)
    BY <1>1 DEF Scanned
  <1>2. CASE s.i < Len(lines) /\ StartsTable(lines, s.i)
    <2>1. s.i + 2 \in 1..Len(lines) + 1
      BY <1>2 DEF PassState
    <2>2. RowsEnd(lines, s.i + 2) \in Nat
      BY <2>1, RowsEndIs
    <2>3. Scanned(lines, s) = [i |-> RowsEnd(lines, s.i + 2), tables |-> s.tables \cup {s.i}]
      BY <1>2 DEF Scanned, PassState
    <2> QED  BY <2>2, <2>3 DEF PassState
  <1>3. CASE s.i < Len(lines) /\ ~StartsTable(lines, s.i)
    <2>1. Scanned(lines, s) = [s EXCEPT !.i = s.i + 1]
      BY <1>3 DEF Scanned, PassState
    <2> QED  BY <2>1 DEF PassState
  <1> QED  BY <1>1, <1>2, <1>3 DEF PassState

(* The pass finds the headings that a reader sees. *)
LEMMA TablesAreHeadings ==
  ASSUME NEW lines \in Seq(Lines)
  PROVE  TablesFrom(lines) = {h \in DOMAIN lines : IsHeading(lines, h)}
  <1>1. PICK len \in Nat : len = Len(lines)
    OBVIOUS
  <1>2. PICK first : first = [i |-> 1, tables |-> {}]
    OBVIOUS
  <1>3. PassHolds(lines, 0, first) /\ first \in PassState
    BY <1>2, PassStarts DEF PassHolds
  <1>4. PICK step : step = [n \in 1..len |-> [s \in PassState |-> Scanned(lines, s)]]
    OBVIOUS
  <1>5. StepsIn(PassState, len, step)
    <2>1. [s \in PassState |-> Scanned(lines, s)] \in [PassState -> PassState]
      BY ScannedIsState
    <2> QED  BY <1>4, <2>1 DEF StepsIn
  <1>6. PICK g : LeadsOn(PassState, len, step, first, g)
    BY <1>3, <1>5, ByRecursion
  <1>7. g \in [0..len -> PassState] /\ g[0] = first /\ \A n \in 1..len : g[n] = step[n][g[n - 1]]
    BY <1>6 DEF LeadsOn
  <1>8. ASSUME NEW n \in 1..len PROVE g[n] = Scanned(lines, g[n - 1])
    <2>1. n - 1 \in 0..len
      OBVIOUS
    <2>2. g[n - 1] \in PassState
      BY <1>7, <2>1
    <2> QED  BY <1>4, <1>7, <2>2
  <1>9. g = [n \in 0..len |-> IF n = 0 THEN first ELSE Scanned(lines, g[n - 1])]
    BY <1>7, <1>8
  <1>10. PICK f : /\ f = [n \in 0..len |-> IF n = 0 THEN first ELSE Scanned(lines, f[n - 1])]
                  /\ TablesFrom(lines) = f[len].tables
    BY <1>1, <1>2, <1>9 DEF TablesFrom
  <1>11. \A n \in 1..len : f[n] = Scanned(lines, f[n - 1])
    BY <1>10
  <1>12. PICK S : S = {n \in 0..len : PassHolds(lines, n, f[n])}
    OBVIOUS
  <1>13. 0 \in S
    BY <1>3, <1>10, <1>12
  <1>14. ASSUME NEW n \in 1..len, n - 1 \in S PROVE n \in S
    <2>1. PICK k \in Nat : k = n - 1 /\ k + 1 = n
      OBVIOUS
    <2>2. PassHolds(lines, k, f[k])
      BY <1>12, <1>14, <2>1
    <2>3. PassHolds(lines, k + 1, Scanned(lines, f[k]))
      BY <2>2, PassGoesOn
    <2>4. f[n] = Scanned(lines, f[k])
      BY <1>11, <2>1
    <2> QED  BY <1>12, <2>1, <2>3, <2>4
  <1>15. \A n \in 0..len : n \in S
    BY <1>13, <1>14, ByInduction
  <1>16. PassHolds(lines, len, f[len])
    BY <1>12, <1>15
  <1>17. PICK s : s = f[len]
    OBVIOUS
  <1>18. s.i \in 1..len + 1 /\ s.i >= len /\ s.tables = {h \in 1..s.i - 1 : IsHeading(lines, h)}
    BY <1>1, <1>16, <1>17 DEF PassHolds
  <1>19. len \in 1..len => ~IsHeading(lines, len)
    BY <1>1 DEF IsHeading, StartsTable
  <1>20. s.tables = {h \in 1..len : IsHeading(lines, h)}
    BY <1>18, <1>19
  <1> QED  BY <1>1, <1>10, <1>17, <1>20

(* The rows of a table are the rest of its block. *)
LEMMA RowsAreBlock ==
  ASSUME NEW lines \in Seq(Lines), NEW h \in DOMAIN lines, StartsTable(lines, h)
  PROVE  h + 2..RowsEnd(lines, h + 2) - 1 = {m \in Block(lines, h) : m > h + 1}
  <1>1. h \in 1..Len(lines)
    OBVIOUS
  <1>2. h + 1 \in 1..Len(lines) /\ Cells[lines[h]] # <<>> /\ Cells[lines[h + 1]] # <<>>
    BY <1>1, TableHasCells
  <1>3. h + 2 \in 1..Len(lines) + 1
    BY <1>2
  <1>4. PICK e : e = RowsEnd(lines, h + 2)
    OBVIOUS
  <1>5. /\ e \in h + 2..Len(lines) + 1
        /\ e = Len(lines) + 1 \/ Cells[lines[e]] = <<>>
        /\ \A j \in h + 2..e - 1 : Cells[lines[j]] # <<>>
    BY <1>3, <1>4, RowsEndIs
  <1>6. ASSUME NEW m \in h + 2..e - 1 PROVE m \in Block(lines, h) /\ m > h + 1
    <2>1. m \in DOMAIN lines /\ m > h + 1
      BY <1>1, <1>5, <1>6
    <2>2. \A x \in h..m \cup m..h : Cells[lines[x]] # <<>>
      BY <1>1, <1>2, <1>5, <2>1
    <2> QED  BY <2>1, <2>2 DEF Block
  <1>7. ASSUME NEW m \in Block(lines, h), m > h + 1 PROVE m \in h + 2..e - 1
    <2>1. m \in 1..Len(lines) /\ \A x \in h..m : Cells[lines[x]] # <<>>
      BY DEF Block
    <2>2. CASE m >= e
      <3>1. e \in h..m /\ e # Len(lines) + 1
        BY <1>1, <1>5, <2>1, <2>2
      <3> QED  BY <1>5, <2>1, <3>1
    <2> QED  BY <1>1, <1>5, <1>7, <2>1, <2>2
  <1> QED  BY <1>4, <1>6, <1>7

(* A text that passes the check is a ledger as a reader sees it. *)
ReadAsLedger(lines) ==
  LET rows == SymbolRows(lines)
      symbol(r) == Cells[lines[r[2]]][SymbolColumn(lines[r[1]])]
  IN  /\ \E h \in DOMAIN lines : IsHeading(lines, h) /\ Symbol \in ToSet(Cells[lines[h]])
      /\ \A r \in rows : /\ Len(Cells[lines[r[2]]]) = Len(Cells[lines[r[1]]])
                         /\ symbol(r) # ""
                         /\ \A q \in rows : symbol(q) = symbol(r) => q = r

LEMMA ValidIsReadAsLedger ==
  ASSUME NEW lines \in Seq(Lines), ContentValid(lines)
  PROVE  ReadAsLedger(lines)
  <1>1. PICK headings : headings = {h \in TablesFrom(lines) : Symbol \in ToSet(Cells[lines[h]])}
    OBVIOUS
  <1>2. PICK rows : rows = UNION {{<<h, j>> : j \in h + 2..RowsEnd(lines, h + 2) - 1} : h \in headings}
    OBVIOUS
  <1>3. headings = {h \in DOMAIN lines : IsHeading(lines, h) /\ Symbol \in ToSet(Cells[lines[h]])}
    BY <1>1, TablesAreHeadings
  <1>4. rows = SymbolRows(lines)
    <2>1. \A h \in headings : h + 2..RowsEnd(lines, h + 2) - 1 = {m \in Block(lines, h) : m > h + 1}
      BY <1>3, RowsAreBlock DEF IsHeading
    <2>2. {{<<h, j>> : j \in h + 2..RowsEnd(lines, h + 2) - 1} : h \in headings}
            = {{<<h, j>> : j \in {m \in Block(lines, h) : m > h + 1}} : h \in headings}
      BY <2>1
    <2> QED  BY <1>2, <1>3, <2>2, Zenon DEF SymbolRows
  <1> DEFINE symbol(r) == Cells[lines[r[2]]][SymbolColumn(lines[r[1]])]
  <1>5. /\ headings # {}
        /\ \A r \in rows : Len(Cells[lines[r[2]]]) = Len(Cells[lines[r[1]]])
        /\ \A r \in rows : symbol(r) # ""
        /\ \A r, q \in rows : symbol(r) = symbol(q) => r = q
    BY <1>1, <1>2, Zenon DEF ContentValid
  <1>6. \E h \in DOMAIN lines : IsHeading(lines, h) /\ Symbol \in ToSet(Cells[lines[h]])
    BY <1>3, <1>5
  <1> HIDE DEF symbol
  <1>7. \A r \in rows : /\ Len(Cells[lines[r[2]]]) = Len(Cells[lines[r[1]]])
                        /\ symbol(r) # ""
                        /\ \A q \in rows : symbol(q) = symbol(r) => q = r
    BY <1>5, Zenon
  <1> QED  BY <1>4, <1>6, <1>7, Zenon DEF ReadAsLedger, symbol

-----------------------------------------------------------------------------
(* Texts. *)
LEMMA JoinedIsText ==
  ASSUME NEW lines \in Seq(Lines), NEW nl \in BOOLEAN
  PROVE  IsText(Joined(lines, nl))
  <1>1. CASE lines = <<>> \/ lines = <<Empty>>
    BY <1>1 DEF Joined, NoText, IsText
  <1>2. CASE lines # <<>> /\ lines # <<Empty>> /\ (nl \/ Last(lines) # Empty)
    BY <1>2 DEF Joined, IsText
  <1>3. CASE lines # <<>> /\ lines # <<Empty>> /\ ~nl /\ Last(lines) = Empty
    <2>1. Joined(lines, nl) = [lines |-> Front(lines), nl |-> TRUE]
      BY <1>3 DEF Joined
    <2>2. Len(lines) > 1
      <3>1. PICK len \in Nat : len = Len(lines)
        OBVIOUS
      <3>2. len # 0
        BY <1>3, <3>1
      <3>3. len # 1
        <4> SUFFICES ASSUME len = 1 PROVE FALSE
          OBVIOUS
        <4>1. lines[1] = Empty
          BY <1>3, <3>1 DEF Last
        <4>2. lines = <<lines[1]>>
          BY <3>1
        <4> QED  BY <1>3, <4>1, <4>2
      <3> QED  BY <3>1, <3>2, <3>3
    <2>3. Front(lines) \in Seq(Lines) /\ Len(Front(lines)) = Len(lines) - 1
      BY <2>2 DEF Front
    <2>4. Front(lines) # <<>>
      BY <2>2, <2>3
    <2> QED  BY <2>1, <2>3, <2>4 DEF IsText
  <1> QED  BY <1>1, <1>2, <1>3, Zenon DEF Joined

LEMMA RunIsState ==
  ASSUME NEW lines \in Seq(Lines), NEW patch \in Seq(PatchLine)
  PROVE  Run(lines, patch) \in PatchState
  <1>1. PICK g \in [0..Len(patch) -> PatchState] : Run(lines, patch) = g[Len(patch)]
    BY RunIsLast
  <1> QED  BY <1>1

LEMMA PatchedIsText ==
  ASSUME NEW text, IsText(text), NEW patch \in Seq(PatchLine)
  PROVE  IsText(Patched(text, patch))
  <1>1. text.lines \in Seq(Lines) /\ text.nl \in BOOLEAN
    BY DEF IsText
  <1>2. PICK s \in PatchState : s = Run(text.lines, patch)
    BY <1>1, RunIsState
  <1>3. PICK rest \in Seq(Lines) : rest = LinesBetween(text.lines, s.cursor, Len(text.lines))
    <2>1. s.cursor \in Nat /\ Len(text.lines) \in Nat
      BY <1>1 DEF PatchState
    <2>2. LinesBetween(text.lines, s.cursor, Len(text.lines)) \in Seq(Lines)
      BY <1>1, <2>1, BetweenAreLines
    <2> QED  BY <2>2
  <1>4. s.output \o rest \in Seq(Lines)
    BY DEF PatchState
  <1>5. IsText(Joined(s.output \o rest, text.nl))
    BY <1>1, <1>4, JoinedIsText
  <1> QED  BY <1>2, <1>3, <1>5 DEF Patched

-----------------------------------------------------------------------------
(* What an edit leaves behind: the text is a text, a ledger passes the check,
   and the record of the edit says how the text came from the one before. *)
EditIsTrue ==
  edit # None =>
    /\ IsText(edit.before)
    /\ edit.asked # None =>
         /\ edit.asked \in Patches
         /\ Applies(edit.before, edit.asked)
         /\ doc = Patched(edit.before, edit.asked)
    /\ edit.patch_text # <<>> =>
         \E kept \in Pairings(edit.before.lines, doc.lines) :
           edit.patch_text = Diff(edit.before.lines, doc.lines, kept)

EditInv ==
  /\ IsText(doc)
  /\ ledger => ContentValid(doc.lines)
  /\ EditIsTrue

LEMMA WriteIsTrue ==
  ASSUME EditInv, NEW text, NEW asked, IsText(text), Write(text, asked),
         asked # None => asked \in Patches /\ Applies(doc, asked) /\ text = Patched(doc, asked)
  PROVE  EditInv'
  <1>1. PICK kept \in Pairings(doc.lines, text.lines) :
          edit' = [before |-> doc, asked |-> asked,
                   patch_text |-> IF text = doc THEN <<>> ELSE Diff(doc.lines, text.lines, kept)]
    BY DEF Write
  <1>2. /\ doc' = text /\ ledger' = ledger
        /\ ledger => ContentValid(text.lines)
    BY DEF Write
  <1>3. PICK diff : diff = (IF text = doc THEN <<>> ELSE Diff(doc.lines, text.lines, kept))
    OBVIOUS
  <1>4. edit' = [before |-> doc, asked |-> asked, patch_text |-> diff]
    BY <1>1, <1>3
  <1>5. edit'.before = doc /\ edit'.asked = asked /\ edit'.patch_text = diff
    BY <1>4
  <1>6. diff # <<>> => diff = Diff(doc.lines, text.lines, kept)
    BY <1>3
  <1>7. EditIsTrue'
    BY <1>1, <1>2, <1>5, <1>6 DEF EditInv, EditIsTrue
  <1> QED  BY <1>2, <1>7 DEF EditInv

LEMMA EditStarts == EditInit => EditInv
  <1>1. ASSUME EditInit PROVE EditInv
    <2>1. IsText(doc)
      BY <1>1, PatchAssumption DEF EditInit
    <2> QED  BY <1>1, <2>1 DEF EditInit, EditInv, EditIsTrue
  <1> QED  BY <1>1

LEMMA EditGoesOn == EditInv /\ [EditNext]_editVars => EditInv'
  <1> SUFFICES ASSUME EditInv, [EditNext]_editVars PROVE EditInv'
    OBVIOUS
  <1>1. ASSUME NEW text \in Texts, UserUpdate(text) PROVE EditInv'
    <2>1. IsText(text) /\ Write(text, None)
      BY <1>1, PatchAssumption DEF UserUpdate
    <2> QED  BY <2>1, WriteIsTrue
  <1>2. ASSUME NEW text \in Texts, AgentReplace(text) PROVE EditInv'
    <2>1. IsText(text) /\ Write(text, None)
      BY <1>2, PatchAssumption DEF AgentReplace
    <2> QED  BY <2>1, WriteIsTrue
  <1>3. ASSUME NEW patch \in Patches, AgentPatch(patch) PROVE EditInv'
    <2>1. Applies(doc, patch) /\ Write(Patched(doc, patch), patch)
      BY <1>3 DEF AgentPatch
    <2>2. patch \in Seq(PatchLine)
      BY PatchAssumption
    <2>3. IsText(Patched(doc, patch))
      BY <2>2, PatchedIsText DEF EditInv
    <2> QED  BY <2>1, <2>3, WriteIsTrue
  <1>4. CASE UNCHANGED editVars
    BY <1>4 DEF editVars, EditInv, EditIsTrue
  <1> QED  BY <1>1, <1>2, <1>3, <1>4 DEF EditNext

(* However a document is edited (update_working_document, apply_document_patch),
   its text is one that splitlines can give, a ledger has passed the check, and
   what is recorded of the edit is true: the text it began with, that the patch
   applied to it and gave the new text, and a diff of one from the other. *)
THEOREM EditsAreTrue == EditSpec => []EditInv
  BY EditStarts, EditGoesOn, PTL DEF EditSpec

(* However the working ledger is edited, by the user, by a replacement or by a
   patch of the agent (update_working_document with validate_document_content),
   it keeps a table of symbols whose rows are whole and whose symbols are there
   once, as a reader finds them who looks at whole blocks of the text. *)
THEOREM LedgerStaysWhole == EditSpec => []LedgerListsSymbolsOnce
  <1>1. ASSUME EditInv PROVE LedgerListsSymbolsOnce
    <2> SUFFICES ASSUME ledger PROVE ReadAsLedger(doc.lines)
      BY DEF LedgerListsSymbolsOnce, ReadAsLedger
    <2>1. doc.lines \in Seq(Lines) /\ ContentValid(doc.lines)
      BY <1>1 DEF EditInv, IsText
    <2> QED  BY <2>1, ValidIsReadAsLedger
  <1> QED  BY <1>1, EditsAreTrue, PTL

-----------------------------------------------------------------------------
(* Pieces of a new text, in the order in which they stand in it. *)
Ascends(q) == \A i, j \in DOMAIN q : i < j => Precedes(q[i], q[j])

(* The first n elements of q number the elements of T. *)
Numbers(q, n, T) ==
  /\ n \in Nat
  /\ \A i, j \in 1..n : i # j => q[i] # q[j]
  /\ \A j \in 1..n : q[j] \in T
  /\ \A t \in T : \E j \in 1..n : q[j] = t

LEMMA NumbersCount ==
  ASSUME NEW q, NEW n, NEW T, Numbers(q, n, T)
  PROVE  IsFiniteSet(T) /\ Cardinality(T) = n
  <1>2. PICK f : f = [j \in 1..n |-> q[j]]
    OBVIOUS
  <1>3. f \in Bijection(1..n, T)
    <2>1. f \in [1..n -> T]
      BY <1>2 DEF Numbers
    <2>2. \A i, j \in 1..n : f[i] = f[j] => i = j
      BY <1>2 DEF Numbers
    <2>3. \A t \in T : \E i \in 1..n : f[i] = t
      BY <1>2 DEF Numbers
    <2> QED  BY <2>1, <2>2, <2>3, Fun_IsBij
  <1>4. ExistsBijection(1..n, T)
    BY <1>3, Fun_ExistsBij
  <1>5. IsFiniteSet(1..n) /\ Cardinality(1..n) = n
    BY FS_Interval DEF Numbers
  <1> QED  BY <1>4, <1>5, FS_Bijection

Lists(q, P) ==
  /\ P \subseteq Nat \X Nat
  /\ q \in Seq(Nat \X Nat)
  /\ Ascends(q)
  /\ \A i \in 1..Len(q) : q[i] \in P
  /\ \A x \in P : \E i \in 1..Len(q) : q[i] = x

(* A piece that i - 1 pieces precede is the i-th. *)
LEMMA RankIs ==
  ASSUME NEW P, NEW q, Lists(q, P)
  PROVE  /\ Cardinality(P) = Len(q)
         /\ \A i \in 1..Len(q) : Cardinality({y \in P : Precedes(y, q[i])}) = i - 1
  <1>0. /\ P \subseteq Nat \X Nat /\ q \in Seq(Nat \X Nat) /\ Ascends(q)
        /\ \A i \in 1..Len(q) : q[i] \in P
        /\ \A x \in P : \E i \in 1..Len(q) : q[i] = x
    BY DEF Lists
  <1>1. PICK len \in Nat : len = Len(q)
    BY <1>0
  <1>2. DOMAIN q = 1..len /\ \A i \in 1..len : q[i] \in Nat \X Nat
    BY <1>0, <1>1
  <1>3. \A x, y \in Nat \X Nat : Precedes(x, y) => ~Precedes(y, x) /\ x # y
    BY DEF Precedes
  <1>4. \A i, j \in 1..len : i < j => Precedes(q[i], q[j])
    BY <1>0, <1>2 DEF Ascends
  <1>5. \A i, j \in 1..len : i # j => q[i] # q[j]
    BY <1>2, <1>3, <1>4
  <1>6. (\A j \in 1..len : q[j] \in P) /\ \A x \in P : \E j \in 1..len : q[j] = x
    BY <1>0, <1>1
  <1>7. Cardinality(P) = len
    <2>1. Numbers(q, len, P)
      BY <1>5, <1>6 DEF Numbers
    <2> QED  BY <2>1, NumbersCount
  <1>8. ASSUME NEW i \in 1..len PROVE Cardinality({y \in P : Precedes(y, q[i])}) = i - 1
    <2>1. PICK n \in 0..len : n = i - 1
      OBVIOUS
    <2>2. PICK T : T = {y \in P : Precedes(y, q[i])}
      OBVIOUS
    <2>3. \A j \in 1..n : q[j] \in T
      BY <1>4, <1>6, <2>1, <2>2
    <2>4. ASSUME NEW t \in T PROVE \E j \in 1..n : q[j] = t
      <3>1. PICK j \in 1..len : q[j] = t
        BY <1>6, <2>2
      <3>2. Precedes(q[j], q[i])
        BY <2>2, <3>1
      <3>3. j < i
        BY <1>2, <1>3, <1>4, <3>2
      <3> QED  BY <2>1, <3>1, <3>3
    <2>5. Numbers(q, n, T)
      BY <1>5, <2>1, <2>3, <2>4 DEF Numbers
    <2>6. Cardinality(T) = n
      BY <2>5, NumbersCount
    <2> QED  BY <2>1, <2>2, <2>6
  <1> QED  BY <1>1, <1>7, <1>8

-----------------------------------------------------------------------------
(* The places of the lines of a patch. *)
Headed(patch, n) == \E h \in 1..n : patch[h].tag = "@@"
Heads(patch, n, h) ==
  h \in 1..n /\ patch[h].tag = "@@" /\ \A m \in h + 1..n : patch[m].tag # "@@"

LEMMA HeaderIs ==
  ASSUME NEW patch, NEW n \in Nat, Headed(patch, n)
  PROVE  /\ Heads(patch, n, Header(patch, n))
         /\ \A h : Heads(patch, n, h) => h = Header(patch, n)
  <1>1. PICK T : T = {d \in 0..n - 1 : patch[n - d].tag = "@@"}
    OBVIOUS
  <1>2. PICK x \in 1..n : patch[x].tag = "@@"
    BY DEF Headed
  <1>3. n - x \in 0..n - 1 /\ n - (n - x) = x
    OBVIOUS
  <1>4. n - x \in T /\ T \subseteq Nat
    <2>1. patch[n - (n - x)].tag = "@@"
      BY <1>2, <1>3
    <2> QED  BY <1>1, <1>3, <2>1
  <1>5. PICK d \in T : \A e \in T : d <= e
    BY <1>1, <1>4, LeastOf
  <1>6. PICK h \in 1..n : h = n - d /\ d = n - h
    BY <1>1, <1>5
  <1>7. ASSUME NEW m \in h + 1..n PROVE patch[m].tag # "@@"
    <2>1. n - m \in 0..n - 1 /\ n - (n - m) = m /\ n - m < d
      BY <1>1, <1>6
    <2>2. n - m \notin T
      BY <1>4, <1>5, <1>6, <2>1
    <2> QED  BY <1>1, <2>1, <2>2
  <1>8. Heads(patch, n, h)
    BY <1>1, <1>6, <1>7 DEF Heads
  <1>9. \A a, b : Heads(patch, n, a) /\ Heads(patch, n, b) => a = b
    <2> SUFFICES ASSUME NEW a, NEW b, Heads(patch, n, a), Heads(patch, n, b), a # b PROVE FALSE
      OBVIOUS
    <2>1. a \in 1..n /\ b \in 1..n /\ patch[a].tag = "@@" /\ patch[b].tag = "@@"
      BY DEF Heads
    <2>2. CASE a < b
      BY <2>1, <2>2 DEF Heads
    <2>3. CASE b < a
      BY <2>1, <2>3 DEF Heads
    <2> QED  BY <2>1, <2>2, <2>3
  <1>10. Header(patch, n) = CHOOSE y \in 1..n : Heads(patch, n, y)
    BY DEF Header, Heads
  <1>11. Heads(patch, n, Header(patch, n))
    BY <1>8, <1>10
  <1> QED  BY <1>9, <1>11

(* How many lines of the old text are past after line n of the patch. *)
PlaceAfter(patch, n) ==
  Target(patch[Header(patch, n)].start)
    + Cardinality({m \in Header(patch, n) + 1..n : InOld(patch[m].tag)})

LEMMA PlaceGoesOn ==
  ASSUME NEW patch, NEW n \in Nat \ {0}
  PROVE  /\ patch[n].tag = "@@" => /\ Headed(patch, n)
                                   /\ Header(patch, n) = n
                                   /\ Target(patch[n].start) \in Nat => PlaceAfter(patch, n) = Target(patch[n].start)
         /\ patch[n].tag # "@@" /\ Headed(patch, n - 1) =>
              /\ Headed(patch, n)
              /\ Header(patch, n) = Header(patch, n - 1)
              /\ Place(patch, n) = PlaceAfter(patch, n - 1)
              /\ Target(patch[Header(patch, n)].start) \in Nat =>
                   /\ PlaceAfter(patch, n - 1) \in Nat
                   /\ PlaceAfter(patch, n) = PlaceAfter(patch, n - 1)
                                             + (IF InOld(patch[n].tag) THEN 1 ELSE 0)
         /\ patch[n].tag # "@@" /\ ~Headed(patch, n - 1) => ~Headed(patch, n)
  <1>1. ASSUME patch[n].tag = "@@"
        PROVE  /\ Headed(patch, n)
               /\ Header(patch, n) = n
               /\ Target(patch[n].start) \in Nat => PlaceAfter(patch, n) = Target(patch[n].start)
    <2>1. Headed(patch, n) /\ Heads(patch, n, n)
      BY <1>1 DEF Headed, Heads
    <2>2. Header(patch, n) = n
      BY <2>1, HeaderIs
    <2>3. {m \in n + 1..n : InOld(patch[m].tag)} = {}
      OBVIOUS
    <2>4. PlaceAfter(patch, n) = Target(patch[n].start) + 0
      BY <2>2, <2>3, FS_EmptySet DEF PlaceAfter
    <2> QED  BY <2>1, <2>2, <2>4
  <1>2. ASSUME patch[n].tag # "@@", Headed(patch, n - 1)
        PROVE  /\ Headed(patch, n)
               /\ Header(patch, n) = Header(patch, n - 1)
               /\ Place(patch, n) = PlaceAfter(patch, n - 1)
               /\ Target(patch[Header(patch, n)].start) \in Nat =>
                    /\ PlaceAfter(patch, n - 1) \in Nat
                    /\ PlaceAfter(patch, n) = PlaceAfter(patch, n - 1)
                                              + (IF InOld(patch[n].tag) THEN 1 ELSE 0)
    <2>1. PICK k \in Nat : k = n - 1 /\ n = k + 1
      OBVIOUS
    <2>2. PICK h : h = Header(patch, k)
      OBVIOUS
    <2>3. Heads(patch, k, h)
      BY <1>2, <2>1, <2>2, HeaderIs
    <2>4. h \in 1..k /\ Headed(patch, n) /\ Heads(patch, n, h)
      BY <1>2, <2>1, <2>3 DEF Heads, Headed
    <2>5. Header(patch, n) = h
      BY <2>4, HeaderIs
    <2>6. Place(patch, n) = PlaceAfter(patch, k)
      BY <2>1, <2>2, <2>5 DEF Place, PlaceAfter, Target
    <2>7. PICK before : before = {m \in h + 1..k : InOld(patch[m].tag)}
      OBVIOUS
    <2>8. PICK upto : upto = {m \in h + 1..n : InOld(patch[m].tag)}
      OBVIOUS
    <2>9. IsFiniteSet(before) /\ Cardinality(before) \in Nat
      <3>1. h + 1 \in Int /\ k \in Int
        BY <2>4
      <3>2. IsFiniteSet(h + 1..k)
        BY <3>1, FS_Interval
      <3>3. before \in SUBSET (h + 1..k)
        BY <2>7
      <3>4. IsFiniteSet(before)
        BY <3>2, <3>3, FS_Subset, Zenon
      <3> QED  BY <3>4, FS_CardinalityType, Zenon
    <2>10. Cardinality(upto) = Cardinality(before) + (IF InOld(patch[n].tag) THEN 1 ELSE 0)
      <3>1. CASE InOld(patch[n].tag)
        <4>1. upto = before \cup {n} /\ n \notin before
          BY <2>1, <2>4, <2>7, <2>8, <3>1
        <4> QED  BY <2>9, <3>1, <4>1, FS_AddElement
      <3>2. CASE ~InOld(patch[n].tag)
        <4>1. upto = before
          BY <2>1, <2>4, <2>7, <2>8, <3>2
        <4> QED  BY <2>9, <3>2, <4>1
      <3> QED  BY <3>1, <3>2
    <2>11. PICK start : start = Target(patch[h].start)
      OBVIOUS
    <2>12. PlaceAfter(patch, k) = start + Cardinality(before) /\ PlaceAfter(patch, n) = start + Cardinality(upto)
      BY <2>2, <2>5, <2>7, <2>8, <2>11 DEF PlaceAfter
    <2>13. start \in Nat => /\ PlaceAfter(patch, k) \in Nat
                            /\ PlaceAfter(patch, n) = PlaceAfter(patch, k) + (IF InOld(patch[n].tag) THEN 1 ELSE 0)
      <3> SUFFICES ASSUME start \in Nat
                   PROVE  /\ PlaceAfter(patch, k) \in Nat
                          /\ PlaceAfter(patch, n) = PlaceAfter(patch, k) + (IF InOld(patch[n].tag) THEN 1 ELSE 0)
        OBVIOUS
      <3>1. CASE InOld(patch[n].tag)
        BY <2>9, <2>10, <2>12, <3>1
      <3>2. CASE ~InOld(patch[n].tag)
        BY <2>9, <2>10, <2>12, <3>2
      <3> QED  BY <3>1, <3>2
    <2> QED  BY <2>1, <2>2, <2>4, <2>5, <2>6, <2>11, <2>13
  <1>3. ASSUME patch[n].tag # "@@", ~Headed(patch, n - 1) PROVE ~Headed(patch, n)
    BY <1>3 DEF Headed
  <1> QED  BY <1>1, <1>2, <1>3

(* One line of a patch that is not refused. *)
LEMMA TargetIsPlace ==
  ASSUME NEW p \in PatchLine, p.tag = "@@"
  PROVE  Target(p.start) \in Nat
  <1>1. p.start \in Nat
    BY DEF PatchLine
  <1> QED  BY <1>1 DEF Target

Lands(lines, s, p, t) ==
  /\ s.ok
  /\ p.tag = "@@" =>
       /\ t.open /\ t.cursor = Target(p.start) /\ s.cursor <= t.cursor
       /\ t.output = s.output \o LinesBetween(lines, s.cursor, t.cursor)
  /\ p.tag # "@@" /\ s.open =>
       /\ t.open
       /\ InOld(p.tag) => t.cursor = s.cursor + 1 /\ s.cursor < Len(lines)
                          /\ lines[s.cursor + 1] = p.line
       /\ ~InOld(p.tag) => t.cursor = s.cursor
       /\ InNew(p.tag) => t.output = Append(s.output, p.line)
       /\ ~InNew(p.tag) => t.output = s.output
  /\ p.tag # "@@" /\ ~s.open => t = s

LEMMA LineLands ==
  ASSUME NEW lines \in Seq(Lines), NEW s \in PatchState, NEW p \in PatchLine,
         LineDone(lines, s, p).ok
  PROVE  /\ Lands(lines, s, p, LineDone(lines, s, p))
         /\ s.cursor <= LineDone(lines, s, p).cursor
  <1>1. PICK t : t = LineDone(lines, s, p)
    OBVIOUS
  <1>2. t.ok /\ s.cursor \in Nat
    BY <1>1 DEF PatchState
  <1>3. CASE p.tag = "@@"
    <2>1. t = OpenHunk(lines, s, p)
      BY <1>1, <1>3 DEF LineDone
    <2>2. Target(p.start) \in Nat
      BY <1>3, TargetIsPlace
    <2>3. /\ t.open /\ t.cursor = Target(p.start)
          /\ t.output = s.output \o LinesBetween(lines, s.cursor, Target(p.start))
          /\ t.ok = (s.ok /\ p.formed /\ CountHolds(s) /\ Target(p.start) >= s.cursor)
      BY <2>1 DEF OpenHunk
    <2>4. s.ok /\ s.cursor <= t.cursor
      BY <1>2, <2>2, <2>3
    <2> QED  BY <1>1, <1>3, <2>3, <2>4 DEF Lands
  <1>4. CASE p.tag # "@@" /\ s.open
    <2>1. t = HunkLine(lines, s, p)
      BY <1>1, <1>4 DEF LineDone
    <2>2. t = [cursor |-> IF InOld(p.tag) THEN s.cursor + 1 ELSE s.cursor,
               output |-> IF InNew(p.tag) THEN Append(s.output, p.line) ELSE s.output,
               open |-> s.open, old_count |-> s.old_count,
               removed |-> IF p.tag = "-" THEN s.removed + 1 ELSE s.removed,
               ok |-> /\ s.ok /\ p.tag \in {" ", "-", "+", "\\"}
                      /\ InOld(p.tag) => s.cursor < Len(lines) /\ lines[s.cursor + 1] = p.line]
      BY <1>4, <2>1, HunkLineIs, Zenon
    <2>3. /\ t.open = s.open
          /\ t.cursor = IF InOld(p.tag) THEN s.cursor + 1 ELSE s.cursor
          /\ t.output = IF InNew(p.tag) THEN Append(s.output, p.line) ELSE s.output
          /\ t.ok = (/\ s.ok /\ p.tag \in {" ", "-", "+", "\\"}
                     /\ InOld(p.tag) => s.cursor < Len(lines) /\ lines[s.cursor + 1] = p.line)
      BY <2>2, Zenon
    <2>4. s.ok /\ (InOld(p.tag) => s.cursor < Len(lines) /\ lines[s.cursor + 1] = p.line)
      BY <1>2, <2>3
    <2>5. InNew(p.tag) => t.output = Append(s.output, p.line)
      BY <2>3, Zenon
    <2>6. ~InNew(p.tag) => t.output = s.output
      BY <2>3, Zenon
    <2>7. InOld(p.tag) => t.cursor = s.cursor + 1
      BY <2>3, Zenon
    <2>8. ~InOld(p.tag) => t.cursor = s.cursor
      BY <2>3, Zenon
    <2>9. s.cursor <= t.cursor
      BY <1>2, <2>7, <2>8
    <2>10. t.open
      BY <1>4, <2>3
    <2>11. Lands(lines, s, p, t)
      BY <1>4, <2>4, <2>5, <2>6, <2>7, <2>8, <2>10, Zenon DEF Lands
    <2> QED  BY <1>1, <2>9, <2>11
  <1>5. CASE p.tag # "@@" /\ ~s.open
    <2>1. t = s
      BY <1>1, <1>5 DEF LineDone
    <2>2. s.ok /\ s.cursor <= t.cursor
      BY <1>2, <2>1
    <2>3. Lands(lines, s, p, t)
      BY <1>5, <2>1, <2>2, Zenon DEF Lands
    <2> QED  BY <1>1, <2>2, <2>3
  <1> QED  BY <1>3, <1>4, <1>5 DEF PatchState

(* The states a patch leads through. *)
Leads(old, patch, g) ==
  /\ old \in Seq(Lines) /\ patch \in Seq(PatchLine)
  /\ g \in [0..Len(patch) -> PatchState]
  /\ g[0] = Start
  /\ \A n \in 1..Len(patch) : g[n] = LineDone(old, g[n - 1], patch[n])
  /\ \A n \in 0..Len(patch) : g[n].ok

LEMMA NoErrorBefore ==
  ASSUME NEW old \in Seq(Lines), NEW patch \in Seq(PatchLine), Run(old, patch).ok
  PROVE  \E g : Leads(old, patch, g) /\ Run(old, patch) = g[Len(patch)]
  <1>1. PICK len \in Nat : len = Len(patch)
    OBVIOUS
  <1>2. PICK g \in [0..Len(patch) -> PatchState] :
          /\ g[0] = Start
          /\ \A n \in 1..Len(patch) : g[n] = LineDone(old, g[n - 1], patch[n])
          /\ Run(old, patch) = g[Len(patch)]
    BY RunIsLast
  <1>3. PICK S : S = {d \in 0..len : g[len - d].ok}
    OBVIOUS
  <1>4. 0 \in S
    BY <1>1, <1>2, <1>3
  <1>5. ASSUME NEW d \in 1..len, d - 1 \in S PROVE d \in S
    <2>1. PICK n \in 1..len : n = len - (d - 1) /\ n - 1 = len - d
      OBVIOUS
    <2>2. g[n].ok /\ n - 1 \in 0..len
      <3>1. g[len - (d - 1)].ok
        BY <1>3, <1>5
      <3> QED  BY <2>1, <3>1
    <2>3. g[n - 1] \in PatchState /\ patch[n] \in PatchLine
      <3>1. g \in [0..len -> PatchState] /\ n \in 1..Len(patch)
        BY <1>1, <1>2
      <3> QED  BY <2>2, <3>1
    <2>4. g[n] = LineDone(old, g[n - 1], patch[n])
      BY <1>1, <1>2
    <2>5. Lands(old, g[n - 1], patch[n], LineDone(old, g[n - 1], patch[n]))
      BY <2>2, <2>3, <2>4, LineLands
    <2>6. g[n - 1].ok
      BY <2>5 DEF Lands
    <2> QED  BY <1>3, <2>1, <2>6
  <1>6. \A d \in 0..len : d \in S
    BY <1>4, <1>5, ByInduction
  <1>7. ASSUME NEW n \in 0..len PROVE g[n].ok
    <2>1. len - n \in 0..len /\ len - (len - n) = n
      OBVIOUS
    <2> QED  BY <1>3, <1>6, <2>1
  <1> QED  BY <1>1, <1>2, <1>7 DEF Leads

LEMMA StateIs ==
  ASSUME NEW old, NEW patch, NEW g, Leads(old, patch, g), NEW n \in 1..Len(patch)
  PROVE  /\ old \in Seq(Lines) /\ n - 1 \in 0..Len(patch)
         /\ g[n - 1] \in PatchState /\ g[n] \in PatchState /\ patch[n] \in PatchLine
         /\ g[n - 1].cursor \in Nat /\ g[n].cursor \in Nat
         /\ Lands(old, g[n - 1], patch[n], g[n])
         /\ g[n - 1].cursor <= g[n].cursor
  <1>1. old \in Seq(Lines) /\ patch \in Seq(PatchLine) /\ g \in [0..Len(patch) -> PatchState]
    BY DEF Leads
  <1>2. n - 1 \in 0..Len(patch)
    BY <1>1
  <1>3. g[n - 1] \in PatchState /\ g[n] \in PatchState /\ patch[n] \in PatchLine
    BY <1>1, <1>2
  <1>4. g[n] = LineDone(old, g[n - 1], patch[n]) /\ g[n].ok
    BY DEF Leads
  <1>5. g[n - 1].cursor \in Nat /\ g[n].cursor \in Nat
    BY <1>3 DEF PatchState
  <1>6. Lands(old, g[n - 1], patch[n], g[n]) /\ g[n - 1].cursor <= g[n].cursor
    BY <1>1, <1>3, <1>4, LineLands
  <1> QED  BY <1>1, <1>2, <1>3, <1>4, <1>5, <1>6

LEMMA CursorsGrow ==
  ASSUME NEW old, NEW patch, NEW g, Leads(old, patch, g),
         NEW i \in 0..Len(patch), NEW j \in 0..Len(patch), i <= j
  PROVE  /\ g[i].cursor \in Nat /\ g[j].cursor \in Nat
         /\ g[i].cursor <= g[j].cursor
  <1>1. PICK len \in Nat : len = Len(patch)
    BY DEF Leads
  <1>2. \A n \in 0..len : g[n].cursor \in Nat
    BY <1>1 DEF Leads, PatchState
  <1>3. PICK S : S = {n \in 0..len : i <= n => g[i].cursor <= g[n].cursor}
    OBVIOUS
  <1>4. 0 \in S
    BY <1>1, <1>2, <1>3
  <1>5. ASSUME NEW n \in 1..len, n - 1 \in S PROVE n \in S
    <2>1. PICK m \in 0..len : m = n - 1 /\ n = m + 1
      OBVIOUS
    <2>2. g[m].cursor <= g[n].cursor
      BY <1>1, <2>1, StateIs
    <2>3. CASE i = n
      BY <1>2, <1>3, <2>3
    <2>4. CASE i # n
      BY <1>1, <1>2, <1>3, <1>5, <2>1, <2>2, <2>4
    <2> QED  BY <2>3, <2>4
  <1>6. \A n \in 0..len : n \in S
    BY <1>4, <1>5, ByInduction
  <1> QED  BY <1>1, <1>2, <1>3, <1>6

LEMMA PlacesAre ==
  ASSUME NEW old, NEW patch, NEW g, Leads(old, patch, g), NEW k \in 0..Len(patch)
  PROVE  /\ Headed(patch, k) => g[k].open /\ g[k].cursor = PlaceAfter(patch, k)
         /\ ~Headed(patch, k) => ~g[k].open
  <1>1. PICK len \in Nat : len = Len(patch)
    BY DEF Leads
  <1>2. PICK S : S = {n \in 0..len : /\ Headed(patch, n) => g[n].open /\ g[n].cursor = PlaceAfter(patch, n)
                                     /\ ~Headed(patch, n) => ~g[n].open}
    OBVIOUS
  <1>3. 0 \in S
    <2>1. ~Headed(patch, 0)
      BY DEF Headed
    <2>2. ~g[0].open
      BY DEF Leads, Start
    <2> QED  BY <1>2, <2>1, <2>2
  <1>4. ASSUME NEW n \in 1..len, n - 1 \in S PROVE n \in S
    <2>1. PICK m \in 0..len : m = n - 1
      OBVIOUS
    <2>2. /\ g[m] \in PatchState /\ g[n] \in PatchState /\ patch[n] \in PatchLine
          /\ g[m].cursor \in Nat /\ g[n].cursor \in Nat
          /\ Lands(old, g[m], patch[n], g[n])
      BY <1>1, <2>1, StateIs
    <2>3. /\ Headed(patch, m) => g[m].open /\ g[m].cursor = PlaceAfter(patch, m)
          /\ ~Headed(patch, m) => ~g[m].open
      BY <1>2, <1>4, <2>1
    <2>4. n \in Nat \ {0}
      OBVIOUS
    <2>5. CASE patch[n].tag = "@@"
      <3>1. Headed(patch, n) /\ Target(patch[n].start) \in Nat
        BY <2>2, <2>4, <2>5, PlaceGoesOn, TargetIsPlace
      <3>2. PlaceAfter(patch, n) = Target(patch[n].start)
        BY <2>4, <2>5, <3>1, PlaceGoesOn
      <3>3. g[n].open /\ g[n].cursor = Target(patch[n].start)
        BY <2>2, <2>5 DEF Lands
      <3> QED  BY <1>2, <3>1, <3>2, <3>3
    <2>6. CASE patch[n].tag # "@@" /\ Headed(patch, m)
      <3>1. Headed(patch, n) /\ Header(patch, n) = Header(patch, m)
        BY <2>1, <2>4, <2>6, PlaceGoesOn
      <3>2. PICK h : h = Header(patch, n)
        OBVIOUS
      <3>3. Heads(patch, n, h)
        BY <2>4, <3>1, <3>2, HeaderIs
      <3>4. h \in 1..Len(patch) /\ patch[h].tag = "@@"
        BY <1>1, <3>3 DEF Heads
      <3>5. patch[h] \in PatchLine
        BY <3>4, StateIs
      <3>6. Target(patch[h].start) \in Nat
        BY <3>4, <3>5, TargetIsPlace
      <3>7. PlaceAfter(patch, n) = PlaceAfter(patch, m) + (IF InOld(patch[n].tag) THEN 1 ELSE 0)
        BY <2>1, <2>4, <2>6, <3>2, <3>6, PlaceGoesOn
      <3>8. g[m].open /\ g[m].cursor = PlaceAfter(patch, m)
        BY <2>3, <2>6
      <3>9. CASE InOld(patch[n].tag)
        <4>1. g[n].open /\ g[n].cursor = g[m].cursor + 1
          BY <2>2, <2>6, <3>8, <3>9 DEF Lands
        <4> QED  BY <1>2, <3>1, <3>7, <3>8, <3>9, <4>1
      <3>10. CASE ~InOld(patch[n].tag)
        <4>1. g[n].open /\ g[n].cursor = g[m].cursor
          BY <2>2, <2>6, <3>8, <3>10 DEF Lands
        <4> QED  BY <1>2, <2>2, <3>1, <3>7, <3>8, <3>10, <4>1
      <3> QED  BY <3>9, <3>10
    <2>7. CASE patch[n].tag # "@@" /\ ~Headed(patch, m)
      <3>1. ~Headed(patch, n)
        BY <2>1, <2>4, <2>7, PlaceGoesOn
      <3>2. g[n] = g[m] /\ ~g[m].open
        BY <2>2, <2>3, <2>7 DEF Lands
      <3> QED  BY <1>2, <3>1, <3>2
    <2> QED  BY <2>5, <2>6, <2>7
  <1>5. \A n \in 0..len : n \in S
    BY <1>3, <1>4, ByInduction
  <1> QED  BY <1>1, <1>2, <1>5

LEMMA HunkLinesLand ==
  ASSUME NEW old, NEW patch, NEW g, Leads(old, patch, g), NEW k \in InHunk(patch)
  PROVE  /\ k \in 1..Len(patch) /\ patch[k].tag # "@@"
         /\ g[k - 1].open /\ Place(patch, k) = g[k - 1].cursor
         /\ InOld(patch[k].tag) =>
              /\ g[k].cursor = Place(patch, k) + 1
              /\ Place(patch, k) < Len(old) /\ old[Place(patch, k) + 1] = patch[k].line
  <1>1. k \in 1..Len(patch) /\ patch[k].tag # "@@" /\ Headed(patch, k)
    <2>1. patch \in Seq(PatchLine)
      BY DEF Leads
    <2>2. k \in DOMAIN patch /\ patch[k].tag # "@@" /\ Headed(patch, k)
      BY DEF InHunk, Headed
    <2> QED  BY <2>1, <2>2
  <1>2. PICK m \in 0..Len(patch) : m = k - 1
    BY <1>1, StateIs
  <1>3. Headed(patch, m)
    BY <1>1, <1>2 DEF Headed
  <1>4. g[m].open /\ g[m].cursor = PlaceAfter(patch, m)
    BY <1>2, <1>3, PlacesAre
  <1>5. Place(patch, k) = PlaceAfter(patch, m)
    <2>1. k \in Nat \ {0}
      BY <1>1
    <2> QED  BY <1>1, <1>2, <1>3, <2>1, PlaceGoesOn
  <1>6. Lands(old, g[m], patch[k], g[k])
    BY <1>1, <1>2, StateIs
  <1>7. InOld(patch[k].tag) => /\ g[k].cursor = g[m].cursor + 1
                               /\ g[m].cursor < Len(old) /\ old[g[m].cursor + 1] = patch[k].line
    BY <1>1, <1>4, <1>6 DEF Lands
  <1> QED  BY <1>1, <1>2, <1>4, <1>5, <1>7

-----------------------------------------------------------------------------
(* The pieces of the new text, while the patch is under way. *)
Within(old, n) == IF n < Len(old) THEN n ELSE Len(old)

LEMMA PiecesAre ==
  ASSUME NEW old, NEW patch, NEW g, Leads(old, patch, g), NEW x \in Pieces(old, patch)
  PROVE  /\ x \in Nat \X Nat
         /\ \/ /\ x[2] \in InHunk(patch) /\ x[2] \in 1..Len(patch) /\ patch[x[2]].tag = "+"
               /\ x[1] = Within(old, Place(patch, x[2]))
            \/ /\ x[2] = Len(patch) + 1 /\ x[1] < Len(old)
               /\ \A k \in InHunk(patch) : patch[k].tag = "-" => Place(patch, k) # x[1]
  <1>1. old \in Seq(Lines) /\ patch \in Seq(PatchLine) /\ Len(old) \in Nat /\ Len(patch) \in Nat
    BY DEF Leads
  <1>2. CASE \E k \in InHunk(patch) : patch[k].tag = "+" /\ x = <<Within(old, Place(patch, k)), k>>
    <2>1. PICK k \in InHunk(patch) : patch[k].tag = "+" /\ x = <<Within(old, Place(patch, k)), k>>
      BY <1>2
    <2>2. k \in 1..Len(patch) /\ Place(patch, k) = g[k - 1].cursor
      BY HunkLinesLand
    <2>3. Place(patch, k) \in Nat
      BY <2>2, StateIs
    <2>4. Within(old, Place(patch, k)) \in Nat
      BY <1>1, <2>3 DEF Within
    <2> QED  BY <1>1, <2>1, <2>2, <2>4
  <1>3. CASE \E n \in 0..Len(old) - 1 :
               /\ x = <<n, Len(patch) + 1>>
               /\ \A k \in InHunk(patch) : patch[k].tag = "-" => Place(patch, k) # n
    BY <1>1, <1>3
  <1> QED  BY <1>2, <1>3 DEF Pieces, Within

LEMMA AddedIsPiece ==
  ASSUME NEW old, NEW patch, NEW k \in InHunk(patch), patch[k].tag = "+"
  PROVE  <<Within(old, Place(patch, k)), k>> \in Pieces(old, patch)
  BY DEF Pieces, Within

LEMMA KeptIsPiece ==
  ASSUME NEW old \in Seq(Lines), NEW patch, NEW n \in Nat, n < Len(old),
         \A k \in InHunk(patch) : patch[k].tag = "-" => Place(patch, k) # n
  PROVE  <<n, Len(patch) + 1>> \in Pieces(old, patch)
  <1>1. n \in 0..Len(old) - 1
    OBVIOUS
  <1> QED  BY <1>1 DEF Pieces

(* After n lines of the patch, with c old lines past, the text so far shows
   the pieces q: all that are behind, in their order. *)
Behind(patch, n, c, x) == IF x[2] <= Len(patch) THEN x[2] <= n ELSE x[1] < c

Traced(old, patch, n, c, output, q) ==
  /\ q \in Seq(Nat \X Nat) /\ output \in Seq(Lines) /\ Len(q) = Len(output)
  /\ Ascends(q)
  /\ \A i \in 1..Len(q) : /\ q[i] \in Pieces(old, patch)
                          /\ Behind(patch, n, c, q[i])
                          /\ output[i] = PieceLine(old, patch, q[i])
  /\ \A x \in Pieces(old, patch) : Behind(patch, n, c, x) => \E i \in 1..Len(q) : q[i] = x

LEMMA TracedStart ==
  ASSUME NEW old, NEW patch, NEW g, Leads(old, patch, g)
  PROVE  Traced(old, patch, 0, 0, <<>>, <<>>)
  <1>1. ASSUME NEW x \in Pieces(old, patch) PROVE ~Behind(patch, 0, 0, x)
    <2>1. x \in Nat \X Nat /\ (x[2] \in 1..Len(patch) \/ x[2] = Len(patch) + 1) /\ Len(patch) \in Nat
      BY PiecesAre DEF Leads
    <2> QED  BY <2>1 DEF Behind
  <1>2. <<>> \in Seq(Nat \X Nat) /\ <<>> \in Seq(Lines) /\ Len(<<>>) = 0
    OBVIOUS
  <1> QED  BY <1>1, <1>2 DEF Traced, Ascends

(* A line that adds nothing. *)
LEMMA TracedSkip ==
  ASSUME NEW old, NEW patch, NEW g, Leads(old, patch, g), NEW n \in 1..Len(patch),
         n \notin InHunk(patch) \/ patch[n].tag # "+",
         NEW c \in Nat, NEW output, NEW q, Traced(old, patch, n - 1, c, output, q)
  PROVE  Traced(old, patch, n, c, output, q)
  <1>1. ASSUME NEW x \in Pieces(old, patch) PROVE Behind(patch, n, c, x) <=> Behind(patch, n - 1, c, x)
    <2>1. /\ x \in Nat \X Nat
          /\ \/ x[2] \in InHunk(patch) /\ x[2] \in 1..Len(patch) /\ patch[x[2]].tag = "+"
             \/ x[2] = Len(patch) + 1
      BY PiecesAre
    <2>2. x[2] # n
      BY <2>1
    <2> QED  BY <2>1, <2>2 DEF Behind
  <1> QED  BY <1>1 DEF Traced

(* An old line that is removed. *)
LEMMA TracedDrop ==
  ASSUME NEW old, NEW patch, NEW g, Leads(old, patch, g), NEW n \in 0..Len(patch),
         NEW c \in Nat, NEW k \in InHunk(patch), patch[k].tag = "-", Place(patch, k) = c,
         NEW output, NEW q, Traced(old, patch, n, c, output, q)
  PROVE  Traced(old, patch, n, c + 1, output, q)
  <1>1. ASSUME NEW x \in Pieces(old, patch) PROVE Behind(patch, n, c + 1, x) <=> Behind(patch, n, c, x)
    <2>1. /\ x \in Nat \X Nat
          /\ \/ x[2] \in 1..Len(patch)
             \/ x[2] = Len(patch) + 1 /\ x[1] # c
      BY PiecesAre
    <2> QED  BY <2>1 DEF Behind
  <1> QED  BY <1>1 DEF Traced

(* The elements of two sequences in a row. *)
LEMMA ConcatIs ==
  ASSUME NEW S, NEW s \in Seq(S), NEW t \in Seq(S)
  PROVE  /\ s \o t \in Seq(S) /\ Len(s \o t) = Len(s) + Len(t)
         /\ \A i \in 1..Len(s) : (s \o t)[i] = s[i]
         /\ \A i \in 1..Len(t) : (s \o t)[Len(s) + i] = t[i]
  <1>1. PICK m \in Nat, n \in Nat : m = Len(s) /\ n = Len(t)
    OBVIOUS
  <1>2. /\ s \o t \in Seq(S) /\ Len(s \o t) = m + n
        /\ \A i \in 1..m + n : (s \o t)[i] = IF i <= m THEN s[i] ELSE t[i - m]
    BY <1>1, ConcatProperties
  <1>3. \A i \in 1..m : (s \o t)[i] = s[i]
    BY <1>2
  <1>4. ASSUME NEW i \in 1..n PROVE (s \o t)[m + i] = t[i]
    <2>1. m + i \in 1..m + n /\ ~(m + i <= m) /\ m + i - m = i
      OBVIOUS
    <2> QED  BY <1>2, <2>1
  <1> QED  BY <1>1, <1>2, <1>3, <1>4

LEMMA BetweenIs ==
  ASSUME NEW lines \in Seq(Lines), NEW c \in Nat, NEW t \in Nat, c <= t
  PROVE  \E size \in Nat :
           /\ size = (IF c < Within(lines, t) THEN Within(lines, t) - c ELSE 0)
           /\ Within(lines, t) \in Nat /\ Within(lines, t) <= t /\ Within(lines, t) <= Len(lines)
           /\ LinesBetween(lines, c, t) \in Seq(Lines)
           /\ Len(LinesBetween(lines, c, t)) = size
           /\ \A i \in 1..size : LinesBetween(lines, c, t)[i] = lines[c + i]
  <1>1. PICK u \in Nat : u = Within(lines, t) /\ u <= t /\ u <= Len(lines)
    BY DEF Within
  <1>2. PICK size \in Nat : size = (IF c < u THEN u - c ELSE 0)
    <2>1. CASE c < u
      BY <2>1
    <2>2. CASE ~(c < u)
      BY <2>2
    <2> QED  BY <2>1, <2>2
  <1>3. LinesBetween(lines, c, t) = SubSeq(lines, c + 1, u)
    BY <1>1 DEF LinesBetween, Within
  <1>4. LinesBetween(lines, c, t) \in Seq(Lines)
    BY BetweenAreLines
  <1>5. Len(SubSeq(lines, c + 1, u)) = size
    BY <1>1, <1>2
  <1>6. \A i \in 1..size : SubSeq(lines, c + 1, u)[i] = lines[c + i]
    BY <1>1, <1>2
  <1> QED  BY <1>1, <1>2, <1>3, <1>4, <1>5, <1>6

(* Old lines that are kept. *)
LEMMA TracedKeep ==
  ASSUME NEW old, NEW patch, NEW g, Leads(old, patch, g), NEW n \in 0..Len(patch),
         NEW c \in Nat, NEW t \in Nat, c <= t,
         \A m \in c..t - 1 : m < Len(old) => <<m, Len(patch) + 1>> \in Pieces(old, patch),
         \A x \in Pieces(old, patch) : x[2] <= n => x[1] <= c,
         NEW output, NEW q, Traced(old, patch, n, c, output, q)
  PROVE  \E r : Traced(old, patch, n, t, output \o LinesBetween(old, c, t), r)
  <1>1. PICK len \in Nat : len = Len(patch)
    BY DEF Leads
  <1>2. old \in Seq(Lines) /\ DOMAIN patch = 1..len
    BY <1>1 DEF Leads
  <1>3. PICK between \in Seq(Lines) : between = LinesBetween(old, c, t)
    BY <1>2, BetweenAreLines
  <1>4. PICK u \in Nat : u = Within(old, t) /\ u <= t /\ u <= Len(old)
    BY <1>2 DEF Within
  <1>5. PICK size \in Nat : size = (IF c < u THEN u - c ELSE 0) /\ Len(between) = size
                            /\ \A i \in 1..size : between[i] = old[c + i]
    <2>1. PICK size \in Nat :
           /\ size = (IF c < Within(old, t) THEN Within(old, t) - c ELSE 0)
           /\ Len(LinesBetween(old, c, t)) = size
           /\ \A i \in 1..size : LinesBetween(old, c, t)[i] = old[c + i]
      <3>1. \E size \in Nat :
              /\ size = (IF c < Within(old, t) THEN Within(old, t) - c ELSE 0)
              /\ Within(old, t) \in Nat /\ Within(old, t) <= t /\ Within(old, t) <= Len(old)
              /\ LinesBetween(old, c, t) \in Seq(Lines)
              /\ Len(LinesBetween(old, c, t)) = size
              /\ \A i \in 1..size : LinesBetween(old, c, t)[i] = old[c + i]
        BY <1>2, BetweenIs, Zenon
      <3> QED  BY <3>1, Zenon
    <2> QED  BY <1>3, <1>4, <2>1, Zenon
  <1>6. PICK run : run = [i \in 1..size |-> <<c + i - 1, len + 1>>]
    OBVIOUS
  <1>7. run \in Seq(Nat \X Nat) /\ Len(run) = size /\ \A i \in 1..size : run[i] = <<c + i - 1, len + 1>>
    <2>1. \A i \in 1..size : <<c + i - 1, len + 1>> \in Nat \X Nat
      OBVIOUS
    <2>2. run \in [1..size -> Nat \X Nat]
      BY <1>6, <2>1
    <2>3. run \in Seq(Nat \X Nat)
      BY <2>2
    <2> QED  BY <1>6, <2>2, <2>3
  <1>8. q \in Seq(Nat \X Nat) /\ output \in Seq(Lines) /\ Len(q) = Len(output)
    BY DEF Traced
  <1>9. PICK have \in Nat : have = Len(q) /\ have = Len(output) /\ DOMAIN q = 1..have
    BY <1>8
  <1>10. PICK r : r = q \o run
    OBVIOUS
  <1>11. /\ r \in Seq(Nat \X Nat) /\ Len(r) = have + size
         /\ \A i \in 1..have : r[i] = q[i]
         /\ \A i \in 1..size : r[have + i] = <<c + i - 1, len + 1>>
    <2>1. /\ q \o run \in Seq(Nat \X Nat) /\ Len(q \o run) = Len(q) + Len(run)
          /\ \A i \in 1..Len(q) : (q \o run)[i] = q[i]
          /\ \A i \in 1..Len(run) : (q \o run)[Len(q) + i] = run[i]
      <3>1. PICK S : S = Nat \X Nat
        OBVIOUS
      <3>2. q \in Seq(S) /\ run \in Seq(S)
        BY <1>7, <1>8, <3>1
      <3>3. /\ q \o run \in Seq(S) /\ Len(q \o run) = Len(q) + Len(run)
            /\ \A i \in 1..Len(q) : (q \o run)[i] = q[i]
            /\ \A i \in 1..Len(run) : (q \o run)[Len(q) + i] = run[i]
        BY <3>2, ConcatIs
      <3> QED  BY <3>1, <3>3
    <2> QED  BY <1>7, <1>9, <1>10, <2>1
  <1>12. PICK text : text = output \o between
    OBVIOUS
  <1>13. /\ text \in Seq(Lines) /\ Len(text) = have + size
         /\ \A i \in 1..have : text[i] = output[i]
         /\ \A i \in 1..size : text[have + i] = old[c + i]
    <2>1. /\ output \o between \in Seq(Lines) /\ Len(output \o between) = Len(output) + Len(between)
          /\ \A i \in 1..Len(output) : (output \o between)[i] = output[i]
          /\ \A i \in 1..Len(between) : (output \o between)[Len(output) + i] = between[i]
      BY <1>8, ConcatIs
    <2> QED  BY <1>5, <1>9, <1>12, <2>1
  <1>14. \A i \in 1..have : /\ r[i] \in Pieces(old, patch) /\ Behind(patch, n, c, r[i])
                            /\ text[i] = PieceLine(old, patch, r[i])
    BY <1>9, <1>11, <1>13 DEF Traced
  <1>15. ASSUME NEW x \in Pieces(old, patch)
         PROVE  /\ x \in Nat \X Nat
                /\ x[2] \in 1..len \/ (x[2] = len + 1 /\ x[1] < Len(old))
    BY <1>1, PiecesAre
  <1>16. ASSUME NEW i \in 1..size
         PROVE  /\ r[have + i] \in Pieces(old, patch) /\ Behind(patch, n, t, r[have + i])
                /\ text[have + i] = PieceLine(old, patch, r[have + i])
    <2>1. PICK m \in c..t - 1 : m = c + i - 1 /\ m + 1 = c + i /\ m < Len(old)
      BY <1>2, <1>4, <1>5
    <2>2. r[have + i] = <<m, len + 1>> /\ text[have + i] = old[m + 1]
      BY <1>11, <1>13, <2>1
    <2>3. <<m, len + 1>> \in Pieces(old, patch)
      BY <1>1, <2>1
    <2>4. Behind(patch, n, t, <<m, len + 1>>)
      BY <1>1, <2>1 DEF Behind
    <2>5. PieceLine(old, patch, <<m, len + 1>>) = old[m + 1]
      BY <1>2, <2>1 DEF PieceLine
    <2> QED  BY <2>2, <2>3, <2>4, <2>5
  <1>17. \A i \in 1..have : Behind(patch, n, t, r[i])
    <2> TAKE i \in 1..have
    <2>1. r[i] \in Nat \X Nat /\ Behind(patch, n, c, r[i])
      BY <1>14, <1>15
    <2> QED  BY <2>1 DEF Behind
  <1>18. Ascends(r)
    <2> SUFFICES ASSUME NEW i \in 1..have + size, NEW j \in 1..have + size, i < j
                 PROVE  Precedes(r[i], r[j])
      BY <1>11 DEF Ascends
    <2>1. CASE j \in 1..have
      <3>1. i \in DOMAIN q /\ j \in DOMAIN q /\ Ascends(q)
        <4>1. Ascends(q)
          BY DEF Traced
        <4> QED  BY <1>8, <1>9, <2>1, <4>1
      <3>2. Precedes(q[i], q[j])
        BY <3>1 DEF Ascends
      <3> QED  BY <1>11, <2>1, <3>2
    <2>2. CASE i \in 1..have /\ j \notin 1..have
      <3>1. PICK b \in 1..size : j = have + b
        BY <2>2
      <3>2. r[j] = <<c + b - 1, len + 1>>
        BY <1>11, <3>1
      <3>3. r[i] \in Pieces(old, patch) /\ Behind(patch, n, c, r[i])
        BY <1>14, <2>2
      <3>4. r[i] \in Nat \X Nat /\ (r[i][2] \in 1..len \/ r[i][2] = len + 1)
        BY <1>15, <3>3
      <3>5. \/ r[i][2] <= len /\ r[i][1] <= c
            \/ r[i][2] = len + 1 /\ r[i][1] < c
        BY <1>1, <3>3, <3>4 DEF Behind
      <3> QED  BY <3>2, <3>4, <3>5 DEF Precedes
    <2>3. CASE i \notin 1..have
      <3>1. PICK a \in 1..size : i = have + a
        <4>1. i - have \in 1..size /\ i = have + (i - have)
          BY <2>3
        <4> QED  BY <4>1
      <3>2. PICK b \in 1..size : j = have + b
        <4>1. j - have \in 1..size /\ j = have + (j - have)
          BY <2>3
        <4> QED  BY <4>1
      <3>3. a < b
        BY <3>1, <3>2
      <3>4. r[i] = <<c + a - 1, len + 1>>
        BY <1>11, <3>1
      <3>5. r[j] = <<c + b - 1, len + 1>>
        BY <1>11, <3>2
      <3> QED  BY <3>3, <3>4, <3>5 DEF Precedes
    <2> QED  BY <2>1, <2>2, <2>3
  <1>19. ASSUME NEW x \in Pieces(old, patch), Behind(patch, n, t, x)
         PROVE  \E i \in 1..have + size : r[i] = x
    <2>1. CASE Behind(patch, n, c, x)
      <3>1. PICK i \in 1..have : q[i] = x
        BY <1>9, <2>1 DEF Traced
      <3>2. i \in 1..have + size
        OBVIOUS
      <3>3. r[i] = x
        BY <1>11, <3>1
      <3> QED  BY <3>2, <3>3
    <2>2. CASE ~Behind(patch, n, c, x)
      <3>1. x \in Nat \X Nat /\ x[2] = len + 1 /\ x[1] < Len(old) /\ c <= x[1] /\ x[1] < t
        BY <1>1, <1>15, <1>19, <2>2 DEF Behind
      <3>2. PICK i \in 1..size : c + i - 1 = x[1]
        <4>1. x[1] < u /\ c < u
          BY <1>2, <1>4, <3>1 DEF Within
        <4>2. x[1] - c + 1 \in 1..size /\ c + (x[1] - c + 1) - 1 = x[1]
          BY <1>5, <3>1, <4>1
        <4> QED  BY <4>2
      <3>3. r[have + i] = <<x[1], x[2]>>
        BY <1>11, <3>1, <3>2
      <3>4. x = <<x[1], x[2]>> /\ have + i \in 1..have + size
        BY <3>1
      <3> QED  BY <3>3, <3>4
    <2> QED  BY <2>1, <2>2
  <1>20. \A i \in 1..have + size : /\ r[i] \in Pieces(old, patch) /\ Behind(patch, n, t, r[i])
                                   /\ text[i] = PieceLine(old, patch, r[i])
    <2> TAKE i \in 1..have + size
    <2>1. CASE i \in 1..have
      BY <1>14, <1>17, <2>1
    <2>2. CASE i \notin 1..have
      <3>1. PICK b \in 1..size : i = have + b
        BY <2>2
      <3> QED  BY <1>16, <3>1
    <2> QED  BY <2>1, <2>2
  <1>21. Traced(old, patch, n, t, text, r)
    BY <1>11, <1>13, <1>18, <1>19, <1>20 DEF Traced
  <1> QED  BY <1>3, <1>12, <1>21

LEMMA PiecesBefore ==
  ASSUME NEW old, NEW patch, NEW g, Leads(old, patch, g), NEW n \in 1..Len(patch),
         NEW x \in Pieces(old, patch), x[2] <= n
  PROVE  x[1] <= Within(old, g[n - 1].cursor) /\ x[1] <= g[n - 1].cursor
  <1>1. Len(old) \in Nat /\ Len(patch) \in Nat
    BY DEF Leads
  <1>2. PICK k \in InHunk(patch) : k = x[2] /\ k \in 1..Len(patch) /\ x[1] = Within(old, Place(patch, k))
    BY <1>1, PiecesAre
  <1>3. PICK a \in 0..Len(patch), b \in 0..Len(patch) : a <= b /\ a = k - 1 /\ b = n - 1
    BY <1>1, <1>2
  <1>4. g[a].cursor \in Nat /\ g[b].cursor \in Nat /\ g[a].cursor <= g[b].cursor
    BY <1>3, CursorsGrow
  <1>5. Place(patch, k) = g[a].cursor
    BY <1>3, HunkLinesLand
  <1>6. Within(old, g[a].cursor) <= Within(old, g[b].cursor) /\ Within(old, g[b].cursor) <= g[b].cursor
        /\ Within(old, g[a].cursor) \in Nat /\ Within(old, g[b].cursor) \in Nat
    BY <1>1, <1>4 DEF Within
  <1> QED  BY <1>2, <1>3, <1>4, <1>5, <1>6

(* What a patch passes without removing it is kept. *)
LEMMA PassedIsKept ==
  ASSUME NEW old, NEW patch, NEW g, Leads(old, patch, g), NEW n \in 1..Len(patch),
         n \notin InHunk(patch) \/ patch[n].tag # "-",
         NEW m \in Nat, g[n - 1].cursor <= m, m < g[n].cursor, m < Len(old)
  PROVE  <<m, Len(patch) + 1>> \in Pieces(old, patch)
  <1>1. PICK len \in Nat : len = Len(patch)
    BY DEF Leads
  <1>2. ASSUME NEW k \in InHunk(patch), patch[k].tag = "-" PROVE Place(patch, k) # m
    <2> SUFFICES ASSUME Place(patch, k) = m PROVE FALSE
      OBVIOUS
    <2>1. k \in 1..len /\ k # n /\ Place(patch, k) = g[k - 1].cursor /\ g[k].cursor = m + 1
      <3>1. InOld(patch[k].tag)
        BY <1>2 DEF InOld
      <3> QED  BY <1>1, <1>2, <3>1, HunkLinesLand
    <2>2. CASE k < n
      <3>1. PICK a \in 0..len, b \in 0..len : a <= b /\ a = k /\ b = n - 1
        BY <1>1, <2>1, <2>2
      <3>2. g[a].cursor \in Nat /\ g[b].cursor \in Nat /\ g[a].cursor <= g[b].cursor
        BY <1>1, <3>1, CursorsGrow
      <3> QED  BY <2>1, <3>1, <3>2
    <2>3. CASE n < k
      <3>1. PICK a \in 0..len, b \in 0..len : a <= b /\ a = n /\ b = k - 1
        BY <1>1, <2>1, <2>3
      <3>2. g[a].cursor \in Nat /\ g[b].cursor \in Nat /\ g[a].cursor <= g[b].cursor
        BY <1>1, <3>1, CursorsGrow
      <3> QED  BY <2>1, <3>1, <3>2
    <2> QED  BY <1>1, <2>1, <2>2, <2>3
  <1>3. old \in Seq(Lines)
    BY DEF Leads
  <1> QED  BY <1>2, <1>3, KeptIsPiece

LEMMA TracedAdd ==
  ASSUME NEW old, NEW patch, NEW g, Leads(old, patch, g), NEW n \in InHunk(patch), patch[n].tag = "+",
         NEW output, NEW q, Traced(old, patch, n - 1, g[n - 1].cursor, output, q)
  PROVE  \E r : Traced(old, patch, n, g[n - 1].cursor, Append(output, patch[n].line), r)
  <1>1. PICK len \in Nat : len = Len(patch)
    BY DEF Leads
  <1>2. PICK c \in Nat : c = g[n - 1].cursor /\ Place(patch, n) = c /\ n \in 1..len /\ old \in Seq(Lines)
                        /\ patch[n] \in PatchLine /\ n \in DOMAIN patch
    <2>1. n \in 1..Len(patch) /\ Place(patch, n) = g[n - 1].cursor
      BY HunkLinesLand
    <2>2. g[n - 1].cursor \in Nat /\ old \in Seq(Lines) /\ patch[n] \in PatchLine
      BY <2>1, StateIs
    <2> QED  BY <1>1, <2>1, <2>2 DEF InHunk
  <1>3. PICK w \in Nat : w = Within(old, c) /\ w <= c /\ w <= Len(old) /\ (c < Len(old) => w = c)
                        /\ (c >= Len(old) => w = Len(old))
    BY <1>2 DEF Within
  <1>4. <<w, n>> \in Pieces(old, patch)
    BY <1>2, <1>3, AddedIsPiece
  <1>5. q \in Seq(Nat \X Nat) /\ output \in Seq(Lines) /\ Len(q) = Len(output)
    BY DEF Traced
  <1>6. PICK have \in Nat : have = Len(q) /\ have = Len(output) /\ DOMAIN q = 1..have
    BY <1>5
  <1>7. PICK r : r = Append(q, <<w, n>>)
    OBVIOUS
  <1>8. /\ r \in Seq(Nat \X Nat) /\ Len(r) = have + 1 /\ r[have + 1] = <<w, n>>
        /\ \A i \in 1..have : r[i] = q[i]
    <2>1. n \in Nat
      BY <1>2
    <2> QED  BY <1>5, <1>6, <1>7, <2>1
  <1>9. PICK text : text = Append(output, patch[n].line)
    OBVIOUS
  <1>10. /\ text \in Seq(Lines) /\ Len(text) = have + 1 /\ text[have + 1] = patch[n].line
         /\ \A i \in 1..have : text[i] = output[i]
    <2>1. patch[n].line \in Lines
      BY <1>2 DEF PatchLine
    <2> QED  BY <1>5, <1>6, <1>9, <2>1
  <1>11. ASSUME NEW x \in Pieces(old, patch)
         PROVE  /\ x \in Nat \X Nat
                /\ \/ x[2] \in 1..len /\ (x[2] <= n => x[1] <= w) /\ (x[2] = n => x = <<w, n>>)
                   \/ x[2] = len + 1 /\ x[1] < Len(old)
    <2>1. x \in Nat \X Nat /\ Len(old) \in Nat
      BY <1>2, PiecesAre
    <2>2. CASE x[2] \in InHunk(patch) /\ x[2] \in 1..Len(patch) /\ x[1] = Within(old, Place(patch, x[2]))
      <3>1. x[2] <= n => x[1] <= w
        BY <1>1, <1>2, <1>3, PiecesBefore
      <3>2. x[2] = n => x[1] = w
        BY <1>2, <1>3, <2>2
      <3>3. x = <<x[1], x[2]>>
        BY <2>1
      <3> QED  BY <1>1, <2>1, <2>2, <3>1, <3>2, <3>3
    <2>3. CASE x[2] = Len(patch) + 1 /\ x[1] < Len(old)
      BY <1>1, <2>1, <2>3
    <2> QED  BY <2>2, <2>3, PiecesAre
  <1>12. ASSUME NEW x \in Pieces(old, patch), Behind(patch, n - 1, c, x)
         PROVE  Behind(patch, n, c, x) /\ Precedes(x, <<w, n>>)
    BY <1>1, <1>2, <1>3, <1>11, <1>12 DEF Behind, Precedes
  <1>13. \A i \in 1..have : /\ r[i] \in Pieces(old, patch) /\ Behind(patch, n, c, r[i])
                            /\ text[i] = PieceLine(old, patch, r[i])
                            /\ Precedes(r[i], <<w, n>>)
    <2> TAKE i \in 1..have
    <2>1. q[i] \in Pieces(old, patch) /\ Behind(patch, n - 1, c, q[i]) /\ output[i] = PieceLine(old, patch, q[i])
      BY <1>2, <1>6 DEF Traced
    <2> QED  BY <1>8, <1>10, <1>12, <2>1
  <1>14. Ascends(r)
    <2> SUFFICES ASSUME NEW i \in 1..have + 1, NEW j \in 1..have + 1, i < j
                 PROVE  Precedes(r[i], r[j])
      BY <1>8 DEF Ascends
    <2>1. CASE j \in 1..have
      <3>1. Ascends(q)
        BY DEF Traced
      <3>2. i \in DOMAIN q /\ j \in DOMAIN q
        BY <1>6, <2>1
      <3>3. Precedes(q[i], q[j])
        BY <3>1, <3>2 DEF Ascends
      <3>4. i \in 1..have
        BY <2>1
      <3>5. r[i] = q[i] /\ r[j] = q[j]
        BY <1>8, <2>1, <3>4
      <3> QED  BY <3>3, <3>5
    <2>2. CASE j = have + 1
      <3>1. i \in 1..have
        BY <2>2
      <3>2. Precedes(r[i], <<w, n>>)
        BY <1>13, <3>1
      <3> QED  BY <1>8, <2>2, <3>2
    <2> QED  BY <2>1, <2>2
  <1>15. ASSUME NEW x \in Pieces(old, patch), Behind(patch, n, c, x)
         PROVE  \E i \in 1..have + 1 : r[i] = x
    <2>1. CASE Behind(patch, n - 1, c, x)
      <3>1. PICK i \in 1..have : q[i] = x
        BY <1>2, <1>6, <2>1 DEF Traced
      <3> QED  BY <1>8, <3>1
    <2>2. CASE ~Behind(patch, n - 1, c, x)
      <3>1. x = <<w, n>>
        BY <1>1, <1>2, <1>11, <1>15, <2>2 DEF Behind
      <3>2. have + 1 \in 1..have + 1 /\ r[have + 1] = <<w, n>>
        BY <1>8
      <3> QED  BY <3>1, <3>2
    <2> QED  BY <2>1, <2>2
  <1>16. Behind(patch, n, c, <<w, n>>) /\ PieceLine(old, patch, <<w, n>>) = patch[n].line
    BY <1>1, <1>2 DEF Behind, PieceLine
  <1>17. \A i \in 1..have + 1 : /\ r[i] \in Pieces(old, patch) /\ Behind(patch, n, c, r[i])
                                /\ text[i] = PieceLine(old, patch, r[i])
    <2> TAKE i \in 1..have + 1
    <2>1. CASE i \in 1..have
      BY <1>13, <2>1
    <2>2. CASE i = have + 1
      <3>1. r[i] = <<w, n>> /\ text[i] = patch[n].line
        BY <1>8, <1>10, <2>2
      <3> QED  BY <1>4, <1>16, <3>1
    <2> QED  BY <2>1, <2>2
  <1>18. Traced(old, patch, n, c, text, r)
    BY <1>8, <1>10, <1>14, <1>15, <1>17 DEF Traced
  <1> QED  BY <1>2, <1>9, <1>18

LEMMA TracedAll ==
  ASSUME NEW old, NEW patch, NEW g, Leads(old, patch, g), NEW k \in 0..Len(patch)
  PROVE  \E q : Traced(old, patch, k, g[k].cursor, g[k].output, q)
  <1>1. PICK len \in Nat : len = Len(patch)
    BY DEF Leads
  <1>2. PICK S : S = {n \in 0..len : \E q : Traced(old, patch, n, g[n].cursor, g[n].output, q)}
    OBVIOUS
  <1>3. 0 \in S
    <2>1. g[0].cursor = 0 /\ g[0].output = <<>>
      BY DEF Leads, Start
    <2> QED  BY <1>2, <2>1, TracedStart
  <1>4. ASSUME NEW n \in 1..len, n - 1 \in S PROVE n \in S
    <2> SUFFICES \E r : Traced(old, patch, n, g[n].cursor, g[n].output, r)
      BY <1>2
    <2>1. PICK m \in 0..len : m = n - 1
      OBVIOUS
    <2>2. PICK q : Traced(old, patch, n - 1, g[m].cursor, g[m].output, q)
      BY <1>2, <1>4, <2>1
    <2>3. /\ old \in Seq(Lines) /\ g[m] \in PatchState /\ g[n] \in PatchState /\ patch[n] \in PatchLine
          /\ g[m].cursor \in Nat /\ g[n].cursor \in Nat /\ g[m].cursor <= g[n].cursor
          /\ Lands(old, g[m], patch[n], g[n])
      BY <1>1, <2>1, StateIs
    <2>4. PICK c \in Nat, t \in Nat : c = g[m].cursor /\ t = g[n].cursor /\ c <= t
      BY <2>3
    <2>5. PICK output : output = g[m].output
      OBVIOUS
    <2>6. Traced(old, patch, n - 1, c, output, q)
      BY <2>2, <2>4, <2>5
    <2>7. n \in 1..Len(patch) /\ n \in 0..Len(patch)
      BY <1>1
    <2>8. ASSUME n \notin InHunk(patch) \/ patch[n].tag \notin {"+", "-"}
          PROVE  \E r : Traced(old, patch, n, t, output \o LinesBetween(old, c, t), r)
      <3>1. Traced(old, patch, n, c, output, q)
        BY <2>6, <2>7, <2>8, TracedSkip
      <3>2. \A x \in Pieces(old, patch) : x[2] <= n => x[1] <= c
        BY <2>1, <2>4, <2>7, PiecesBefore
      <3>3. ASSUME NEW y \in c..t - 1, y < Len(old) PROVE <<y, Len(patch) + 1>> \in Pieces(old, patch)
        <4>1. y \in Nat /\ g[n - 1].cursor <= y /\ y < g[n].cursor
          BY <2>1, <2>4
        <4> QED  BY <2>7, <2>8, <3>3, <4>1, PassedIsKept
      <3> QED  BY <2>4, <2>7, <3>1, <3>2, <3>3, TracedKeep
    <2>9. n \in InHunk(patch) => g[m].open
      BY <2>1, HunkLinesLand
    <2>10. g[m].open /\ patch[n].tag # "@@" => n \in InHunk(patch)
      <3> SUFFICES ASSUME g[m].open, patch[n].tag # "@@" PROVE n \in InHunk(patch)
        OBVIOUS
      <3>1. Headed(patch, m)
        BY <1>1, <2>1, PlacesAre
      <3>2. n \in DOMAIN patch
        BY <2>7 DEF Leads
      <3> QED  BY <2>1, <3>1, <3>2 DEF InHunk, Headed
    <2>11. CASE patch[n].tag = "@@"
      <3>1. n \notin InHunk(patch)
        BY <2>11 DEF InHunk
      <3>2. g[n].output = output \o LinesBetween(old, c, t)
        BY <2>3, <2>4, <2>5, <2>11 DEF Lands
      <3> QED  BY <2>4, <2>8, <3>1, <3>2
    <2>12. CASE patch[n].tag # "@@" /\ ~g[m].open
      <3>1. n \notin InHunk(patch)
        BY <2>9, <2>12
      <3>2. g[n] = g[m]
        BY <2>3, <2>12 DEF Lands
      <3>3. Traced(old, patch, n, c, output, q)
        BY <2>6, <2>7, <3>1, TracedSkip
      <3> QED  BY <2>4, <2>5, <3>2, <3>3
    <2>13. CASE patch[n].tag = " " /\ g[m].open
      <3>1. InOld(patch[n].tag) /\ InNew(patch[n].tag)
        BY <2>13 DEF InOld, InNew
      <3>2. /\ t = c + 1 /\ c < Len(old) /\ old[c + 1] = patch[n].line
            /\ g[n].output = Append(output, patch[n].line)
        BY <2>3, <2>4, <2>5, <2>13, <3>1 DEF Lands
      <3>3. LinesBetween(old, c, t) = <<patch[n].line>>
        <4>1. Within(old, t) = t /\ c < t /\ t - c = 1
          <5>1. Len(old) \in Nat
            BY <2>3
          <5> QED  BY <2>4, <3>2, <5>1 DEF Within
        <4>2. PICK between \in Seq(Lines) : /\ between = LinesBetween(old, c, t)
                                            /\ Len(between) = 1 /\ between[1] = old[c + 1]
          <5>1. PICK size \in Nat :
                 /\ size = (IF c < Within(old, t) THEN Within(old, t) - c ELSE 0)
                 /\ LinesBetween(old, c, t) \in Seq(Lines)
                 /\ Len(LinesBetween(old, c, t)) = size
                 /\ \A i \in 1..size : LinesBetween(old, c, t)[i] = old[c + i]
            <6>1. old \in Seq(Lines) /\ c <= t
              BY <2>3, <2>4
            <6> QED  BY <6>1, BetweenIs
          <5>2. size = 1 /\ 1 \in 1..size
            BY <4>1, <5>1
          <5>3. LinesBetween(old, c, t)[1] = old[c + 1]
            BY <5>1, <5>2
          <5> QED  BY <5>1, <5>2, <5>3
        <4>3. between = <<between[1]>>
          BY <4>2
        <4> QED  BY <3>2, <4>2, <4>3
      <3>4. output \in Seq(Lines) /\ patch[n].line \in Lines
        BY <2>3, <2>5, <2>13 DEF PatchState, PatchLine
      <3>5. g[n].output = output \o LinesBetween(old, c, t)
        BY <3>2, <3>3, <3>4, AppendIsConcat
      <3> QED  BY <2>4, <2>8, <2>13, <3>5
    <2>14. CASE patch[n].tag = "+" /\ g[m].open
      <3>1. ~InOld(patch[n].tag) /\ InNew(patch[n].tag)
        BY <2>14 DEF InOld, InNew
      <3>2. t = c /\ g[n].output = Append(output, patch[n].line)
        BY <2>3, <2>4, <2>5, <2>14, <3>1 DEF Lands
      <3>3. n \in InHunk(patch)
        BY <2>10, <2>14
      <3>4. c = g[n - 1].cursor
        BY <2>1, <2>4
      <3> QED  BY <2>4, <2>6, <2>14, <3>2, <3>3, <3>4, TracedAdd
    <2>15. CASE patch[n].tag = "-" /\ g[m].open
      <3>1. InOld(patch[n].tag) /\ ~InNew(patch[n].tag)
        BY <2>15 DEF InOld, InNew
      <3>2. t = c + 1 /\ g[n].output = output
        BY <2>3, <2>4, <2>5, <2>15, <3>1 DEF Lands
      <3>3. n \in InHunk(patch)
        BY <2>10, <2>15
      <3>4. Place(patch, n) = c
        BY <2>1, <2>4, <3>3, HunkLinesLand
      <3>5. Traced(old, patch, n, c, output, q)
        BY <2>6, <2>7, <2>15, TracedSkip
      <3>6. Traced(old, patch, n, c + 1, output, q)
        BY <2>7, <2>15, <3>3, <3>4, <3>5, TracedDrop
      <3> QED  BY <2>4, <3>2, <3>6
    <2>16. CASE patch[n].tag \notin {"@@", " ", "+", "-"} /\ g[m].open
      <3>1. ~InOld(patch[n].tag) /\ ~InNew(patch[n].tag)
        BY <2>16 DEF InOld, InNew
      <3>2. t = c /\ g[n].output = output
        BY <2>3, <2>4, <2>5, <2>16, <3>1 DEF Lands
      <3>3. Traced(old, patch, n, c, output, q)
        BY <2>6, <2>7, <2>16, TracedSkip
      <3> QED  BY <2>4, <3>2, <3>3
    <2> QED  BY <2>11, <2>12, <2>13, <2>14, <2>15, <2>16
  <1>5. \A n \in 0..len : n \in S
    BY <1>3, <1>4, ByInduction
  <1> QED  BY <1>1, <1>2, <1>5

(* The new text is what a reader of the patch expects. *)
LEMMA OutputIsExpected ==
  ASSUME NEW old \in Seq(Lines), NEW patch \in Seq(PatchLine), NEW s, s = Run(old, patch), s.ok
  PROVE  /\ s.output \o LinesBetween(old, s.cursor, Len(old)) = Expected(old, patch)
         /\ \A k \in InHunk(patch) : InOld(patch[k].tag) =>
              Place(patch, k) < Len(old) /\ old[Place(patch, k) + 1] = patch[k].line
  <1>1. PICK g : Leads(old, patch, g) /\ s = g[Len(patch)]
    BY NoErrorBefore
  <1>2. PICK len \in Nat : len = Len(patch) /\ len \in 0..Len(patch)
    OBVIOUS
  <1>3. PICK c \in Nat : c = s.cursor
    BY <1>1, <1>2 DEF Leads, PatchState
  <1>4. PICK q : Traced(old, patch, len, c, s.output, q)
    BY <1>1, <1>2, <1>3, TracedAll
  <1>5. PICK t \in Nat : t = (IF c < Len(old) THEN Len(old) ELSE c) /\ c <= t /\ Len(old) <= t
    OBVIOUS
  <1>6. LinesBetween(old, c, t) = LinesBetween(old, c, Len(old))
    BY <1>5 DEF LinesBetween
  <1>7. ASSUME NEW x \in Pieces(old, patch), x[2] <= len PROVE x[1] <= c
    <2>1. len \in 1..Len(patch)
      BY <1>1, <1>2, <1>7, PiecesAre
    <2>2. x[1] <= g[len - 1].cursor /\ x[1] \in Nat
      BY <1>1, <1>7, <2>1, PiecesBefore, PiecesAre
    <2>3. g[len - 1].cursor \in Nat /\ g[len - 1].cursor <= g[len].cursor /\ g[len].cursor = c
      BY <1>1, <1>2, <1>3, <2>1, StateIs
    <2> QED  BY <2>2, <2>3
  <1>8. ASSUME NEW m \in c..t - 1, m < Len(old) PROVE <<m, Len(patch) + 1>> \in Pieces(old, patch)
    <2>1. ASSUME NEW k \in InHunk(patch), patch[k].tag = "-" PROVE Place(patch, k) # m
      <3> SUFFICES ASSUME Place(patch, k) = m PROVE FALSE
        OBVIOUS
      <3>1. InOld(patch[k].tag)
        BY <2>1 DEF InOld
      <3>2. k \in 1..Len(patch) /\ g[k].cursor = m + 1
        BY <1>1, <3>1, HunkLinesLand
      <3>3. k \in 0..Len(patch) /\ k <= len
        BY <1>2, <3>2
      <3>4. g[k].cursor <= g[len].cursor
        BY <1>1, <1>2, <3>3, CursorsGrow
      <3> QED  BY <1>1, <1>2, <1>3, <3>2, <3>4
    <2>2. m \in Nat
      OBVIOUS
    <2> QED  BY <1>8, <2>1, <2>2, KeptIsPiece
  <1>9. PICK text : text = s.output \o LinesBetween(old, c, t)
    OBVIOUS
  <1>10. PICK r : Traced(old, patch, len, t, text, r)
    BY <1>1, <1>2, <1>4, <1>5, <1>7, <1>8, <1>9, TracedKeep
  <1>11. \A x \in Pieces(old, patch) : x \in Nat \X Nat /\ Behind(patch, len, t, x)
    <2> TAKE x \in Pieces(old, patch)
    <2>1. x \in Nat \X Nat /\ (x[2] \in 1..Len(patch) \/ (x[2] = Len(patch) + 1 /\ x[1] < Len(old)))
      BY <1>1, PiecesAre
    <2> QED  BY <1>2, <1>5, <2>1 DEF Behind
  <1> DEFINE pieces == Pieces(old, patch)
  <1>12. \A x \in pieces : x \in Nat \X Nat
    BY <1>11
  <1>13. PICK size \in Nat : size = Len(r) /\ size = Len(text) /\ text \in Seq(Lines) /\ r \in Seq(Nat \X Nat)
    BY <1>10 DEF Traced
  <1>14. /\ \A i \in 1..size : r[i] \in pieces /\ text[i] = PieceLine(old, patch, r[i])
         /\ \A x \in pieces : \E i \in 1..size : r[i] = x
         /\ Ascends(r)
    BY <1>10, <1>11, <1>13 DEF Traced
  <1>15. /\ Cardinality(pieces) = size
         /\ \A i \in 1..size : Cardinality({y \in pieces : Precedes(y, r[i])}) = i - 1
    <2>1. Lists(r, pieces)
      BY <1>12, <1>13, <1>14 DEF Lists
    <2> QED  BY <1>13, <2>1, RankIs
  <1> DEFINE nth(n) == CHOOSE x \in pieces : Cardinality({y \in pieces : Precedes(y, x)}) = n - 1
  <1>16. ASSUME NEW n \in 1..size PROVE nth(n) = r[n]
    <2>1. r[n] \in pieces /\ Cardinality({y \in pieces : Precedes(y, r[n])}) = n - 1
      BY <1>14, <1>15
    <2>2. ASSUME NEW x \in pieces, Cardinality({y \in pieces : Precedes(y, x)}) = n - 1 PROVE x = r[n]
      <3>1. PICK i \in 1..size : r[i] = x
        BY <1>14
      <3>2. Cardinality({y \in pieces : Precedes(y, x)}) = i - 1
        BY <1>15, <3>1
      <3>3. i - 1 = n - 1
        BY <2>2, <3>2
      <3> QED  BY <3>1, <3>3
    <2> QED  BY <2>1, <2>2
  <1>17. Expected(old, patch) = [n \in 1..size |-> PieceLine(old, patch, nth(n))]
    BY <1>15, Zenon DEF Expected
  <1> HIDE DEF nth
  <1>18. text = [n \in 1..size |-> PieceLine(old, patch, nth(n))]
    <2>1. DOMAIN text = 1..size /\ text = [n \in 1..size |-> text[n]]
      BY <1>13
    <2>2. \A n \in 1..size : text[n] = PieceLine(old, patch, nth(n))
      BY <1>14, <1>16
    <2> QED  BY <2>1, <2>2
  <1>19. \A k \in InHunk(patch) : InOld(patch[k].tag) =>
           Place(patch, k) < Len(old) /\ old[Place(patch, k) + 1] = patch[k].line
    BY <1>1, HunkLinesLand
  <1> QED  BY <1>3, <1>6, <1>9, <1>17, <1>18, <1>19

(* A patch of the agent that is accepted (apply_document_patch) changes what it
   declares and nothing else: each line it mentions is the old line at the place
   its hunk declares, and the new text is made of the old lines it does not
   remove and of the lines it adds, each where it is declared. *)
THEOREM PatchesLand == EditSpec => []PatchLandsWhereDeclared
  <1>1. ASSUME EditInv PROVE PatchLandsWhereDeclared
    <2> SUFFICES ASSUME edit # None, edit.asked # None
                 PROVE  /\ doc = Joined(Expected(edit.before.lines, edit.asked), edit.before.nl)
                        /\ \A k \in InHunk(edit.asked) : InOld(edit.asked[k].tag) =>
                             /\ Place(edit.asked, k) < Len(edit.before.lines)
                             /\ edit.before.lines[Place(edit.asked, k) + 1] = edit.asked[k].line
      BY DEF PatchLandsWhereDeclared
    <2>1. IsText(edit.before) /\ Applies(edit.before, edit.asked) /\ doc = Patched(edit.before, edit.asked)
          /\ edit.asked \in Seq(PatchLine)
      BY <1>1, PatchAssumption DEF EditInv, EditIsTrue
    <2>2. PICK old \in Seq(Lines) : old = edit.before.lines
      BY <2>1 DEF IsText
    <2>3. PICK patch \in Seq(PatchLine) : patch = edit.asked
      BY <2>1
    <2>4. PICK s : s = Run(old, patch)
      OBVIOUS
    <2>5. s.ok
      BY <2>1, <2>2, <2>3, <2>4 DEF Applies
    <2>6. doc = Joined(s.output \o LinesBetween(old, s.cursor, Len(old)), edit.before.nl)
      BY <2>1, <2>2, <2>3, <2>4 DEF Patched
    <2> QED  BY <2>2, <2>3, <2>4, <2>5, <2>6, OutputIsExpected
  <1> QED  BY <1>1, EditsAreTrue, PTL

-----------------------------------------------------------------------------
(* The diff: the path of the edit script through the two texts. *)
Same == " "

LEMMA SameIs ==
  /\ InOld(Same) /\ InNew(Same) /\ InOld("-") /\ ~InNew("-") /\ ~InOld("+") /\ InNew("+")
  /\ ~InOld("end") /\ ~InNew("end")
  /\ Same # "-" /\ Same # "+" /\ Same # "end" /\ Same # "@@" /\ Same # "\\"
  BY Zenon DEF Same, InOld, InNew

Point == [i : Nat, j : Nat]

PointHolds(old, new, kept, x) ==
  /\ x \in Point
  /\ x.i \in 1..Len(old) + 1 /\ x.j \in 1..Len(new) + 1
  /\ \A m \in kept : m[1] < x.i <=> m[2] < x.j

(* What line o of the script has to do with the points before and after it. *)
OpIs(old, new, o, x, y) ==
  /\ o.before = x.i
  /\ \/ /\ o.tag = "-" /\ x.i <= Len(old) /\ o.line = old[x.i]
        /\ y.i = x.i + 1 /\ y.j = x.j
     \/ /\ o.tag = "+" /\ x.j <= Len(new) /\ o.line = new[x.j]
        /\ y.i = x.i /\ y.j = x.j + 1
     \/ /\ o.tag = Same /\ x.i <= Len(old) /\ x.j <= Len(new)
        /\ o.line = old[x.i] /\ old[x.i] = new[x.j]
        /\ y.i = x.i + 1 /\ y.j = x.j + 1

LEMMA KeptIs ==
  ASSUME NEW old \in Seq(Lines), NEW new \in Seq(Lines), NEW kept \in Pairings(old, new)
  PROVE  /\ \A m \in kept : /\ m \in Nat \X Nat /\ m[1] \in 1..Len(old) /\ m[2] \in 1..Len(new)
                            /\ old[m[1]] = new[m[2]]
         /\ \A x, y \in kept : x[1] = y[1] \/ x[2] = y[2] => x = y
         /\ \A x, y \in kept : x[1] < y[1] <=> x[2] < y[2]
  <1>1. Uncrossed(kept)
    BY DEF Pairings
  <1>2. ASSUME NEW m \in kept
        PROVE  m \in Nat \X Nat /\ m[1] \in 1..Len(old) /\ m[2] \in 1..Len(new) /\ old[m[1]] = new[m[2]]
    <2>1. m \in (DOMAIN old) \X (DOMAIN new) /\ old[m[1]] = new[m[2]]
      BY DEF Pairings
    <2>2. DOMAIN old = 1..Len(old) /\ DOMAIN new = 1..Len(new)
      OBVIOUS
    <2> QED  BY <2>1, <2>2
  <1>3. ASSUME NEW x \in kept, NEW y \in kept
        PROVE  (x[1] = y[1] \/ x[2] = y[2] => x = y) /\ (x[1] < y[1] <=> x[2] < y[2])
    <2>1. x = y \/ (x[1] < y[1] /\ x[2] < y[2]) \/ (y[1] < x[1] /\ y[2] < x[2])
      BY <1>1 DEF Uncrossed
    <2>2. x[1] \in Nat /\ x[2] \in Nat /\ y[1] \in Nat /\ y[2] \in Nat
      BY <1>2
    <2> QED  BY <2>1, <2>2
  <1> QED  BY <1>2, <1>3

LEMMA TagIs ==
  ASSUME NEW old \in Seq(Lines), NEW new \in Seq(Lines), NEW kept \in Pairings(old, new),
         NEW x, PointHolds(old, new, kept, x)
  PROVE  \/ /\ Tag(old, new, kept, x) = "-" /\ x.i <= Len(old)
            /\ \A m \in kept : m[1] # x.i
         \/ /\ Tag(old, new, kept, x) = "+" /\ x.j <= Len(new)
            /\ \A m \in kept : m[2] # x.j
         \/ /\ Tag(old, new, kept, x) = Same /\ x.i <= Len(old) /\ x.j <= Len(new)
            /\ old[x.i] = new[x.j]
            /\ \A m \in kept : (m[1] = x.i <=> m[2] = x.j)
         \/ /\ Tag(old, new, kept, x) = "end" /\ x.i = Len(old) + 1 /\ x.j = Len(new) + 1
  <1>1. x.i \in Nat /\ x.j \in Nat /\ x.i \in 1..Len(old) + 1 /\ x.j \in 1..Len(new) + 1
    BY DEF PointHolds
  <1>2. \A m \in kept : m[1] < x.i <=> m[2] < x.j
    BY DEF PointHolds
  <1>3. /\ \A m \in kept : /\ m \in Nat \X Nat /\ m[1] \in 1..Len(old) /\ m[2] \in 1..Len(new)
                           /\ old[m[1]] = new[m[2]]
        /\ \A y, z \in kept : y[1] = z[1] \/ y[2] = z[2] => y = z
        /\ \A y, z \in kept : y[1] < z[1] <=> y[2] < z[2]
    BY KeptIs
  <1>4. CASE x.i <= Len(old) /\ \A m \in kept : m[1] # x.i
    BY <1>4, Zenon DEF Tag
  <1>5. CASE ~(x.i <= Len(old) /\ \A m \in kept : m[1] # x.i) /\ x.j <= Len(new) /\ \A m \in kept : m[2] # x.j
    BY <1>5, Zenon DEF Tag
  <1>6. CASE x.i <= Len(old) /\ (\E m \in kept : m[1] = x.i)
             /\ ~(x.j <= Len(new) /\ \A m \in kept : m[2] # x.j)
    <2>1. Tag(old, new, kept, x) = Same
      BY <1>6, Zenon DEF Tag, Same
    <2>2. PICK m \in kept : m[1] = x.i
      BY <1>6
    <2>3. m[1] \in Nat /\ m[2] \in Nat /\ ~(m[2] < x.j) /\ m[2] <= Len(new) /\ Len(new) \in Nat
      BY <1>1, <1>2, <1>3, <2>2
    <2>4. x.j <= Len(new)
      BY <1>1, <2>3
    <2>5. PICK p \in kept : p[2] = x.j
      BY <1>6, <2>4
    <2>6. p[1] \in Nat /\ p[2] \in Nat /\ ~(p[1] < x.i)
      BY <1>1, <1>2, <1>3, <2>5
    <2>7. p[2] < m[2] <=> p[1] < m[1]
      BY <1>3
    <2>8. m[2] = x.j
      BY <1>1, <2>2, <2>3, <2>5, <2>6, <2>7
    <2>9. old[x.i] = new[x.j]
      BY <1>3, <2>2, <2>8
    <2>10. \A z \in kept : z[1] = x.i <=> z[2] = x.j
      BY <1>3, <2>2, <2>8
    <2> QED  BY <1>6, <2>1, <2>4, <2>9, <2>10
  <1>7. CASE ~(x.i <= Len(old)) /\ ~(x.j <= Len(new) /\ \A m \in kept : m[2] # x.j)
    <2>1. Tag(old, new, kept, x) = "end"
      BY <1>7, Zenon DEF Tag
    <2>2. x.i = Len(old) + 1
      BY <1>1, <1>7
    <2>3. ~(x.j <= Len(new))
      <3> SUFFICES ASSUME x.j <= Len(new) PROVE FALSE
        OBVIOUS
      <3>1. PICK m \in kept : m[2] = x.j
        BY <1>7
      <3>2. m[1] \in 1..Len(old) /\ ~(m[1] < x.i)
        BY <1>1, <1>2, <1>3, <3>1
      <3> QED  BY <1>1, <2>2, <3>2
    <2> QED  BY <1>1, <2>1, <2>2, <2>3
  <1> QED  BY <1>4, <1>5, <1>6, <1>7

LEMMA AfterIs ==
  ASSUME NEW old \in Seq(Lines), NEW new \in Seq(Lines), NEW kept \in Pairings(old, new),
         NEW x, PointHolds(old, new, kept, x), NEW y, y = After(old, new, kept, x)
  PROVE  /\ PointHolds(old, new, kept, y)
         /\ Tag(old, new, kept, x) = "end" => y = x /\ x.i = Len(old) + 1 /\ x.j = Len(new) + 1
         /\ Tag(old, new, kept, x) # "end" =>
              OpIs(old, new, Op(old, new, kept, x), x, y) /\ x.i + x.j < y.i + y.j
  <1>1. x.i \in Nat /\ x.j \in Nat /\ x.i \in 1..Len(old) + 1 /\ x.j \in 1..Len(new) + 1
        /\ x = [i |-> x.i, j |-> x.j]
    BY DEF PointHolds, Point
  <1>2. \A m \in kept : m[1] < x.i <=> m[2] < x.j
    BY DEF PointHolds
  <1>3. \A m \in kept : m[1] \in Nat /\ m[2] \in Nat
    BY KeptIs
  <1>4. PICK tag : tag = Tag(old, new, kept, x)
    OBVIOUS
  <1>5. y = [i |-> IF InOld(tag) THEN x.i + 1 ELSE x.i, j |-> IF InNew(tag) THEN x.j + 1 ELSE x.j]
    BY <1>4 DEF After
  <1>6. PICK o : o = Op(old, new, kept, x)
    OBVIOUS
  <1>7. o.tag = tag /\ o.before = x.i /\ o.line = IF tag = "+" THEN new[x.j] ELSE old[x.i]
    BY <1>4, <1>6 DEF Op
  <1>8. CASE tag = "-" /\ x.i <= Len(old) /\ \A m \in kept : m[1] # x.i
    <2>1. y = [i |-> x.i + 1, j |-> x.j]
      BY <1>5, <1>8, SameIs
    <2>2. \A m \in kept : m[1] < x.i + 1 <=> m[2] < x.j
      BY <1>1, <1>2, <1>3, <1>8
    <2>3. PointHolds(old, new, kept, y)
      BY <1>1, <1>8, <2>1, <2>2 DEF PointHolds, Point
    <2>4. OpIs(old, new, o, x, y)
      BY <1>7, <1>8, <2>1 DEF OpIs
    <2> QED  BY <1>1, <1>4, <1>6, <1>8, <2>1, <2>3, <2>4
  <1>9. CASE tag = "+" /\ x.j <= Len(new) /\ \A m \in kept : m[2] # x.j
    <2>1. y = [i |-> x.i, j |-> x.j + 1]
      BY <1>5, <1>9, SameIs
    <2>2. \A m \in kept : m[1] < x.i <=> m[2] < x.j + 1
      BY <1>1, <1>2, <1>3, <1>9
    <2>3. PointHolds(old, new, kept, y)
      BY <1>1, <1>9, <2>1, <2>2 DEF PointHolds, Point
    <2>4. OpIs(old, new, o, x, y)
      BY <1>7, <1>9, <2>1 DEF OpIs
    <2> QED  BY <1>1, <1>4, <1>6, <1>9, <2>1, <2>3, <2>4
  <1>10. CASE tag = Same /\ x.i <= Len(old) /\ x.j <= Len(new) /\ old[x.i] = new[x.j]
              /\ \A m \in kept : (m[1] = x.i <=> m[2] = x.j)
    <2>1. y = [i |-> x.i + 1, j |-> x.j + 1]
      BY <1>5, <1>10, SameIs
    <2>2. ASSUME NEW m \in kept PROVE m[1] < x.i + 1 <=> m[2] < x.j + 1
      <3>1. (m[1] < x.i <=> m[2] < x.j) /\ (m[1] = x.i <=> m[2] = x.j)
        BY <1>2, <1>10
      <3>2. m[1] \in Nat /\ m[2] \in Nat
        BY <1>3
      <3>3. PICK a \in Nat, b \in Nat : a = x.i /\ b = x.j
        BY <1>1
      <3>4. PICK p \in Nat, q \in Nat : p = m[1] /\ q = m[2]
        BY <3>2
      <3>5. (p < a <=> q < b) /\ (p = a <=> q = b)
        BY <3>1, <3>3, <3>4, Zenon
      <3>6. p < a + 1 <=> q < b + 1
        BY <3>5
      <3> QED  BY <3>3, <3>4, <3>6, Zenon
    <2>3. PointHolds(old, new, kept, y)
      BY <1>1, <1>10, <2>1, <2>2 DEF PointHolds, Point
    <2>4. OpIs(old, new, o, x, y)
      BY <1>7, <1>10, <2>1 DEF OpIs
    <2>5. x.i + x.j < y.i + y.j
      BY <1>1, <2>1
    <2>6. tag # "end"
      BY <1>10, SameIs
    <2> QED  BY <1>4, <1>6, <2>3, <2>4, <2>5, <2>6
  <1>11. CASE tag = "end" /\ x.i = Len(old) + 1 /\ x.j = Len(new) + 1
    <2>1. y = x
      BY <1>1, <1>5, <1>11, SameIs
    <2> QED  BY <1>4, <1>11, <2>1
  <1> QED  BY <1>4, <1>8, <1>9, <1>10, <1>11, TagIs

(* The points that an edit script leads through, from the first lines of both
   texts to their ends. *)
OpOf == [tag : {"-", "+", Same}, line : Lines, before : Nat]
Origin == [i |-> 1, j |-> 1]
Walks(old, new, ops, at) ==
  /\ ops \in Seq(OpOf)
  /\ at[0] = Origin
  /\ at[Len(ops)].i = Len(old) + 1 /\ at[Len(ops)].j = Len(new) + 1
  /\ \A k \in 0..Len(ops) : /\ at[k] \in Point
                            /\ at[k].i \in 1..Len(old) + 1 /\ at[k].j \in 1..Len(new) + 1
  /\ \A k \in 1..Len(ops) : OpIs(old, new, ops[k], at[k - 1], at[k])

LEMMA AfterIsPoint ==
  ASSUME NEW old, NEW new, NEW kept, NEW x \in Point
  PROVE  After(old, new, kept, x) \in Point
  <1>1. x.i \in Nat /\ x.j \in Nat
    BY DEF Point
  <1>2. PICK i \in Nat : i = IF InOld(Tag(old, new, kept, x)) THEN x.i + 1 ELSE x.i
    <2>1. CASE InOld(Tag(old, new, kept, x))
      BY <1>1, <2>1
    <2>2. CASE ~InOld(Tag(old, new, kept, x))
      BY <1>1, <2>2
    <2> QED  BY <2>1, <2>2
  <1>3. PICK j \in Nat : j = IF InNew(Tag(old, new, kept, x)) THEN x.j + 1 ELSE x.j
    <2>1. CASE InNew(Tag(old, new, kept, x))
      BY <1>1, <2>1
    <2>2. CASE ~InNew(Tag(old, new, kept, x))
      BY <1>1, <2>2
    <2> QED  BY <2>1, <2>2
  <1>4. After(old, new, kept, x) = [i |-> i, j |-> j]
    BY <1>2, <1>3, Zenon DEF After
  <1> QED  BY <1>4 DEF Point

LEMMA OpIsTyped ==
  ASSUME NEW old \in Seq(Lines), NEW new \in Seq(Lines), NEW kept, NEW x, NEW y,
         NEW o, o = Op(old, new, kept, x), OpIs(old, new, o, x, y),
         x.i \in 1..Len(old) + 1, x.j \in 1..Len(new) + 1
  PROVE  o \in OpOf
  <1>1. o.before = x.i /\ x.i \in Nat
    BY DEF OpIs
  <1>2. ASSUME o.tag \in {"-", Same}, x.i <= Len(old), o.line = old[x.i]
        PROVE  o.line \in Lines
    <2>1. x.i \in 1..Len(old)
      BY <1>2
    <2> QED  BY <1>2, <2>1
  <1>3. ASSUME o.tag = "+", x.j <= Len(new), o.line = new[x.j]
        PROVE  o.line \in Lines
    <2>1. x.j \in 1..Len(new)
      BY <1>3
    <2> QED  BY <1>3, <2>1
  <1>4. o.tag \in {"-", "+", Same} /\ o.line \in Lines
    BY <1>2, <1>3 DEF OpIs
  <1>5. o = [tag |-> o.tag, line |-> o.line, before |-> o.before]
    BY DEF Op
  <1> QED  BY <1>1, <1>4, <1>5 DEF OpOf

(* Before a point that is not the end, there are at least two lines more than
   there are points before it. *)
Reached(old, new, kept, n, x) ==
  PointHolds(old, new, kept, x) /\ (Tag(old, new, kept, x) = "end" \/ x.i + x.j >= n + 2)

LEMMA OriginReached ==
  ASSUME NEW old \in Seq(Lines), NEW new \in Seq(Lines), NEW kept \in Pairings(old, new)
  PROVE  Reached(old, new, kept, 0, Origin)
  <1>1. \A m \in kept : m[1] \in 1..Len(old) /\ m[2] \in 1..Len(new)
    BY KeptIs
  <1>2. Origin \in Point /\ Origin.i = 1 /\ Origin.j = 1
    BY DEF Origin, Point
  <1>3. \A m \in kept : ~(m[1] < 1) /\ ~(m[2] < 1)
    BY <1>1
  <1> QED  BY <1>2, <1>3 DEF Reached, PointHolds

LEMMA ReachedGoesOn ==
  ASSUME NEW old \in Seq(Lines), NEW new \in Seq(Lines), NEW kept \in Pairings(old, new),
         NEW n \in Nat, NEW x, Reached(old, new, kept, n, x)
  PROVE  Reached(old, new, kept, n + 1, After(old, new, kept, x))
  <1>1. PointHolds(old, new, kept, x) /\ (Tag(old, new, kept, x) = "end" \/ x.i + x.j >= n + 2)
    BY DEF Reached
  <1>2. PICK y : y = After(old, new, kept, x)
    OBVIOUS
  <1>3. /\ PointHolds(old, new, kept, y)
        /\ Tag(old, new, kept, x) = "end" => y = x
        /\ Tag(old, new, kept, x) # "end" => x.i + x.j < y.i + y.j
    BY <1>1, <1>2, AfterIs
  <1>4. x.i \in Nat /\ x.j \in Nat /\ y.i \in Nat /\ y.j \in Nat
    BY <1>1, <1>3 DEF PointHolds, Point
  <1>5. \A p, q \in Nat : p >= n + 2 /\ p < q => q >= (n + 1) + 2
    OBVIOUS
  <1>6. x.i + x.j \in Nat /\ y.i + y.j \in Nat
    <2>1. \A p, q \in Nat : p + q \in Nat
      OBVIOUS
    <2> QED  BY <1>4, <2>1
  <1>7. Tag(old, new, kept, x) # "end" => y.i + y.j >= (n + 1) + 2
    BY <1>1, <1>3, <1>5, <1>6
  <1> QED  BY <1>1, <1>2, <1>3, <1>7 DEF Reached

LEMMA ReachedEnd ==
  ASSUME NEW old \in Seq(Lines), NEW new \in Seq(Lines), NEW kept \in Pairings(old, new),
         NEW x, Reached(old, new, kept, Len(old) + Len(new), x)
  PROVE  Tag(old, new, kept, x) = "end"
  <1>1. PointHolds(old, new, kept, x)
    BY DEF Reached
  <1>2. x.i \in Nat /\ x.j \in Nat /\ x.i <= Len(old) + 1 /\ x.j <= Len(new) + 1
    BY <1>1 DEF PointHolds
  <1>3. Tag(old, new, kept, x) = "end" \/ x.i <= Len(old) \/ x.j <= Len(new)
    BY <1>1, TagIs
  <1>4. Tag(old, new, kept, x) = "end" \/ x.i + x.j >= Len(old) + Len(new) + 2
    BY DEF Reached
  <1>5. \A p, q, l, m \in Nat : p <= l + 1 /\ q <= m + 1 /\ p + q >= l + m + 2 => p = l + 1 /\ q = m + 1
    OBVIOUS
  <1>6. Len(old) \in Nat /\ Len(new) \in Nat
    OBVIOUS
  <1>7. CASE x.i + x.j >= Len(old) + Len(new) + 2
    <2>1. x.i = Len(old) + 1 /\ x.j = Len(new) + 1
      BY <1>2, <1>5, <1>6, <1>7
    <2> QED  BY <1>3, <1>6, <2>1
  <1> QED  BY <1>4, <1>7

LEMMA ScriptWalks ==
  ASSUME NEW old \in Seq(Lines), NEW new \in Seq(Lines), NEW kept \in Pairings(old, new)
  PROVE  \E at : Walks(old, new, Script(old, new, kept), at)
  <1>1. PICK len \in Nat : len = Len(old) + Len(new)
    OBVIOUS
  <1>2. PICK step : step = [n \in 1..len |-> [x \in Point |-> After(old, new, kept, x)]]
    OBVIOUS
  <1>3. StepsIn(Point, len, step)
    <2>1. [x \in Point |-> After(old, new, kept, x)] \in [Point -> Point]
      BY AfterIsPoint
    <2> QED  BY <1>2, <2>1 DEF StepsIn
  <1>4. Origin \in Point
    BY DEF Origin, Point
  <1>5. PICK g : LeadsOn(Point, len, step, Origin, g)
    BY <1>3, <1>4, ByRecursion
  <1>6. g \in [0..len -> Point] /\ g[0] = Origin /\ \A n \in 1..len : g[n] = step[n][g[n - 1]]
    BY <1>5 DEF LeadsOn
  <1>7. ASSUME NEW n \in 1..len PROVE g[n] = After(old, new, kept, g[n - 1])
    <2>1. n - 1 \in 0..len
      OBVIOUS
    <2>2. g[n - 1] \in Point
      BY <1>6, <2>1
    <2> QED  BY <1>2, <1>6, <2>2
  <1>8. g = [n \in 0..len |-> IF n = 0 THEN Origin ELSE After(old, new, kept, g[n - 1])]
    BY <1>6, <1>7
  <1> DEFINE Ends(f, k) == /\ Tag(old, new, kept, f[k]) = "end"
                           /\ \A m \in 0..k - 1 : Tag(old, new, kept, f[m]) # "end"
  <1>9. PICK f : /\ f = [n \in 0..len |-> IF n = 0 THEN Origin ELSE After(old, new, kept, f[n - 1])]
                 /\ Script(old, new, kept) =
                      [k \in 1..(CHOOSE k \in DOMAIN f : Ends(f, k)) |-> Op(old, new, kept, f[k - 1])]
    BY <1>1, <1>8 DEF Script, Origin
  <1>10. DOMAIN f = 0..len /\ f[0] = Origin /\ \A n \in 1..len : f[n] = After(old, new, kept, f[n - 1])
    BY <1>9
  <1>11. \A n \in 0..len : Reached(old, new, kept, n, f[n])
    <2>1. PICK S : S = {n \in 0..len : Reached(old, new, kept, n, f[n])}
      OBVIOUS
    <2>2. 0 \in S
      BY <1>10, <2>1, OriginReached
    <2>3. ASSUME NEW n \in 1..len, n - 1 \in S PROVE n \in S
      <3>1. PICK k \in Nat : k = n - 1 /\ k + 1 = n
        OBVIOUS
      <3>2. Reached(old, new, kept, k, f[k])
        BY <2>1, <2>3, <3>1
      <3>3. Reached(old, new, kept, k + 1, After(old, new, kept, f[k]))
        BY <3>2, ReachedGoesOn
      <3>4. f[n] = After(old, new, kept, f[k])
        BY <1>10, <3>1
      <3> QED  BY <2>1, <3>1, <3>3, <3>4
    <2>4. \A n \in 0..len : n \in S
      BY <2>2, <2>3, ByInduction
    <2> QED  BY <2>1, <2>4
  <1>12. PICK size \in 0..len : Ends(f, size) /\ size = CHOOSE k \in DOMAIN f : Ends(f, k)
    <2>1. PICK T : T = {n \in 0..len : Tag(old, new, kept, f[n]) = "end"}
      OBVIOUS
    <2>2. Tag(old, new, kept, f[len]) = "end"
      BY <1>1, <1>11, ReachedEnd
    <2>3. T \subseteq Nat /\ T # {}
      BY <2>1, <2>2
    <2>4. PICK n \in T : \A k \in T : n <= k
      BY <2>3, LeastOf
    <2>5. \A m \in 0..n - 1 : m \notin T
      BY <2>1, <2>3, <2>4
    <2>6. n \in 0..len /\ Ends(f, n)
      BY <2>1, <2>5
    <2> HIDE DEF Ends
    <2> QED  BY <1>10, <2>6
  <1>13. PICK ops : ops = Script(old, new, kept)
    OBVIOUS
  <1>14. ops = [k \in 1..size |-> Op(old, new, kept, f[k - 1])]
    BY <1>9, <1>12, <1>13
  <1>15. \A k \in 0..size : PointHolds(old, new, kept, f[k])
    BY <1>11 DEF Reached
  <1>16. ASSUME NEW k \in 1..size
         PROVE  ops[k] \in OpOf /\ OpIs(old, new, ops[k], f[k - 1], f[k])
    <2>1. PICK m \in 0..size : m = k - 1 /\ m \in 0..size - 1
      OBVIOUS
    <2>2. Tag(old, new, kept, f[m]) # "end" /\ PointHolds(old, new, kept, f[m])
      BY <1>12, <1>15, <2>1
    <2>3. ops[k] = Op(old, new, kept, f[m]) /\ f[k] = After(old, new, kept, f[m])
      BY <1>10, <1>14, <2>1
    <2>4. OpIs(old, new, Op(old, new, kept, f[m]), f[m], f[k])
      BY <2>2, <2>3, AfterIs
    <2>5. f[m].i \in 1..Len(old) + 1 /\ f[m].j \in 1..Len(new) + 1
      BY <2>2 DEF PointHolds
    <2>6. ops[k] \in OpOf
      BY <2>3, <2>4, <2>5, OpIsTyped
    <2> QED  BY <2>1, <2>3, <2>4, <2>6
  <1>17. ops \in Seq(OpOf) /\ Len(ops) = size
    <2>1. size \in Nat
      BY <1>12
    <2>2. ops \in [1..size -> OpOf]
      BY <1>14, <1>16
    <2> QED  BY <2>1, <2>2
  <1>18. f[size].i = Len(old) + 1 /\ f[size].j = Len(new) + 1
    <2>1. Tag(old, new, kept, f[size]) = "end"
      BY <1>12
    <2>2. size \in 0..size
      BY <1>12
    <2>3. PointHolds(old, new, kept, f[size])
      BY <1>15, <2>2
    <2> QED  BY <2>1, <2>3, SameIs, TagIs
  <1>19. \A k \in 0..size : f[k] \in Point /\ f[k].i \in 1..Len(old) + 1 /\ f[k].j \in 1..Len(new) + 1
    BY <1>15 DEF PointHolds
  <1> QED  BY <1>10, <1>13, <1>16, <1>17, <1>18, <1>19 DEF Walks

(* Texts one line longer. *)
LEMMA NextLine ==
  ASSUME NEW lines \in Seq(Lines), NEW j \in 1..Len(lines)
  PROVE  /\ SubSeq(lines, 1, j - 1) \in Seq(Lines) /\ lines[j] \in Lines
         /\ SubSeq(lines, 1, j) = Append(SubSeq(lines, 1, j - 1), lines[j])
  <1>1. PICK n \in Nat : n = Len(lines)
    OBVIOUS
  <1>2. 1 \in 1..n /\ j \in 1..n /\ lines[j] \in Lines
    BY <1>1
  <1>3. SubSeq(lines, 1, j) = SubSeq(lines, 1, j - 1) \o <<lines[j]>>
    BY <1>1, <1>2, SubSeqRecursiveSecond
  <1>4. SubSeq(lines, 1, j - 1) \in Seq(Lines)
    <2>1. \A i \in 1..j - 1 : lines[i] \in Lines
      BY <1>1
    <2>2. 1 \in Int /\ j - 1 \in Int
      OBVIOUS
    <2> QED  BY <2>1, <2>2, SubSeqProperties
  <1> QED  BY <1>2, <1>3, <1>4, AppendIsConcat

LEMMA NextKept ==
  ASSUME NEW lines \in Seq(Lines), NEW i \in 1..Len(lines), NEW c \in 0..i - 1
  PROVE  /\ LinesBetween(lines, c, i - 1) \in Seq(Lines)
         /\ LinesBetween(lines, c, i) = Append(LinesBetween(lines, c, i - 1), lines[i])
  <1>1. PICK n \in Nat : n = Len(lines)
    OBVIOUS
  <1>2. c + 1 \in 1..n /\ i \in c + 1..n /\ lines[i] \in Lines /\ i - 1 \in Nat /\ c \in Nat
    BY <1>1
  <1>3. LinesBetween(lines, c, i) = SubSeq(lines, c + 1, i)
    BY <1>1, <1>2 DEF LinesBetween
  <1>4. LinesBetween(lines, c, i - 1) = SubSeq(lines, c + 1, i - 1)
    BY <1>1, <1>2 DEF LinesBetween
  <1>5. SubSeq(lines, c + 1, i) = SubSeq(lines, c + 1, i - 1) \o <<lines[i]>>
    BY <1>1, <1>2, SubSeqRecursiveSecond
  <1>6. LinesBetween(lines, c, i - 1) \in Seq(Lines)
    BY <1>2, BetweenAreLines
  <1> QED  BY <1>2, <1>3, <1>4, <1>5, <1>6, AppendIsConcat

LEMMA NoneBetween ==
  ASSUME NEW lines \in Seq(Lines), NEW c \in Nat
  PROVE  LinesBetween(lines, c, c) = <<>>
  <1>1. PICK last \in Nat : last = (IF c < Len(lines) THEN c ELSE Len(lines)) /\ last <= c
    OBVIOUS
  <1>2. last \in Int /\ c + 1 \in Int /\ last < c + 1
    BY <1>1
  <1> QED  BY <1>1, <1>2, SubSeqEmpty DEF LinesBetween

(* What a patch that is a diff has come to: all up to point x is written, or
   left between the hunks. *)
Passed(old, new, x, s) ==
  /\ s \in PatchState /\ s.ok /\ CountHolds(s) /\ s.cursor < x.i
  /\ s.output \o LinesBetween(old, s.cursor, x.i - 1) = SubSeq(new, 1, x.j - 1)

(* In the hunk that line f of the script begins, after line k. *)
OldLines(ops, shown, f) == Cardinality({m \in HunkFrom(shown, f) : InOld(ops[m].tag)})
Removals(ops, f, k) == Cardinality({m \in f..k : ops[m].tag = "-"})
Hunk(new, ops, shown, f, k, x, s) ==
  /\ f..k \subseteq shown
  /\ s \in PatchState /\ s.ok /\ s.open /\ s.cursor + 1 = x.i
  /\ s.output = SubSeq(new, 1, x.j - 1)
  /\ s.old_count = OldLines(ops, shown, f) /\ s.removed = Removals(ops, f, k)

LEMMA HunkIsPassed ==
  ASSUME NEW old \in Seq(Lines), NEW new \in Seq(Lines), NEW ops \in Seq(OpOf),
         NEW shown \in SUBSET (1..Len(ops)), NEW f \in Nat, NEW k \in Nat,
         NEW x, NEW s, Hunk(new, ops, shown, f, k, x, s)
  PROVE  Passed(old, new, x, s)
  <1>1. /\ f..k \subseteq shown
        /\ s \in PatchState /\ s.ok /\ s.open /\ s.cursor + 1 = x.i
        /\ s.output = SubSeq(new, 1, x.j - 1)
        /\ s.old_count = OldLines(ops, shown, f) /\ s.removed = Removals(ops, f, k)
    BY DEF Hunk
  <1>2. s.cursor \in Nat /\ s.output \in Seq(Lines)
    BY <1>1 DEF PatchState
  <1>3. s.cursor < x.i /\ x.i - 1 = s.cursor
    <2>1. PICK c \in Nat : c = s.cursor
      BY <1>2
    <2>2. x.i = c + 1
      BY <1>1, <2>1
    <2>3. c < c + 1 /\ (c + 1) - 1 = c
      OBVIOUS
    <2> QED  BY <2>1, <2>2, <2>3, Zenon
  <1>4. s.output \o LinesBetween(old, s.cursor, x.i - 1) = s.output
    <2>1. LinesBetween(old, s.cursor, x.i - 1) = <<>>
      BY <1>2, <1>3, NoneBetween
    <2> QED  BY <1>2, <2>1, ConcatEmptySeq
  <1>5. CountHolds(s)
    <2>1. PICK T : T = {m \in HunkFrom(shown, f) : InOld(ops[m].tag)}
      OBVIOUS
    <2>2. PICK R : R = {m \in f..k : ops[m].tag = "-"}
      OBVIOUS
    <2>3. R \subseteq T
      <3> SUFFICES ASSUME NEW m \in R PROVE m \in T
        OBVIOUS
      <3>1. m \in f..k /\ ops[m].tag = "-"
        BY <2>2
      <3>2. m >= f /\ f..m \subseteq f..k
        BY <3>1
      <3>3. m \in shown /\ f..m \subseteq shown
        BY <1>1, <3>1, <3>2
      <3> QED  BY <2>1, <3>1, <3>2, <3>3, SameIs DEF HunkFrom
    <2>4. IsFiniteSet(T)
      <3>1. T \in SUBSET (1..Len(ops))
        BY <2>1 DEF HunkFrom
      <3>2. IsFiniteSet(1..Len(ops))
        <4>1. 1 \in Int /\ Len(ops) \in Int
          OBVIOUS
        <4> QED  BY <4>1, FS_Interval
      <3> QED  BY <3>1, <3>2, FS_Subset
    <2>5. Cardinality(R) <= Cardinality(T)
      BY <2>3, <2>4, FS_Subset
    <2> QED  BY <1>1, <2>1, <2>2, <2>5 DEF CountHolds, OldLines, Removals
  <1> QED  BY <1>1, <1>3, <1>4, <1>5 DEF Passed

PointIn(old, new, x) ==
  x \in Point /\ x.i \in 1..Len(old) + 1 /\ x.j \in 1..Len(new) + 1

LEMMA OpIsLine ==
  ASSUME NEW tag \in {"-", "+", Same}, NEW line \in Lines
  PROVE  [tag |-> tag, line |-> line] \in PatchLine
  <1> DEFINE tags == {" ", "-", "+", "\\", "other"}
  <1>1. tag \in tags
    BY Zenon DEF Same
  <1> HIDE DEF tags
  <1>2. [tag |-> tag, line |-> line] \in [tag : tags, line : Lines]
    BY <1>1
  <1> QED  BY <1>2, Zenon DEF PatchLine, tags

LEMMA HunkGoesOn ==
  ASSUME NEW old \in Seq(Lines), NEW new \in Seq(Lines), NEW ops \in Seq(OpOf),
         NEW shown \in SUBSET (1..Len(ops)), NEW f \in Nat, NEW k \in Nat,
         f <= k + 1, k + 1 \in shown, NEW x, NEW y, PointIn(old, new, x),
         NEW o, o = ops[k + 1], OpIs(old, new, o, x, y),
         NEW s, Hunk(new, ops, shown, f, k, x, s)
  PROVE  Hunk(new, ops, shown, f, k + 1, y, LineDone(old, s, [tag |-> o.tag, line |-> o.line]))
  <1>1. /\ f..k \subseteq shown
        /\ s \in PatchState /\ s.ok /\ s.open /\ s.cursor + 1 = x.i
        /\ s.output = SubSeq(new, 1, x.j - 1)
        /\ s.old_count = OldLines(ops, shown, f) /\ s.removed = Removals(ops, f, k)
    BY DEF Hunk
  <1>2. PICK c \in Nat : c = s.cursor /\ x.i = c + 1
    BY <1>1 DEF PatchState
  <1>3. o \in OpOf
    <2>1. k + 1 \in 1..Len(ops)
      OBVIOUS
    <2> QED  BY <2>1
  <1>4. o.tag \in {"-", "+", Same} /\ o.line \in Lines
    BY <1>3 DEF OpOf
  <1>5. PICK p : p = [tag |-> o.tag, line |-> o.line]
    OBVIOUS
  <1>6. p \in PatchLine /\ p.tag = o.tag /\ p.line = o.line
    <2>1. p \in PatchLine
      BY <1>4, <1>5, OpIsLine
    <2> QED  BY <1>5, <2>1
  <1>7. p.tag # "@@"
    BY <1>4, <1>6, SameIs
  <1>8. PICK t : t = LineDone(old, s, p)
    OBVIOUS
  <1>9. t = HunkLine(old, s, p)
    BY <1>1, <1>7, <1>8, Zenon DEF LineDone
  <1>10. t \in PatchState
    BY <1>1, <1>6, <1>7, <1>9, HunkLineIs, Zenon
  <1>11. t = [cursor |-> IF InOld(p.tag) THEN s.cursor + 1 ELSE s.cursor,
              output |-> IF InNew(p.tag) THEN Append(s.output, p.line) ELSE s.output,
              open |-> s.open, old_count |-> s.old_count,
              removed |-> IF p.tag = "-" THEN s.removed + 1 ELSE s.removed,
              ok |-> /\ s.ok /\ p.tag \in {" ", "-", "+", "\\"}
                     /\ InOld(p.tag) => s.cursor < Len(old) /\ old[s.cursor + 1] = p.line]
    BY <1>1, <1>6, <1>7, <1>9, HunkLineIs, Zenon
  <1>12. /\ t.open = s.open /\ t.old_count = s.old_count
         /\ t.cursor = IF InOld(p.tag) THEN s.cursor + 1 ELSE s.cursor
         /\ t.output = IF InNew(p.tag) THEN Append(s.output, p.line) ELSE s.output
         /\ t.removed = IF p.tag = "-" THEN s.removed + 1 ELSE s.removed
    BY <1>11, Zenon
  <1>13. t.ok
    <2>1. ASSUME InOld(p.tag) PROVE s.cursor < Len(old) /\ old[s.cursor + 1] = p.line
      <3>1. x.i <= Len(old) /\ o.line = old[x.i]
        BY <1>6, <2>1, SameIs DEF OpIs
      <3> QED  BY <1>2, <1>6, <3>1
    <2>2. t.ok = (/\ s.ok /\ p.tag \in {" ", "-", "+", "\\"}
                  /\ InOld(p.tag) => s.cursor < Len(old) /\ old[s.cursor + 1] = p.line)
      BY <1>11, Zenon
    <2>3. p.tag \in {" ", "-", "+", "\\"}
      BY <1>4, <1>6, Zenon DEF Same
    <2> QED  BY <1>1, <2>1, <2>2, <2>3, Zenon
  <1>14. t.cursor + 1 = y.i
    <2>1. CASE InOld(p.tag)
      <3>1. y.i = x.i + 1
        BY <1>6, <2>1, SameIs DEF OpIs
      <3>2. t.cursor = c + 1
        BY <1>2, <1>12, <2>1
      <3> QED  BY <1>2, <3>1, <3>2
    <2>2. CASE ~InOld(p.tag)
      <3>1. y.i = x.i
        BY <1>6, <2>2, SameIs DEF OpIs
      <3>2. t.cursor = c
        BY <1>2, <1>12, <2>2
      <3> QED  BY <1>2, <3>1, <3>2
    <2> QED  BY <2>1, <2>2
  <1>15. t.output = SubSeq(new, 1, y.j - 1)
    <2>1. PICK j \in Nat : j = x.j /\ j >= 1
      BY DEF PointIn
    <2>2. CASE InNew(p.tag)
      <3>1. x.j <= Len(new) /\ o.line = new[x.j] /\ y.j = x.j + 1
        BY <1>6, <2>2, SameIs DEF OpIs
      <3>2. j \in 1..Len(new) /\ y.j - 1 = j /\ o.line = new[j]
        BY <2>1, <3>1
      <3>3. t.output = Append(SubSeq(new, 1, j - 1), new[j])
        BY <1>1, <1>6, <1>12, <2>1, <2>2, <3>2
      <3> QED  BY <3>2, <3>3, NextLine
    <2>3. CASE ~InNew(p.tag)
      <3>1. y.j = x.j
        BY <1>6, <2>3, SameIs DEF OpIs
      <3> QED  BY <1>1, <1>12, <2>3, <3>1
    <2> QED  BY <2>2, <2>3
  <1>16. t.removed = Removals(ops, f, k + 1)
    <2>1. PICK R : R = {m \in f..k : ops[m].tag = "-"}
      OBVIOUS
    <2>2. PICK Q : Q = {m \in f..k + 1 : ops[m].tag = "-"}
      OBVIOUS
    <2>3. IsFiniteSet(R) /\ Cardinality(R) \in Nat
      <3>1. IsFiniteSet(f..k)
        BY FS_Interval
      <3>2. R \in SUBSET (f..k)
        BY <2>1
      <3> QED  BY <3>1, <3>2, FS_Subset, FS_CardinalityType
    <2>4. CASE p.tag = "-"
      <3>1. Q = R \cup {k + 1} /\ k + 1 \notin R
        <4>1. ops[k + 1].tag = "-"
          BY <1>6, <2>4
        <4>2. k + 1 \in f..k + 1 /\ k + 1 \notin f..k /\ \A m \in f..k + 1 : m \in f..k \/ m = k + 1
          OBVIOUS
        <4>3. f..k \subseteq f..k + 1
          OBVIOUS
        <4> QED  BY <2>1, <2>2, <4>1, <4>2, <4>3
      <3>2. Cardinality(Q) = Cardinality(R) + 1
        BY <2>3, <3>1, FS_AddElement
      <3> QED  BY <1>1, <1>12, <2>1, <2>2, <2>4, <3>2 DEF Removals
    <2>5. CASE p.tag # "-"
      <3>1. Q = R
        BY <1>6, <2>1, <2>2, <2>5
      <3> QED  BY <1>1, <1>12, <2>1, <2>2, <2>5, <3>1 DEF Removals
    <2> QED  BY <2>4, <2>5
  <1>17. f..k + 1 \subseteq shown
    <2>1. \A m \in f..k + 1 : m \in f..k \/ m = k + 1
      OBVIOUS
    <2> QED  BY <1>1, <2>1
  <1> QED  BY <1>1, <1>5, <1>8, <1>10, <1>12, <1>13, <1>14, <1>15, <1>16, <1>17 DEF Hunk


LEMMA ShownIs ==
  ASSUME NEW ops \in Seq(OpOf)
  PROVE  /\ Shown(ops) \in SUBSET (1..Len(ops))
         /\ \A k \in 1..Len(ops) : ops[k].tag # Same => k \in Shown(ops)
  <1>1. DOMAIN ops = 1..Len(ops)
    OBVIOUS
  <1>2. Shown(ops) \subseteq DOMAIN ops
    BY Zenon DEF Shown
  <1>3. ASSUME NEW k \in DOMAIN ops, ops[k].tag # Same PROVE k \in Shown(ops)
    <2>1. k <= k + Context
      BY <1>1, PatchAssumption
    <2> QED  BY <1>3, <2>1, Zenon DEF Shown, Same
  <1> QED  BY <1>1, <1>2, <1>3

(* A hunk of the diff opens after line k of the script: at the first line of
   both texts, or at a line that both texts have. *)
Opens(ops, shown, k, x) ==
  /\ shown = Shown(ops) /\ k + 1 \in shown /\ k \notin shown
  /\ k = 0 => x = Origin
  /\ ops[k + 1].before = x.i

LEMMA HeaderTarget ==
  ASSUME NEW old \in Seq(Lines), NEW new \in Seq(Lines), NEW ops \in Seq(OpOf),
         NEW shown, NEW k \in Nat, NEW x, PointIn(old, new, x), Opens(ops, shown, k, x)
  PROVE  /\ HunkHeader(ops, shown, k + 1) \in PatchLine
         /\ Target(HunkHeader(ops, shown, k + 1).start) = x.i - 1
  <1>0. /\ shown = Shown(ops) /\ k + 1 \in shown /\ k \notin shown
        /\ k = 0 => x = Origin
    BY DEF Opens
  <1>1. PICK i \in Nat : i = x.i /\ i >= 1
    BY DEF PointIn
  <1>2. PICK T : T = {m \in HunkFrom(shown, k + 1) : InOld(ops[m].tag)}
    OBVIOUS
  <1>3. PICK count : count = Cardinality(T)
    OBVIOUS
  <1>4. PICK h : h = HunkHeader(ops, shown, k + 1)
    OBVIOUS
  <1>5. h = [tag |-> "@@", formed |-> TRUE, count |-> count, start |-> IF count = 0 THEN i - 1 ELSE i]
    BY <1>1, <1>2, <1>3, <1>4 DEF HunkHeader, Opens
  <1>6. IsFiniteSet(T) /\ count \in Nat
    <2>1. T \in SUBSET (1..Len(ops))
      BY <1>0, <1>2, ShownIs DEF HunkFrom
    <2>2. IsFiniteSet(1..Len(ops))
      <3>1. 1 \in Int /\ Len(ops) \in Int
        OBVIOUS
      <3> QED  BY <3>1, FS_Interval
    <2> QED  BY <1>3, <2>1, <2>2, FS_Subset, FS_CardinalityType
  <1>7. h \in PatchLine /\ h.start = IF count = 0 THEN i - 1 ELSE i
    <2>1. h.start = IF count = 0 THEN i - 1 ELSE i
      BY <1>5
    <2>2. h.start \in Nat
      BY <1>1, <2>1
    <2>3. h \in [tag : {"@@"}, formed : BOOLEAN, start : Nat, count : Nat]
      BY <1>5, <1>6, <2>1, <2>2
    <2> QED  BY <2>1, <2>3, Zenon DEF PatchLine
  <1>8. CASE count # 0
    BY <1>1, <1>4, <1>7, <1>8 DEF Target
  <1>9. CASE count = 0
    <2>1. T = {}
      BY <1>3, <1>6, <1>9, FS_EmptySet
    <2>2. k + 1 \in HunkFrom(shown, k + 1)
      <3>1. k + 1..k + 1 = {k + 1}
        OBVIOUS
      <3> QED  BY <1>0, <3>1 DEF HunkFrom
    <2>3. ~InOld(ops[k + 1].tag)
      BY <1>2, <2>1, <2>2
    <2>4. ops[k + 1].tag # Same
      BY <2>3, SameIs
    <2>5. k + 1 \in 1..Len(ops)
      BY <1>0, ShownIs
    <2>6. k = 0
      <3> SUFFICES ASSUME k # 0 PROVE FALSE
        OBVIOUS
      <3>1. k \in DOMAIN ops
        BY <2>5
      <3>2. ops[k + 1].tag # " "
        BY <2>4, Zenon DEF Same
      <3>3. PICK m \in DOMAIN ops : m = k + 1
        BY <2>5
      <3>4. k <= m + Context /\ m <= k + Context
        BY <3>3, PatchAssumption
      <3>5. k \in Shown(ops)
        BY <3>1, <3>2, <3>3, <3>4, Zenon DEF Shown
      <3> QED  BY <1>0, <3>5
    <2>7. i = 1
      BY <1>0, <1>1, <2>6 DEF Origin
    <2> QED  BY <1>1, <1>4, <1>7, <1>9, <2>7 DEF Target
  <1> QED  BY <1>8, <1>9

LEMMA HunkStarts ==
  ASSUME NEW old \in Seq(Lines), NEW new \in Seq(Lines), NEW ops \in Seq(OpOf),
         NEW shown, NEW k \in Nat, NEW x, PointIn(old, new, x), Opens(ops, shown, k, x),
         NEW s, Passed(old, new, x, s)
  PROVE  Hunk(new, ops, shown, k + 1, k, x, LineDone(old, s, HunkHeader(ops, shown, k + 1)))
  <1>1. /\ s \in PatchState /\ s.ok /\ CountHolds(s) /\ s.cursor < x.i
        /\ s.output \o LinesBetween(old, s.cursor, x.i - 1) = SubSeq(new, 1, x.j - 1)
    BY DEF Passed
  <1>2. PICK h \in PatchLine : h = HunkHeader(ops, shown, k + 1) /\ Target(h.start) = x.i - 1
    <2>1. HunkHeader(ops, shown, k + 1) \in PatchLine
          /\ Target(HunkHeader(ops, shown, k + 1).start) = x.i - 1
      BY HeaderTarget
    <2> QED  BY <2>1
  <1>3. h.tag = "@@" /\ h.formed = TRUE /\ h.count = OldLines(ops, shown, k + 1)
    BY <1>2 DEF HunkHeader, OldLines
  <1>4. PICK t : t = LineDone(old, s, h)
    OBVIOUS
  <1>5. t = OpenHunk(old, s, h)
    BY <1>3, <1>4 DEF LineDone
  <1>6. t \in PatchState
    BY <1>1, <1>3, <1>5, OpenIsState
  <1>7. /\ t.cursor = x.i - 1 /\ t.open /\ t.old_count = h.count /\ t.removed = 0
        /\ t.output = s.output \o LinesBetween(old, s.cursor, x.i - 1)
        /\ t.ok = (s.ok /\ h.formed /\ CountHolds(s) /\ x.i - 1 >= s.cursor)
    BY <1>2, <1>5 DEF OpenHunk
  <1>8. PICK i \in Nat : i = x.i /\ i >= 1
    BY DEF PointIn
  <1>9. t.ok
    <2>1. PICK c \in Nat : c = s.cursor
      BY <1>1 DEF PatchState
    <2>2. i - 1 >= c
      BY <1>1, <1>8, <2>1
    <2> QED  BY <1>1, <1>3, <1>7, <1>8, <2>1, <2>2
  <1>10. t.cursor + 1 = x.i
    BY <1>7, <1>8
  <1>11. Removals(ops, k + 1, k) = 0
    <2>1. {m \in k + 1..k : ops[m].tag = "-"} = {}
      OBVIOUS
    <2> QED  BY <2>1, FS_EmptySet DEF Removals
  <1>12. k + 1..k \subseteq shown
    OBVIOUS
  <1> QED  BY <1>1, <1>2, <1>3, <1>4, <1>6, <1>7, <1>9, <1>10, <1>11, <1>12 DEF Hunk

LEMMA ConcatAppend ==
  ASSUME NEW S, NEW s \in Seq(S), NEW t \in Seq(S), NEW e \in S
  PROVE  s \o Append(t, e) = Append(s \o t, e)
  <1>1. <<e>> \in Seq(S)
    OBVIOUS
  <1>2. (s \o t) \o <<e>> = s \o (t \o <<e>>)
    BY <1>1, ConcatAssociative
  <1>3. s \o t \in Seq(S)
    BY ConcatProperties
  <1> QED  BY <1>2, <1>3, AppendIsConcat

(* A line that the diff leaves out. *)
LEMMA LeftOut ==
  ASSUME NEW old \in Seq(Lines), NEW new \in Seq(Lines), NEW x, NEW y, PointIn(old, new, x),
         NEW o, OpIs(old, new, o, x, y), o.tag = Same, NEW s, Passed(old, new, x, s)
  PROVE  Passed(old, new, y, s)
  <1>1. /\ s \in PatchState /\ s.ok /\ CountHolds(s) /\ s.cursor < x.i
        /\ s.output \o LinesBetween(old, s.cursor, x.i - 1) = SubSeq(new, 1, x.j - 1)
    BY DEF Passed
  <1>2. x.i <= Len(old) /\ x.j <= Len(new) /\ old[x.i] = new[x.j] /\ y.i = x.i + 1 /\ y.j = x.j + 1
    BY SameIs DEF OpIs
  <1>3. PICK i \in 1..Len(old) : i = x.i
    BY <1>2 DEF PointIn
  <1>4. PICK j \in 1..Len(new) : j = x.j
    BY <1>2 DEF PointIn
  <1>5. PICK c \in 0..i - 1 : c = s.cursor
    BY <1>1, <1>3 DEF PatchState
  <1>6. PICK out \in Seq(Lines) : out = s.output
    BY <1>1 DEF PatchState
  <1>7. PICK between \in Seq(Lines) : between = LinesBetween(old, c, i - 1)
    BY NextKept
  <1>8. LinesBetween(old, c, i) = Append(between, old[i])
    BY <1>7, NextKept
  <1>9. SubSeq(new, 1, j) = Append(SubSeq(new, 1, j - 1), new[j]) /\ new[j] \in Lines
    BY NextLine
  <1>10. out \o Append(between, new[j]) = Append(out \o between, new[j])
    BY <1>9, ConcatAppend
  <1>11. out \o LinesBetween(old, c, i) = SubSeq(new, 1, j)
    BY <1>1, <1>2, <1>3, <1>4, <1>5, <1>6, <1>7, <1>8, <1>9, <1>10
  <1>12. c < i + 1 /\ (i + 1) - 1 = i /\ (j + 1) - 1 = j
    OBVIOUS
  <1> QED  BY <1>1, <1>2, <1>3, <1>4, <1>5, <1>6, <1>11, <1>12 DEF Passed

-----------------------------------------------------------------------------
(* The parts of the diff in a row. *)
Flattens(S, n, seqs, F) ==
  /\ F \in [0..n -> Seq(S)] /\ F[0] = <<>> /\ FlattenSeq(seqs) = F[n]
  /\ \A k \in 1..n : F[k] = F[k - 1] \o seqs[k]

LEMMA FlattenIs ==
  ASSUME NEW S, NEW n \in Nat, n # 0, NEW seqs, seqs \in [1..n -> Seq(S)]
  PROVE  \E F : Flattens(S, n, seqs, F)
  <1>1. PICK D : D = Seq(S)
    OBVIOUS
  <1>2. PICK step : step = [k \in 1..n |-> [s \in D |-> s \o seqs[k]]]
    OBVIOUS
  <1>3. ASSUME NEW s \in D, NEW k \in 1..n PROVE s \o seqs[k] \in D
    <2>1. s \in Seq(S) /\ seqs[k] \in Seq(S)
      BY <1>1
    <2> QED  BY <1>1, <2>1, ConcatProperties
  <1>4. StepsIn(D, n, step)
    <2>1. ASSUME NEW k \in 1..n PROVE step[k] \in [D -> D]
      <3>1. step[k] = [s \in D |-> s \o seqs[k]]
        BY <1>2
      <3> QED  BY <1>3, <3>1
    <2>2. step \in [1..n -> [D -> D]]
      BY <1>2, <2>1
    <2> QED  BY <2>2 DEF StepsIn
  <1>5. PICK init : init = <<>> /\ init \in D
    <2>1. <<>> \in Seq(S)
      OBVIOUS
    <2> QED  BY <1>1, <2>1
  <1>6. PICK g : LeadsOn(D, n, step, init, g)
    BY <1>4, <1>5, ByRecursion
  <1>7. g \in [0..n -> D] /\ g[0] = init /\ \A k \in 1..n : g[k] = step[k][g[k - 1]]
    BY <1>6 DEF LeadsOn
  <1>8. ASSUME NEW k \in 1..n PROVE g[k] = g[k - 1] \o seqs[k]
    <2>1. k - 1 \in 0..n
      OBVIOUS
    <2>2. g[k - 1] \in D
      BY <1>7, <2>1
    <2> QED  BY <1>2, <1>7, <2>2
  <1>9. g[1] = seqs[1]
    <2>1. 1 \in 1..n /\ 1 - 1 = 0
      OBVIOUS
    <2>2. seqs[1] \in Seq(S) /\ g[1] = init \o seqs[1]
      BY <1>7, <1>8, <2>1
    <2> QED  BY <1>5, <2>2, ConcatEmptySeq
  <1>10. Len(seqs) = n
    <2>1. seqs \in Seq(Seq(S))
      OBVIOUS
    <2> QED  BY <2>1
  <1>11. PICK h : h = [i \in 1..n |-> g[i]]
    OBVIOUS
  <1>12. h = [i \in 1..n |-> IF i = 1 THEN seqs[i] ELSE h[i - 1] \o seqs[i]]
    <2>1. ASSUME NEW i \in 1..n PROVE h[i] = IF i = 1 THEN seqs[i] ELSE h[i - 1] \o seqs[i]
      <3>1. CASE i = 1
        BY <1>9, <1>11, <3>1
      <3>2. CASE i # 1
        <4>1. i - 1 \in 1..n
          BY <3>2
        <4> QED  BY <1>8, <1>11, <3>2, <4>1
      <3> QED  BY <3>1, <3>2
    <2> QED  BY <1>11, <2>1
  <1>13. PICK f : /\ f = [i \in 1..n |-> IF i = 1 THEN seqs[i] ELSE f[i - 1] \o seqs[i]]
                  /\ FlattenSeq(seqs) = f[n]
    BY <1>10, <1>12 DEF FlattenSeq
  <1>14. ASSUME NEW i \in 1..n
         PROVE  (i = 1 => f[i] = seqs[i]) /\ (i # 1 => f[i] = f[i - 1] \o seqs[i])
    BY <1>13
  <1>15. \A i \in 0..n : i = 0 \/ f[i] = g[i]
    <2>1. PICK T : T = {i \in 0..n : i = 0 \/ f[i] = g[i]}
      OBVIOUS
    <2>2. 0 \in T
      BY <2>1
    <2>3. ASSUME NEW i \in 1..n, i - 1 \in T PROVE i \in T
      <3>1. CASE i = 1
        BY <1>9, <1>14, <2>1, <3>1
      <3>2. CASE i # 1
        <4>1. f[i - 1] = g[i - 1]
          BY <2>1, <2>3, <3>2
        <4>2. f[i] = f[i - 1] \o seqs[i]
          BY <1>14, <3>2
        <4>3. g[i] = g[i - 1] \o seqs[i]
          BY <1>8
        <4>4. f[i] = g[i]
          BY <4>1, <4>2, <4>3, Zenon
        <4>5. i \in 0..n
          OBVIOUS
        <4> QED  BY <2>1, <4>4, <4>5
      <3> QED  BY <3>1, <3>2
    <2>4. \A i \in 0..n : i \in T
      BY <2>2, <2>3, ByInduction
    <2> QED  BY <2>1, <2>4
  <1>16. FlattenSeq(seqs) = g[n]
    <2>1. n \in 0..n
      OBVIOUS
    <2>2. f[n] = g[n]
      BY <1>15, <2>1
    <2> QED  BY <1>13, <2>2
  <1>17. g \in [0..n -> Seq(S)] /\ g[0] = <<>>
    BY <1>1, <1>5, <1>7
  <1>18. Flattens(S, n, seqs, g)
    BY <1>8, <1>16, <1>17 DEF Flattens
  <1> QED  BY <1>18

LEMMA RowOfThree ==
  ASSUME NEW p \in Seq(PatchLine), NEW q \in Seq(PatchLine), NEW r \in Seq(PatchLine)
  PROVE  (p \o q) \o r = p \o (q \o r)
  BY ConcatAssociative

LEMMA RunPart ==
  ASSUME NEW lines \in Seq(Lines), NEW p \in Seq(PatchLine), NEW a \in PatchLine
  PROVE  /\ p \o <<>> = p
         /\ Run(lines, p \o <<a>>) = LineDone(lines, Run(lines, p), a)
         /\ \A h \in PatchLine :
              Run(lines, p \o (<<h>> \o <<a>>)) = LineDone(lines, LineDone(lines, Run(lines, p), h), a)
  <1>1. \A h \in PatchLine : p \o <<h>> = Append(p, h) /\ Append(p, h) \in Seq(PatchLine)
    BY AppendIsConcat, AppendProperties
  <1>2. ASSUME NEW h \in PatchLine
        PROVE  Run(lines, p \o (<<h>> \o <<a>>)) = LineDone(lines, LineDone(lines, Run(lines, p), h), a)
    <2>1. <<h>> \in Seq(PatchLine) /\ <<a>> \in Seq(PatchLine)
      OBVIOUS
    <2>2. p \o (<<h>> \o <<a>>) = (p \o <<h>>) \o <<a>>
      BY <2>1, ConcatAssociative
    <2>3. (p \o <<h>>) \o <<a>> = Append(Append(p, h), a)
      BY <1>1, AppendIsConcat
    <2>4. Run(lines, Append(p, h)) = LineDone(lines, Run(lines, p), h)
      BY RunGoesOn
    <2>5. Run(lines, Append(Append(p, h), a)) = LineDone(lines, Run(lines, Append(p, h)), a)
      BY <1>1, RunGoesOn
    <2> QED  BY <2>2, <2>3, <2>4, <2>5, Zenon
  <1>3. Run(lines, p \o <<a>>) = LineDone(lines, Run(lines, p), a)
    BY <1>1, RunGoesOn
  <1>4. p \o <<>> = p
    BY ConcatEmptySeq
  <1> QED  BY <1>2, <1>3, <1>4

(* The diff that an edit script gives is a patch that leads from the old text
   to the new one: what holds of the state after each line of the script. *)
DiffHolds(old, new, ops, shown, k, x, s) ==
  /\ Passed(old, new, x, s)
  /\ k \in shown => \E f \in 1..k : Hunk(new, ops, shown, f, k, x, s)
  /\ (\E m \in 1..k : m \in shown) => s.open

LEMMA DiffStarts ==
  ASSUME NEW old \in Seq(Lines), NEW new \in Seq(Lines), NEW ops \in Seq(OpOf), NEW at,
         Walks(old, new, ops, at)
  PROVE  DiffHolds(old, new, ops, Shown(ops), 0, at[0], Start)
  <1>1. at[0].i = 1 /\ at[0].j = 1
    BY DEF Walks, Origin
  <1>2. /\ Start \in PatchState /\ Start.ok /\ CountHolds(Start)
        /\ Start.cursor = 0 /\ Start.output = <<>>
    BY StartIsState DEF Start, CountHolds
  <1>3. LinesBetween(old, 0, 0) = <<>>
    BY NoneBetween
  <1>4. SubSeq(new, 1, 0) = <<>>
    BY SubSeqEmpty
  <1>5. <<>> \o <<>> = <<>>
    OBVIOUS
  <1>6. Passed(old, new, at[0], Start)
    <2>1. at[0].i - 1 = 0 /\ at[0].j - 1 = 0 /\ Start.cursor < at[0].i
      BY <1>1, <1>2
    <2> QED  BY <1>2, <1>3, <1>4, <1>5, <2>1 DEF Passed
  <1>7. 0 \notin Shown(ops)
    BY ShownIs
  <1> QED  BY <1>6, <1>7 DEF DiffHolds

(* What the k-th line of the script adds to the diff. *)
LEMMA PartIs ==
  ASSUME NEW old \in Seq(Lines), NEW new \in Seq(Lines), NEW ops \in Seq(OpOf), NEW at,
         Walks(old, new, ops, at), NEW shown, shown = Shown(ops), NEW k \in Nat, k + 1 \in 1..Len(ops)
  PROVE  /\ PointIn(old, new, at[k]) /\ OpIs(old, new, ops[k + 1], at[k], at[k + 1])
         /\ [tag |-> ops[k + 1].tag, line |-> ops[k + 1].line] \in PatchLine
         /\ k + 1 \in shown /\ k \notin shown =>
              /\ HunkHeader(ops, shown, k + 1) \in PatchLine
              /\ DiffPart(ops, shown, k + 1) = <<HunkHeader(ops, shown, k + 1)>>
                                       \o <<[tag |-> ops[k + 1].tag, line |-> ops[k + 1].line]>>
         /\ k + 1 \in shown /\ k \in shown =>
              DiffPart(ops, shown, k + 1) = <<[tag |-> ops[k + 1].tag, line |-> ops[k + 1].line]>>
         /\ k + 1 \notin shown => DiffPart(ops, shown, k + 1) = <<>>
         /\ DiffPart(ops, shown, k + 1) \in Seq(PatchLine)
  <1>1. k \in 0..Len(ops) /\ (k + 1) - 1 = k
    OBVIOUS
  <1>2. PointIn(old, new, at[k])
    BY <1>1 DEF Walks, PointIn
  <1>3. OpIs(old, new, ops[k + 1], at[k], at[k + 1])
    BY <1>1 DEF Walks
  <1>4. ops[k + 1] \in OpOf
    OBVIOUS
  <1>5. PICK p : p = [tag |-> ops[k + 1].tag, line |-> ops[k + 1].line]
    OBVIOUS
  <1>6. p \in PatchLine
    <2>1. ops[k + 1].tag \in {"-", "+", Same} /\ ops[k + 1].line \in Lines
      BY <1>4 DEF OpOf
    <2> QED  BY <1>5, <2>1, OpIsLine
  <1>7. PICK h : h = HunkHeader(ops, shown, k + 1)
    OBVIOUS
  <1>8. ASSUME k + 1 \in shown, k \notin shown PROVE h \in PatchLine
    <2>1. k = 0 => at[k] = Origin
      BY DEF Walks
    <2>2. ops[k + 1].before = at[k].i
      BY <1>3 DEF OpIs
    <2>3. Opens(ops, shown, k, at[k])
      BY <1>8, <2>1, <2>2 DEF Opens
    <2> QED  BY <1>2, <1>7, <2>3, HeaderTarget
  <1>9. PICK part : part = DiffPart(ops, shown, k + 1)
    OBVIOUS
  <1>10. part = IF k + 1 \notin shown THEN <<>>
                ELSE (IF k \in shown THEN <<>> ELSE <<h>>) \o <<p>>
    BY <1>1, <1>5, <1>7, <1>9, Zenon DEF DiffPart
  <1>11. <<p>> \in Seq(PatchLine)
    BY <1>6
  <1>12. CASE k + 1 \notin shown
    <2>1. part = <<>> /\ <<>> \in Seq(PatchLine)
      BY <1>10, <1>12
    <2> QED  BY <1>2, <1>3, <1>5, <1>6, <1>7, <1>9, <1>12, <2>1
  <1>13. CASE k + 1 \in shown /\ k \in shown
    <2>1. part = <<p>>
      BY <1>10, <1>11, <1>13, ConcatEmptySeq
    <2> QED  BY <1>2, <1>3, <1>5, <1>6, <1>7, <1>9, <1>11, <1>13, <2>1
  <1>14. CASE k + 1 \in shown /\ k \notin shown
    <2>1. part = <<h>> \o <<p>>
      BY <1>10, <1>14
    <2>2. <<h>> \in Seq(PatchLine)
      BY <1>8, <1>14
    <2>3. part \in Seq(PatchLine)
      BY <1>11, <2>1, <2>2, ConcatProperties
    <2> QED  BY <1>2, <1>3, <1>5, <1>6, <1>7, <1>8, <1>9, <1>14, <2>1, <2>3
  <1> QED  BY <1>12, <1>13, <1>14

LEMMA DiffGoesOn ==
  ASSUME NEW old \in Seq(Lines), NEW new \in Seq(Lines), NEW ops \in Seq(OpOf), NEW at,
         Walks(old, new, ops, at), NEW shown, shown = Shown(ops), NEW k \in Nat, k + 1 \in 1..Len(ops),
         NEW p \in Seq(PatchLine), DiffHolds(old, new, ops, shown, k, at[k], Run(old, p))
  PROVE  DiffHolds(old, new, ops, shown, k + 1, at[k + 1],
                   Run(old, p \o DiffPart(ops, shown, k + 1)))
  <1>1. PICK x, y : x = at[k] /\ y = at[k + 1]
    OBVIOUS
  <1>2. PICK o : o = ops[k + 1]
    OBVIOUS
  <1>3. PICK a : a = [tag |-> o.tag, line |-> o.line]
    OBVIOUS
  <1>4. PICK h : h = HunkHeader(ops, shown, k + 1)
    OBVIOUS
  <1>5. PICK part : part = DiffPart(ops, shown, k + 1)
    OBVIOUS
  <1>6. /\ PointIn(old, new, x) /\ OpIs(old, new, o, x, y) /\ a \in PatchLine
        /\ k + 1 \in shown /\ k \notin shown => h \in PatchLine /\ part = <<h>> \o <<a>>
        /\ k + 1 \in shown /\ k \in shown => part = <<a>>
        /\ k + 1 \notin shown => part = <<>>
    BY <1>1, <1>2, <1>3, <1>4, <1>5, PartIs
  <1>7. PICK s : s = Run(old, p)
    OBVIOUS
  <1>8. /\ Passed(old, new, x, s)
        /\ k \in shown => \E f \in 1..k : Hunk(new, ops, shown, f, k, x, s)
        /\ (\E m \in 1..k : m \in shown) => s.open
    BY <1>1, <1>7 DEF DiffHolds
  <1>9. shown \in SUBSET (1..Len(ops))
    BY ShownIs
  <1>10. PICK t : t = Run(old, p \o part)
    OBVIOUS
  <1>11. ASSUME NEW f \in 1..k + 1, Hunk(new, ops, shown, f, k + 1, y, t)
         PROVE  DiffHolds(old, new, ops, shown, k + 1, y, t)
    <2>1. f \in Nat /\ k + 1 \in Nat
      OBVIOUS
    <2>2. Passed(old, new, y, t)
      BY <1>9, <1>11, <2>1, HunkIsPassed
    <2>3. t.open
      BY <1>11 DEF Hunk
    <2> QED  BY <1>11, <2>2, <2>3 DEF DiffHolds
  <1>12. CASE k + 1 \notin shown
    <2>1. t = s
      BY <1>6, <1>7, <1>10, <1>12, RunPart
    <2>2. o.tag = Same
      BY <1>2, <1>12, ShownIs
    <2>3. Passed(old, new, y, t)
      BY <1>6, <1>8, <2>1, <2>2, LeftOut
    <2>4. ASSUME NEW m \in 1..k + 1, m \in shown PROVE t.open
      <3>1. m \in 1..k
        BY <1>12, <2>4
      <3> QED  BY <1>8, <2>1, <2>4, <3>1
    <2> QED  BY <1>1, <1>5, <1>10, <1>12, <2>3, <2>4 DEF DiffHolds
  <1>13. CASE k + 1 \in shown /\ k \in shown
    <2>1. t = LineDone(old, s, a)
      <3>1. part = <<a>> /\ a \in PatchLine
        BY <1>6, <1>13
      <3>2. Run(old, p \o <<a>>) = LineDone(old, Run(old, p), a)
        BY <3>1, RunPart
      <3> QED  BY <1>7, <1>10, <3>1, <3>2, Zenon
    <2>2. PICK f \in 1..k : Hunk(new, ops, shown, f, k, x, s)
      BY <1>8, <1>13
    <2>3. f \in Nat /\ f <= k + 1 /\ f \in 1..k + 1
      OBVIOUS
    <2>4. Hunk(new, ops, shown, f, k + 1, y, t)
      BY <1>2, <1>3, <1>6, <1>9, <1>13, <2>1, <2>2, <2>3, HunkGoesOn
    <2> QED  BY <1>1, <1>5, <1>10, <1>11, <2>3, <2>4
  <1>14. CASE k + 1 \in shown /\ k \notin shown
    <2>1. PICK u : u = LineDone(old, s, h)
      OBVIOUS
    <2>2. t = LineDone(old, u, a)
      <3>1. part = <<h>> \o <<a>> /\ a \in PatchLine /\ h \in PatchLine
        BY <1>6, <1>14
      <3>2. Run(old, p \o (<<h>> \o <<a>>)) = LineDone(old, LineDone(old, Run(old, p), h), a)
        BY <3>1, RunPart
      <3> QED  BY <1>7, <1>10, <2>1, <3>1, <3>2, Zenon
    <2>3. k = 0 => x = Origin
      BY <1>1 DEF Walks
    <2>4. ops[k + 1].before = x.i
      BY <1>2, <1>6 DEF OpIs
    <2>5. Hunk(new, ops, shown, k + 1, k, x, u)
      <3>1. Opens(ops, shown, k, x)
        BY <1>14, <2>3, <2>4 DEF Opens
      <3> QED  BY <1>4, <1>6, <1>8, <2>1, <3>1, HunkStarts
    <2>6. k + 1 \in Nat /\ k + 1 <= k + 1 /\ k + 1 \in 1..k + 1
      OBVIOUS
    <2>7. Hunk(new, ops, shown, k + 1, k + 1, y, t)
      BY <1>2, <1>3, <1>6, <1>9, <1>14, <2>2, <2>5, <2>6, HunkGoesOn
    <2> QED  BY <1>1, <1>5, <1>10, <1>11, <2>6, <2>7
  <1> QED  BY <1>12, <1>13, <1>14

LEMMA DiffOfIs ==
  ASSUME NEW ops, Shown(ops) # {},
         NEW parts, parts = [k \in DOMAIN ops |-> DiffPart(ops, Shown(ops), k)],
         NEW files, files = <<[tag |-> "-", line |-> OldFile], [tag |-> "+", line |-> NewFile]>>
  PROVE  DiffOf(ops) = files \o FlattenSeq(parts)
  BY DEF DiffOf

LEMMA DiffFollowed ==
  ASSUME NEW old \in Seq(Lines), NEW new \in Seq(Lines), NEW ops \in Seq(OpOf), NEW at,
         Walks(old, new, ops, at), Shown(ops) # {}
  PROVE  /\ DiffOf(ops) \in Seq(PatchLine)
         /\ DiffHolds(old, new, ops, Shown(ops), Len(ops), at[Len(ops)], Run(old, DiffOf(ops)))
  <1>1. PICK shown : shown = Shown(ops)
    OBVIOUS
  <1>2. PICK n \in Nat : n = Len(ops)
    OBVIOUS
  <1>3. n # 0
    BY <1>2, ShownIs
  <1>4. DOMAIN ops = 1..n
    BY <1>2
  <1>5. PICK parts : parts = [k \in DOMAIN ops |-> DiffPart(ops, shown, k)]
    OBVIOUS
  <1>6. parts \in [1..n -> Seq(PatchLine)]
    <2>1. ASSUME NEW m \in 1..n PROVE DiffPart(ops, shown, m) \in Seq(PatchLine)
      <3>1. PICK k \in Nat : k = m - 1 /\ k + 1 = m
        OBVIOUS
      <3>2. k + 1 \in 1..Len(ops)
        BY <1>2, <3>1
      <3>3. DiffPart(ops, shown, k + 1) \in Seq(PatchLine)
        BY <1>1, <3>2, PartIs
      <3> QED  BY <3>1, <3>3
    <2> QED  BY <1>4, <1>5, <2>1
  <1>7. PICK F \in [0..n -> Seq(PatchLine)] :
          /\ F[0] = <<>> /\ FlattenSeq(parts) = F[n]
          /\ \A k \in 1..n : F[k] = F[k - 1] \o parts[k]
    <2>1. \E F : Flattens(PatchLine, n, parts, F)
      BY <1>3, <1>6, FlattenIs, Zenon
    <2> QED  BY <2>1 DEF Flattens
  <1>8. PICK p, q : p = [tag |-> "-", line |-> OldFile] /\ q = [tag |-> "+", line |-> NewFile]
    OBVIOUS
  <1>9. p \in PatchLine /\ q \in PatchLine /\ p.tag = "-" /\ q.tag = "+"
    <2>1. OldFile \in Lines /\ NewFile \in Lines
      BY PatchAssumption
    <2> QED  BY <1>8, <2>1, OpIsLine
  <1>10. PICK files \in Seq(PatchLine) : files = <<p, q>> /\ Run(old, files) = Start
    <2>1. <<>> \in Seq(PatchLine)
      OBVIOUS
    <2>2. <<p>> \in Seq(PatchLine) /\ <<p>> = Append(<<>>, p)
      BY <1>9
    <2>3. <<p, q>> \in Seq(PatchLine) /\ <<p, q>> = Append(<<p>>, q)
      BY <1>9
    <2>4. Run(old, <<p>>) = LineDone(old, Start, p)
      <3>1. Run(old, Append(<<>>, p)) = LineDone(old, Run(old, <<>>), p)
        BY <1>9, <2>1, RunGoesOn, Zenon
      <3>2. Run(old, <<>>) = Start
        BY RunStarts
      <3> QED  BY <2>2, <3>1, <3>2, Zenon
    <2>5. LineDone(old, Start, p) = Start /\ LineDone(old, Start, q) = Start
      BY <1>9 DEF LineDone, Start
    <2>6. Run(old, <<p, q>>) = LineDone(old, Run(old, <<p>>), q)
      <3>1. PICK one \in Seq(PatchLine) : one = <<p>>
        BY <2>2
      <3>2. Run(old, Append(one, q)) = LineDone(old, Run(old, one), q)
        BY <1>9, RunGoesOn
      <3> QED  BY <2>3, <3>1, <3>2, Zenon
    <2> QED  BY <2>3, <2>4, <2>5, <2>6
  <1>11. DiffOf(ops) = files \o F[n]
    <2>1. DiffOf(ops) = <<p, q>> \o FlattenSeq(parts)
      <3>1. parts = [k \in DOMAIN ops |-> DiffPart(ops, Shown(ops), k)]
        BY <1>1, <1>5, Zenon
      <3>2. <<p, q>> = <<[tag |-> "-", line |-> OldFile], [tag |-> "+", line |-> NewFile]>>
        BY <1>8
      <3> QED  BY <3>1, <3>2, DiffOfIs, Zenon
    <2>2. FlattenSeq(parts) = F[n]
      BY <1>7
    <2>3. files = <<p, q>>
      BY <1>10
    <2> QED  BY <2>1, <2>2, <2>3, Zenon
  <1>12. PICK S : S = {k \in 0..n : DiffHolds(old, new, ops, shown, k, at[k], Run(old, files \o F[k]))}
    OBVIOUS
  <1>13. 0 \in S
    <2>1. files \o F[0] = files
      BY <1>7, ConcatEmptySeq
    <2>2. DiffHolds(old, new, ops, shown, 0, at[0], Start)
      BY <1>1, DiffStarts
    <2>3. DiffHolds(old, new, ops, shown, 0, at[0], Run(old, files \o F[0]))
      BY <1>10, <2>1, <2>2, Zenon
    <2>4. 0 \in 0..n
      OBVIOUS
    <2> QED  BY <1>12, <2>3, <2>4, Zenon
  <1>14. ASSUME NEW m \in 1..n, m - 1 \in S PROVE m \in S
    <2>1. PICK k \in Nat : k = m - 1 /\ k + 1 = m /\ k \in 0..n
      OBVIOUS
    <2>2. DiffHolds(old, new, ops, shown, k, at[k], Run(old, files \o F[k]))
      BY <1>12, <1>14, <2>1
    <2>3. F[k] \in Seq(PatchLine) /\ parts[m] \in Seq(PatchLine)
      BY <1>6, <2>1
    <2>4. files \o F[k] \in Seq(PatchLine)
      BY <2>3, ConcatProperties
    <2>5. files \o F[m] = (files \o F[k]) \o parts[m]
      <3>1. F[m] = F[k] \o parts[m]
        BY <1>7, <2>1
      <3>2. (files \o F[k]) \o parts[m] = files \o (F[k] \o parts[m])
        <4>1. PICK u \in Seq(PatchLine), v \in Seq(PatchLine) : u = F[k] /\ v = parts[m]
          BY <2>3
        <4>2. (files \o u) \o v = files \o (u \o v)
          BY RowOfThree
        <4> QED  BY <4>1, <4>2, Zenon
      <3> QED  BY <3>1, <3>2
    <2>6. parts[m] = DiffPart(ops, shown, k + 1)
      BY <1>4, <1>5, <2>1
    <2>7. k + 1 \in 1..Len(ops)
      BY <1>2, <2>1
    <2>8. DiffHolds(old, new, ops, shown, k + 1, at[k + 1],
                    Run(old, (files \o F[k]) \o DiffPart(ops, shown, k + 1)))
      BY <1>1, <2>2, <2>4, <2>7, DiffGoesOn
    <2>9. DiffHolds(old, new, ops, shown, m, at[m], Run(old, files \o F[m]))
      BY <2>1, <2>5, <2>6, <2>8, Zenon
    <2>10. m \in 0..n
      OBVIOUS
    <2> QED  BY <1>12, <2>9, <2>10, Zenon
  <1>15. \A k \in 0..n : k \in S
    BY <1>13, <1>14, ByInduction
  <1>16. n \in S /\ n \in 0..n
    BY <1>15
  <1>17. files \o F[n] \in Seq(PatchLine)
    <2>1. F[n] \in Seq(PatchLine)
      BY <1>7, <1>16
    <2> QED  BY <2>1, ConcatProperties
  <1> QED  BY <1>1, <1>2, <1>11, <1>12, <1>16, <1>17

(* The last line of the script is at the end of both texts. *)
LEMMA DiffReplays ==
  ASSUME NEW before, IsText(before), NEW text, IsText(text), text.lines # <<Empty>>,
         before.nl = text.nl, NEW kept \in Pairings(before.lines, text.lines),
         Diff(before.lines, text.lines, kept) # <<>>
  PROVE  /\ Applies(before, Diff(before.lines, text.lines, kept))
         /\ Patched(before, Diff(before.lines, text.lines, kept)) = text
  <1>1. PICK old \in Seq(Lines), new \in Seq(Lines) : old = before.lines /\ new = text.lines
    BY DEF IsText
  <1>2. PICK ops : ops = Script(old, new, kept)
    OBVIOUS
  <1>3. PICK at : Walks(old, new, ops, at)
    BY <1>1, <1>2, ScriptWalks
  <1>4. ops \in Seq(OpOf)
    BY <1>3 DEF Walks
  <1>5. PICK patch : patch = DiffOf(ops) /\ patch = Diff(before.lines, text.lines, kept)
    BY <1>1, <1>2 DEF Diff
  <1>6. Shown(ops) # {}
    BY <1>5, Zenon DEF DiffOf
  <1>7. PICK s : s = Run(old, patch)
    OBVIOUS
  <1>8. PICK n \in Nat : n = Len(ops)
    BY <1>4
  <1>9. DiffHolds(old, new, ops, Shown(ops), n, at[n], s)
    BY <1>3, <1>4, <1>5, <1>6, <1>7, <1>8, DiffFollowed
  <1>10. at[n].i = Len(old) + 1 /\ at[n].j = Len(new) + 1
    BY <1>3, <1>8 DEF Walks
  <1>11. /\ s.ok /\ CountHolds(s)
         /\ s.output \o LinesBetween(old, s.cursor, at[n].i - 1) = SubSeq(new, 1, at[n].j - 1)
    BY <1>9 DEF DiffHolds, Passed
  <1>12. s.open
    <2>1. PICK m \in 1..n : m \in Shown(ops)
      BY <1>4, <1>6, <1>8, ShownIs
    <2> QED  BY <1>9, <2>1 DEF DiffHolds
  <1>13. s.output \o LinesBetween(old, s.cursor, Len(old)) = new
    <2>1. at[n].i - 1 = Len(old) /\ at[n].j - 1 = Len(new)
      BY <1>10
    <2>2. SubSeq(new, 1, Len(new)) = new
      BY SubSeqFull
    <2>3. s.output \o LinesBetween(old, s.cursor, at[n].i - 1) = SubSeq(new, 1, at[n].j - 1)
      BY <1>11
    <2> QED  BY <2>1, <2>2, <2>3, Zenon
  <1>14. Applies(before, patch)
    BY <1>1, <1>7, <1>11, <1>12 DEF Applies
  <1>15. Patched(before, patch) = Joined(new, before.nl)
    BY <1>1, <1>7, <1>13 DEF Patched
  <1>16. Joined(new, before.nl) = text
    <2>1. /\ text = [lines |-> new, nl |-> text.nl]
          /\ IF new = <<>> THEN ~text.nl ELSE text.nl \/ Last(new) # Empty
          /\ text.nl \in BOOLEAN
      BY <1>1 DEF IsText
    <2>2. CASE new = <<>>
      BY <1>1, <2>1, <2>2 DEF Joined, NoText
    <2>3. CASE new # <<>>
      BY <1>1, <2>1, <2>3 DEF Joined
    <2> QED  BY <2>2, <2>3
  <1> QED  BY <1>5, <1>14, <1>15, <1>16

(* The diff that is stored with a revision is a patch that the agent's tool
   would accept, and it gives the new text: for every pairing of equal lines
   that difflib may choose, every number of lines of context from 1 on, and
   every text and patch. *)
THEOREM DiffsReplay == EditSpec => []StoredDiffReplays
  <1>1. ASSUME EditInv PROVE StoredDiffReplays
    <2> SUFFICES ASSUME edit # None, edit.patch_text # <<>>, edit.before.nl = doc.nl, doc.lines # <<Empty>>
                 PROVE  Applies(edit.before, edit.patch_text) /\ Patched(edit.before, edit.patch_text) = doc
      BY DEF StoredDiffReplays
    <2>1. IsText(doc) /\ EditIsTrue
      BY <1>1 DEF EditInv
    <2>2. IsText(edit.before)
      BY <2>1 DEF EditIsTrue
    <2>3. PICK kept \in Pairings(edit.before.lines, doc.lines) :
            edit.patch_text = Diff(edit.before.lines, doc.lines, kept)
      BY <2>1 DEF EditIsTrue
    <2>4. Diff(edit.before.lines, doc.lines, kept) # <<>>
      BY <2>3
    <2>5. Applies(edit.before, Diff(edit.before.lines, doc.lines, kept))
          /\ Patched(edit.before, Diff(edit.before.lines, doc.lines, kept)) = doc
      BY <2>1, <2>2, <2>4, DiffReplays, Zenon
    <2> QED  BY <2>3, <2>5, Zenon
  <1> QED  BY <1>1, EditsAreTrue, PTL
=============================================================================
