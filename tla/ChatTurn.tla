------------------------------ MODULE ChatTurn ------------------------------
(***************************************************************************)
(* A chat turn (POST /chat/turn/stream in copilot/api/router.py) and the   *)
(* agent runtime it drives (agent/runtime/engine.py). One database         *)
(* transaction spans the turn: it opens before the first call of the       *)
(* language model and commits the two messages of the turn after the last  *)
(* tool call. Tools commit in sessions of their own; what they do to the   *)
(* documents is in DocumentTx. Other turns, and the user who edits skills  *)
(* and creates or deletes threads, go on meanwhile.                        *)
(*                                                                         *)
(* Some rows are created by whoever misses them first: the ledger and the  *)
(* journal with the heads of all documents, here one row (ensure_workspace *)
(* _state, list_documents), and the built-in skills (ensure_seeded). A     *)
(* turn that inserts them keeps them uncommitted to its end; an INSERT of  *)
(* the same row waits for that end, then fails if the row is there.        *)
(*                                                                         *)
(* The model's answers are open: which skills it asks for, whether its     *)
(* answer fits the schema, which tools it calls and how they fare.         *)
(***************************************************************************)
EXTENDS Naturals, Sequences, FiniteSets

CONSTANTS
  Turns,              \* requests for a turn
  Threads,            \* identifiers of threads, each used once
  Skills, Policies,   \* skill identifiers and the policies they may have
  Builtin,            \* the skills of _DEFAULT_SEEDS
  DefaultPolicy,      \* their policy
  NoSkill,            \* no row in copilot_skills
  Tools, Registered,  \* tool names the model may call; those in the ToolRegistry
  DocumentTools,      \* those that read or write documents
  SkillRequestLimit,  \* AgentTurnContext.skill_request_limit
  MaxAttempts,        \* settings.turn_schema_retry_max
  MaxCalls,           \* bound: tool calls in one answer
  NoThread            \* body.threadId absent

Policy == [enabled : BOOLEAN, allowed : SUBSET Tools, order : Seq(Tools),
           blocked : SUBSET (Tools \X Tools)]
Disabled == [enabled |-> FALSE, allowed |-> {}, order |-> <<>>, blocked |-> {}]

ASSUME ChatAssumption ==
  /\ Policies \subseteq Policy /\ NoSkill \notin Policies
  /\ Builtin \subseteq Skills /\ DefaultPolicy \in Policies
  /\ DocumentTools \subseteq Registered /\ Registered \subseteq Tools
  /\ SkillRequestLimit \in Nat /\ MaxAttempts \in Nat \ {0}
  /\ MaxCalls \in Nat
  /\ NoThread \notin Threads

VARIABLES
  threads,   \* thread -> what has become of it; "pending" until its turn commits
  updated,   \* thread -> copilot_threads.updated_at
  opened,    \* the protected documents and all heads are committed
  skills,    \* copilot_skills: skill -> policy, or NoSkill
  messages,  \* turns whose two messages are in copilot_messages
  jobs,      \* turns whose memory job was enqueued
  doubt,     \* turns for which the answer to COMMIT was lost
  turn,      \* the requests and their transactions
  clock      \* writes of updated_at so far

tables == <<threads, updated, opened, skills, messages>>
vars == <<tables, jobs, doubt, turn, clock>>

New == [at       |-> "new",
        thread   |-> NoThread,
        catalog  |-> [s \in Skills |-> Disabled],  \* skill_definitions
        loaded   |-> {},                      \* policies of loaded_skills
        attempts |-> 0,
        calls    |-> 0,
        executed |-> <<>>,                    \* executed_tool_names
        opens    |-> FALSE,                   \* it inserted the documents and heads
        seeds    |-> {}]                      \* skills it found missing, then inserted

Running == {"open", "thread", "context", "seed", "skills", "answer", "calls", "waiting",
            "store", "stored"}
Over == {"completed", "failed", "gone", "left"}

Live(th) == th \in Threads /\ threads[th] = "live"
TurnsIn(th) == {t \in messages : turn[t].thread = th}

(* The turn without what its runtime knew. *)
Plain(t, at) == [New EXCEPT !.at = at, !.thread = turn[t].thread]

(* An exception ends the turn before its COMMIT: the session closes and rolls
   back, with a thread that only this transaction knew. *)
GiveUp(t, end) ==
  /\ turn' = [turn EXCEPT ![t] = Plain(t, end)]
  /\ threads' = [th \in Threads |-> IF th = turn[t].thread /\ threads[th] = "pending"
                                     THEN "deleted" ELSE threads[th]]

(* The uncommitted rows of others, for which an INSERT waits. *)
OpenedByOther(t) == \E o \in Turns \ {t} : turn[o].opens
SeededBy(o) == IF turn[o].at = "seed" THEN {} ELSE turn[o].seeds
SeededByOther(t) == UNION {SeededBy(o) : o \in Turns \ {t}}

Missing == {s \in Builtin : skills[s] = NoSkill}
Filled(seeds) == [s \in Skills |-> IF s \in seeds THEN DefaultPolicy ELSE skills[s]]

-----------------------------------------------------------------------------
(* get_or_create_thread: the thread asked for, or else the one updated last,
   or else a new one. *)
Chosen(asked) ==
  LET live == {th \in Threads : Live(th)}
  IN  IF Live(asked) THEN {asked}
      ELSE IF live # {} THEN {th \in live : \A o \in live : updated[o] <= updated[th]}
      ELSE {th \in Threads : threads[th] = "unused"}

(* ensure_workspace_state and list_documents: the SELECT misses rows... *)
FindClosed(t) ==
  /\ turn[t].at = "new" /\ ~opened
  /\ turn' = [turn EXCEPT ![t].at = "open"]
  /\ UNCHANGED <<tables, jobs, doubt, clock>>

(* ...and the INSERT adds them, unless they have been added since. *)
OpenWorkspace(t) ==
  /\ turn[t].at = "open" /\ ~opened /\ ~OpenedByOther(t)
  /\ turn' = [turn EXCEPT ![t].at = "thread", ![t].opens = TRUE]
  /\ UNCHANGED <<tables, jobs, doubt, clock>>

Open(t, asked) ==
  /\ turn[t].at = "thread" \/ (turn[t].at = "new" /\ opened)
  /\ \E th \in Chosen(asked) :
       /\ turn' = [turn EXCEPT ![t].at = "context", ![t].thread = th]
       /\ threads' = [threads EXCEPT ![th] = IF @ = "unused" THEN "pending" ELSE @]
  /\ UNCHANGED <<updated, opened, skills, messages, jobs, doubt, clock>>

(* ensure_seeded: a built-in skill that is missing is inserted likewise. *)
FindMissingSkills(t) ==
  /\ turn[t].at = "context" /\ Missing # {}
  /\ turn' = [turn EXCEPT ![t].at = "seed", ![t].seeds = Missing]
  /\ UNCHANGED <<tables, jobs, doubt, clock>>

SkillsListed(table) == [s \in Skills |-> IF table[s] = NoSkill THEN Disabled ELSE table[s]]

SeedSkills(t) ==
  /\ turn[t].at = "seed" /\ turn[t].seeds \subseteq Missing \ SeededByOther(t)
  /\ turn' = [turn EXCEPT ![t].at = "skills",
                          ![t].catalog = SkillsListed(Filled(turn[t].seeds))]
  /\ UNCHANGED <<tables, jobs, doubt, clock>>

(* AgentTurnContext is read once: the turn works with the skills as they are
   now. The messages, documents and memories it is given are left out. *)
ReadContext(t) ==
  /\ turn[t].at = "context" /\ Missing = {}
  /\ turn' = [turn EXCEPT ![t].at = "skills", ![t].catalog = SkillsListed(skills)]
  /\ UNCHANGED <<tables, jobs, doubt, clock>>

(* The first call of the model. A request for an unknown or disabled skill is
   rejected, and counts. From here on, what was read is only in the prompts. *)
ChooseSkills(t, requested) ==
  /\ turn[t].at = "skills"
  /\ Cardinality(requested) <= SkillRequestLimit
  /\ turn' = [turn EXCEPT ![t].at = "answer", ![t].catalog = New.catalog,
                          ![t].loaded = {p \in {turn[t].catalog[s] : s \in requested} : p.enabled}]
  /\ UNCHANGED <<tables, jobs, doubt, clock>>

(* The operators named Mutant_... are faults a maintainer could introduce into
   a definition that follows them; the specification does not use them. *)
Mutant_RepairForever(t) ==
  /\ turn[t].at = "answer"
  /\ turn' = [turn EXCEPT ![t].attempts = (@ + 1) % MaxAttempts]
  /\ UNCHANGED <<tables, jobs, doubt, clock>>

(* _collect_structured_response: an answer that does not fit the schema is
   sent back for repair; after the last attempt it is taken as it is. *)
InvalidAnswer(t) ==
  /\ turn[t].at = "answer" /\ turn[t].attempts < MaxAttempts - 1
  /\ turn' = [turn EXCEPT ![t].attempts = @ + 1]
  /\ UNCHANGED <<tables, jobs, doubt, clock>>

Answer(t) ==
  /\ turn[t].at = "answer"
  /\ turn' = [turn EXCEPT ![t].at = "calls", ![t].attempts = 0]
  /\ UNCHANGED <<tables, jobs, doubt, clock>>

-----------------------------------------------------------------------------
(* _is_tool_allowed *)
Executed(t) == {turn[t].executed[n] : n \in 1..Len(turn[t].executed)}

Mutant_NoPredecessor(order, tool) == {}

(* The tool that must have run before: the one before its first place. *)
Predecessor(order, tool) ==
  {order[n] : n \in {m \in 1..Len(order) - 1 :
                       order[m + 1] = tool /\ \A k \in 1..m : order[k] # tool}}

IsToolAllowed(t, tool) ==
  /\ \E p \in turn[t].loaded : tool \in p.allowed
  /\ \A p \in turn[t].loaded :
       /\ \A pair \in p.blocked :
            /\ tool = pair[1] => pair[2] \notin Executed(t)
            /\ tool = pair[2] => pair[1] \notin Executed(t)
       /\ Predecessor(p.order, tool) \subseteq Executed(t)

CallRejected(t, tool) ==
  /\ turn[t].at = "calls" /\ turn[t].calls < MaxCalls
  /\ ~IsToolAllowed(t, tool) \/ tool \notin Registered
  /\ turn' = [turn EXCEPT ![t].calls = @ + 1]
  /\ UNCHANGED <<tables, jobs, doubt, clock>>

(* Whatever status the tool returns, its name counts as executed. *)
CallTool(t, tool) ==
  /\ turn[t].at = "calls" /\ turn[t].calls < MaxCalls
  /\ IsToolAllowed(t, tool) /\ tool \in Registered
  /\ turn' = [turn EXCEPT ![t].calls = @ + 1, ![t].executed = Append(@, tool)]
  /\ UNCHANGED <<tables, jobs, doubt, clock>>

(* A tool works in a session of its own. Its INSERT of a document or a head
   that its own turn has inserted waits for the end of the turn, which waits
   for the tool: PostgreSQL sees an idle transaction, not a deadlock. *)
ToolWaits(t, tool) ==
  /\ turn[t].at = "calls" /\ turn[t].calls < MaxCalls
  /\ IsToolAllowed(t, tool) /\ tool \in DocumentTools
  /\ turn[t].opens
  /\ turn' = [turn EXCEPT ![t].at = "waiting"]
  /\ UNCHANGED <<tables, jobs, doubt, clock>>

EndCalls(t) ==
  /\ turn[t].at = "calls"
  /\ turn' = [turn EXCEPT ![t] = [Plain(t, "store") EXCEPT !.opens = turn[t].opens,
                                                         !.seeds = turn[t].seeds]]
  /\ UNCHANGED <<tables, jobs, doubt, clock>>

-----------------------------------------------------------------------------

(* The UPDATE of the thread and the foreign key of the messages need the row. *)
ThreadIsThere(t) == threads[turn[t].thread] \in {"pending", "live"}

(* append_turn_messages and COMMIT *)
Stored(t) ==
  /\ turn[t].at = "store" /\ ThreadIsThere(t)
  /\ messages' = messages \cup {t}
  /\ threads' = [threads EXCEPT ![turn[t].thread] = IF @ = "pending" THEN "live" ELSE @]
  /\ updated' = [updated EXCEPT ![turn[t].thread] = clock + 1]
  /\ clock' = clock + 1
  /\ opened' = (opened \/ turn[t].opens)
  /\ skills' = Filled(turn[t].seeds)

Store(t) ==
  /\ Stored(t)
  /\ turn' = [turn EXCEPT ![t] = Plain(t, "stored")]
  /\ UNCHANGED <<jobs, doubt>>

(* The database has committed, but the request does not learn it. *)
StoreUnanswered(t) ==
  /\ Stored(t)
  /\ turn' = [turn EXCEPT ![t] = Plain(t, "failed")]
  /\ doubt' = doubt \cup {t}
  /\ UNCHANGED jobs

Mutant_CompleteFirst(t) ==
  /\ turn[t].at = "stored"
  /\ turn' = [turn EXCEPT ![t].at = "completed"]
  /\ UNCHANGED <<tables, jobs, doubt, clock>>

(* enqueue_memory_job, then the event turn_completed *)
Enqueue(t) ==
  /\ turn[t].at = "stored"
  /\ jobs' = jobs \cup {t}
  /\ turn' = [turn EXCEPT ![t].at = "completed"]
  /\ UNCHANGED <<threads, updated, opened, skills, messages, doubt, clock>>

Mutant_FailAfterStore(t) ==
  /\ turn[t].at = "store" /\ ThreadIsThere(t)
  /\ messages' = messages \cup {t}
  /\ GiveUp(t, "failed")
  /\ UNCHANGED <<updated, opened, skills, jobs, doubt, clock>>

(* A row that the turn missed has been added since, or its thread is gone. (Or
   the bound on the threads is reached.) *)
Refused(t) ==
  /\ \/ turn[t].at = "open" /\ opened
     \/ turn[t].at = "thread" /\ Chosen(NoThread) = {}
     \/ turn[t].at = "seed" /\ ~(turn[t].seeds \subseteq Missing)
     \/ turn[t].at = "store" /\ ~ThreadIsThere(t)
  /\ GiveUp(t, "failed")
  /\ UNCHANGED <<updated, opened, skills, messages, jobs, doubt, clock>>

(* A statement, the model or a tool raises: the client gets turn_failed. *)
Fail(t) ==
  /\ turn[t].at \in Running \ {"stored"}
  /\ GiveUp(t, "failed")
  /\ UNCHANGED <<updated, opened, skills, messages, jobs, doubt, clock>>

(* The client disconnects: the task is cancelled wherever it is. *)
ClientGone(t) ==
  /\ turn[t].at \in Running
  /\ GiveUp(t, IF turn[t].at = "stored" THEN "left" ELSE "gone")
  /\ UNCHANGED <<updated, opened, skills, messages, jobs, doubt, clock>>

-----------------------------------------------------------------------------
(* POST /workspace: the page opens the workspace, in a transaction of its own
   that is short. It waits for a turn that is opening it. *)
GetWorkspace ==
  /\ ~opened \/ ~\E th \in Threads : Live(th)
  /\ ~\E t \in Turns : turn[t].opens
  /\ opened' = TRUE
  /\ \E th \in Chosen(NoThread) :
       IF Live(th) THEN UNCHANGED <<threads, updated, clock>>
       ELSE /\ threads' = [threads EXCEPT ![th] = "live"]
            /\ updated' = [updated EXCEPT ![th] = clock + 1]
            /\ clock' = clock + 1
  /\ UNCHANGED <<skills, messages, jobs, doubt, turn>>

CreateThread(th) ==
  /\ threads[th] = "unused"
  /\ threads' = [threads EXCEPT ![th] = "live"]
  /\ updated' = [updated EXCEPT ![th] = clock + 1]
  /\ clock' = clock + 1
  /\ UNCHANGED <<opened, skills, messages, jobs, doubt, turn>>

(* The messages go with their thread. *)
DeleteThread(th) ==
  /\ Live(th)
  /\ threads' = [threads EXCEPT ![th] = "deleted"]
  /\ messages' = messages \ TurnsIn(th)
  /\ UNCHANGED <<updated, opened, skills, jobs, doubt, turn, clock>>

SeededByTurns == UNION {SeededBy(t) : t \in Turns}

Mutant_InsertBeside(s, p) ==
  /\ skills[s] # p
  /\ skills' = [skills EXCEPT ![s] = p]
  /\ UNCHANGED <<threads, updated, opened, messages, jobs, doubt, turn, clock>>

PutSkill(s, p) ==
  /\ skills[s] # p
  /\ s \notin SeededByTurns
  /\ skills' = [skills EXCEPT ![s] = p]
  /\ UNCHANGED <<threads, updated, opened, messages, jobs, doubt, turn, clock>>

DeleteSkill(s) ==
  /\ skills[s] # NoSkill
  /\ skills' = [skills EXCEPT ![s] = NoSkill]
  /\ UNCHANGED <<threads, updated, opened, messages, jobs, doubt, turn, clock>>

(* GET /skills: the page seeds the built-in skills like a turn, and commits. *)
ListSkills ==
  /\ Missing # {} /\ Missing \cap SeededByTurns = {}
  /\ skills' = Filled(Missing)
  /\ UNCHANGED <<threads, updated, opened, messages, jobs, doubt, turn, clock>>

-----------------------------------------------------------------------------
Init ==
  /\ threads = [th \in Threads |-> "unused"] /\ updated = [th \in Threads |-> 0]
  /\ opened \in BOOLEAN /\ skills \in [Skills -> Policies \cup {NoSkill}]
  /\ messages = {} /\ jobs = {} /\ doubt = {}
  /\ turn = [t \in Turns |-> New]
  /\ clock = 0

Proceed(t) ==
  \/ OpenWorkspace(t)
  \/ turn[t].at = "thread" /\ \E asked \in Threads \cup {NoThread} : Open(t, asked)
  \/ FindMissingSkills(t) \/ SeedSkills(t) \/ ReadContext(t)
  \/ \E requested \in SUBSET Skills : ChooseSkills(t, requested)
  \/ InvalidAnswer(t) \/ Answer(t)
  \/ \E tool \in Tools : CallRejected(t, tool) \/ CallTool(t, tool) \/ ToolWaits(t, tool)
  \/ EndCalls(t)
  \/ Store(t) \/ StoreUnanswered(t) \/ Enqueue(t)
  \/ Refused(t)

Send(t) ==
  turn[t].at = "new" /\ (FindClosed(t) \/ \E asked \in Threads \cup {NoThread} : Open(t, asked))

Next ==
  \/ \E t \in Turns : Send(t) \/ Proceed(t) \/ Fail(t) \/ ClientGone(t)
  \/ GetWorkspace \/ ListSkills
  \/ \E th \in Threads : CreateThread(th) \/ DeleteThread(th)
  \/ \E s \in Skills : DeleteSkill(s) \/ \E p \in Policies : PutSkill(s, p)

Spec == Init /\ [][Next]_vars

(* The event loop runs the requests; the model answers every call or its
   client raises. Nobody has to send a request, to stay connected or to leave,
   and nothing but a lost connection interrupts a statement that waits. *)
FairSpec == Spec /\ WF_vars(\E t \in Turns : Proceed(t))

-----------------------------------------------------------------------------
Turn == [at : {"new"} \cup Running \cup Over, thread : Threads \cup {NoThread},
         catalog : [Skills -> Policies \cup {Disabled}],
         loaded : SUBSET Policies, attempts : 0..MaxAttempts - 1, calls : 0..MaxCalls,
         opens : BOOLEAN, seeds : SUBSET Builtin]

TypeOK ==
  /\ threads \in [Threads -> {"unused", "pending", "live", "deleted"}]
  /\ updated \in [Threads -> 0..clock] /\ clock \in Nat
  /\ opened \in BOOLEAN /\ skills \in [Skills -> Policies \cup {NoSkill}]
  /\ \A S \in {messages, jobs, doubt} : S \subseteq Turns
  /\ \A t \in Turns :
       /\ [f \in DOMAIN New \ {"executed"} |-> turn[t][f]] \in Turn
       /\ turn[t].executed \in Seq(Registered)

(* Only tools that a loaded skill allows run. No two tools that a loaded skill
   keeps apart run in one turn, and a tool in a required order runs only after
   all that come before it, although the code looks at the last one only. *)
ToolsFollowPolicy ==
  \A t \in Turns : LET ran == turn[t].executed IN
    /\ \A n \in 1..Len(ran) : \E p \in turn[t].loaded : ran[n] \in p.allowed
    /\ \A p \in turn[t].loaded :
         /\ \A pair \in p.blocked : ~(\E m, n \in 1..Len(ran) :
              m # n /\ ran[m] = pair[1] /\ ran[n] = pair[2])
         /\ \A n \in 1..Len(ran), j \in 1..Len(p.order) :
              (ran[n] = p.order[j] /\ \A i \in 1..j - 1 : p.order[i] # ran[n]) =>
                \A i \in 1..j - 1 : \E m \in 1..n - 1 : ran[m] = p.order[i]

(* A client that was told turn_completed finds the turn in its thread unless
   that was deleted since, the memory job of the turn is in the queue, and the
   workspace is open to everybody. *)
CompletedIsStored ==
  \A t \in Turns : turn[t].at = "completed" =>
    /\ t \in jobs /\ opened
    /\ t \in messages \/ threads[turn[t].thread] = "deleted"

(* A turn that failed, or whose client left before it was stored, shows up
   nowhere, unless COMMIT succeeded and only its answer was lost. *)
FailedStoresNothing ==
  \A t \in (messages \cup jobs) \ doubt : turn[t].at \in {"stored", "completed", "left"}

(* Of all who miss a row, one adds it: no document, head or skill that a turn
   keeps uncommitted is in the tables or kept by another turn. *)
SeededOnce ==
  \A t \in Turns :
    /\ turn[t].opens => ~opened /\ ~OpenedByOther(t)
    /\ SeededBy(t) \subseteq Missing \ SeededByOther(t)

(* The turns that only the departure of a client can end: one whose tool waits
   for a row of its own turn, and those that wait for a row of that turn. *)
Stuck(t) ==
  LET waiting == {o \in Turns : turn[o].at = "waiting"}
  IN  \/ t \in waiting
      \/ turn[t].at = "open" /\ \E o \in waiting : turn[o].opens
      \/ turn[t].at = "seed" /\ \E o \in waiting : turn[o].seeds \cap turn[t].seeds # {}

(* All other turns end, however often the model misses the schema and whoever
   adds a row first: again and again no turn is under way but these. A turn
   that finds the workspace opened is never one of those that wait for their
   own tool. *)
TurnsEnd == []<>(\A t \in Turns : turn[t].at \notin Running \/ Stuck(t))
=============================================================================
