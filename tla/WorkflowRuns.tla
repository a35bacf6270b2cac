---------------------------- MODULE WorkflowRuns ----------------------------
(***************************************************************************)
(* Analysis workflows of one symbol: the task that runs each of them       *)
(* (workflows/analysis/orchestrator.py), the events it appends through     *)
(* WorkflowRuntime (core/workflow/runtime.py), and the stall monitor that  *)
(* appends events to the same workflows from a session of its own.         *)
(*                                                                         *)
(* An event is appended in two steps, a SELECT of the greatest seq_no and  *)
(* the COMMIT of the INSERT with the next one; uq_analysis_workflow_events *)
(* _seq refuses the second of two equal numbers. A transition also writes  *)
(* the workflow row and the snapshot of the symbol, in the same COMMIT.    *)
(*                                                                         *)
(* The cache never answers, so there is no step for it: a workflow looks   *)
(* for a finished snapshot that has not expired, but a snapshot expires at *)
(* the very event that finishes it (projections/store.py).                 *)
(*                                                                         *)
(* The snapshot of the symbol is one row that all its workflows write. The *)
(* ORM sends only the columns that differ from the row it read. Modelled   *)
(* is the column that collects the artifacts, not the columns that every   *)
(* transition sets for readers outside this module.                        *)
(***************************************************************************)
EXTENDS Naturals, FiniteSets

CONSTANTS
  Workflows,   \* workflows, all of the same symbol
  Nobody,      \* the writer of what is missing, or older than the Workflows
  NumSteps,    \* nodes a workflow runs, each with an artifact of its own
  NoRow,       \* the snapshot of a symbol that has none
  Analysed,    \* has the symbol a snapshot before? a set of Booleans
  MaxBeats,    \* bound: heartbeats, of all tasks together
  MaxTroubles  \* bound: events of the stall monitor, database failures and
               \* crashes of the process, all together

Terminal == {"completed", "failed"}
WorkflowStates == {"queued", "running"} \cup Terminal
Details == [1..NumSteps -> Workflows \cup {Nobody}]

ASSUME RunsAssumption ==
  /\ NumSteps \in Nat \ {0}
  /\ Analysed \subseteq BOOLEAN
  /\ Nobody \notin Workflows /\ NoRow \notin Details
  /\ MaxBeats \in Nat /\ MaxTroubles \in Nat

VARIABLES
  state,     \* analysis_workflows.state, or "absent"
  coded,     \* workflows whose error_code is set
  events,    \* analysis_workflow_events
  snapshot,  \* node -> the workflow whose artifact of it the snapshot of the
             \* symbol holds, or NoRow
  task,      \* workflow -> the task (or request) that runs it
  monitor,   \* the stall monitor
  count      \* heartbeats, stall events and failures so far

vars == <<state, coded, events, snapshot, task, monitor, count>>

(* _ALLOWED_TRANSITIONS, without the states that are never entered. *)
Allowed == [s \in WorkflowStates |->
              CASE s = "queued"  -> {"queued", "running", "failed"}
                [] s = "running" -> {"running", "completed", "failed"}
                [] OTHER         -> {}]

(* The points of a task at which it appends an event, with the session it
   uses: its own ("main") or a new one for this event. *)
MainPoints == {"queued", "step", "finish"}
OwnSession == {"started", "beat", "succeeded", "nodefail", "fail"}
Appending == MainPoints \cup OwnSession
Transitions == MainPoints \cup {"fail"}

NewState(at) == CASE at = "queued" -> "queued"
                  [] at = "step"   -> "running"
                  [] at = "finish" -> "completed"
                  [] at = "fail"   -> "failed"

NoSeq == 0
Of(w) == {e \in events : e.workflow = w}
(* _next_event_seq *)
NextSeq(w) == 1 + (IF Of(w) = {} THEN 0
                   ELSE CHOOSE n \in {e.seq : e \in Of(w)} :
                          \A e \in Of(w) : e.seq <= n)

Idle == [at |-> "none", step |-> 0, seq |-> NoSeq, fresh |-> FALSE]

Goto(w, point) ==
  task' = [task EXCEPT ![w].at = point, ![w].seq = NoSeq, ![w].fresh = FALSE]

-----------------------------------------------------------------------------
(* The bound on what goes wrong; the monitor does not look when it is used up. *)
MoreTroubles == count.stalls + count.faults < MaxTroubles

(* start_workflow inserts the row in a COMMIT of its own. *)
StartWorkflow(w) ==
  /\ state[w] = "absent"
  /\ state' = [state EXCEPT ![w] = "queued"]
  /\ Goto(w, "queued")
  /\ UNCHANGED <<coded, events, snapshot, monitor, count>>

NoDetails == [s \in 1..NumSteps |-> Nobody]

(* upsert_workflow_projection in a transition: a new row, or columns other
   than the details, which it reads and would write back as they were. *)
Projected(w) == IF task[w].fresh THEN NoDetails ELSE snapshot

Mutant_KeyUnknown(details, w) ==
  [details EXCEPT ![task[w].step] = IF task[w].step = NumSteps THEN @ ELSE w]

(* normalize_projection_payload puts the artifact of the node under its key. *)
WithArtifact(details, w) == [details EXCEPT ![task[w].step] = w]

(* persist_artifact projects once more, from a row that the first projection
   of the step has locked, so that nothing can come in between. *)
StoreArtifact(w) ==
  snapshot' = WithArtifact(snapshot, w)

(* Where a task goes on. A node that was the last one leads to the end. *)
After(w) ==
  LET t == task[w]
      next == CASE t.at = "queued"    -> "step"
                [] t.at = "step"      -> "started"
                [] t.at \in {"started", "beat"}  -> "node"
                [] t.at = "succeeded" -> "persist"
                [] t.at = "nodefail"  -> "mark"
                [] t.at \in {"finish", "fail"} -> "end"
  IN  [t EXCEPT !.at = next, !.seq = NoSeq, !.fresh = FALSE,
                !.step = IF t.at = "queued" THEN 1 ELSE @]

(* Where a task goes when a COMMIT raises, or the flush of a node on the main
   session (reverse_dcf stores its rows so). The rollback of that session expires
   the workflow object, and every except branch, of the node's step and of
   _run_workflow, fails on its first use of it: nobody is left to record the
   failure. A request that fails in start_workflow never creates the task.
   "outrun" is the same, for a task whose snapshot another workflow has inserted
   first. A heartbeat that raises counts as a failure of the node. *)
Broken(w) ==
  CASE task[w].at \in MainPoints \cup {"node", "persist", "mark", "fail"} -> "dead"
    [] task[w].at = "beat" -> "nodefail"
    [] task[w].at \in {"started", "succeeded", "nodefail"} -> "mark"

(* _append_event reads the next number, and a transition the snapshot. *)
ReadSeq(w) ==
  /\ task[w].at \in Appending /\ task[w].seq = NoSeq
  /\ task[w].at \in Transitions => NewState(task[w].at) \in Allowed[state[w]]
  /\ task' = [task EXCEPT ![w].seq = NextSeq(w),
                          ![w].fresh = task[w].at \in Transitions /\ snapshot = NoRow]
  /\ UNCHANGED <<state, coded, events, snapshot, monitor, count>>

Taken(w, n) == \E e \in Of(w) : e.seq = n

(* Another workflow has inserted the snapshot that this one found absent. *)
InsertedSince(w) == task[w].fresh /\ snapshot # NoRow

Mutant_RefusedNumberAccepted(w) == InsertedSince(w)

(* The COMMIT of an event is refused if its number is taken, and that of a
   transition also if the primary key of the snapshot refuses its row. *)
Refused(w) == Taken(w, task[w].seq) \/ InsertedSince(w)

CommitEvent(w) ==
  LET at == task[w].at
      result == IF at \in Transitions THEN NewState(at) ELSE state[w]
  IN  /\ at \in Appending /\ task[w].seq # NoSeq
      /\ ~Refused(w)
      /\ events' = events \cup {[workflow |-> w, seq |-> task[w].seq, type |-> at,
                                 step |-> task[w].step, state |-> result]}
      /\ state' = [state EXCEPT ![w] = result]
      /\ coded' = CASE at = "finish" -> coded \ {w}
                    [] at = "fail"   -> coded \cup {w}
                    [] OTHER         -> coded
      /\ snapshot' = IF at \in Transitions THEN Projected(w) ELSE snapshot
      /\ task' = [task EXCEPT ![w] = After(w)]
      /\ UNCHANGED <<monitor, count>>

EventRefused(w) ==
  /\ task[w].at \in Appending /\ task[w].seq # NoSeq
  /\ Refused(w)
  /\ Goto(w, IF InsertedSince(w) THEN "outrun" ELSE Broken(w))
  /\ UNCHANGED <<state, coded, events, snapshot, monitor, count>>

(* The node runs in a task of its own. *)
Heartbeat(w) ==
  /\ task[w].at = "node" /\ count.beats < MaxBeats
  /\ Goto(w, "beat")
  /\ count' = [count EXCEPT !.beats = @ + 1]
  /\ UNCHANGED <<state, coded, events, snapshot, monitor>>

(* It returns, or raises, or runs into its timeout, with the main session as it
   was: a failing flush is in TaskFault. *)
NodeEnds(w) ==
  /\ task[w].at = "node"
  /\ Goto(w, "succeeded") \/ Goto(w, "nodefail")
  /\ UNCHANGED <<state, coded, events, snapshot, monitor, count>>

(* The operators named Mutant_... are faults a maintainer could introduce into
   the definition below them; each breaks one of the properties. *)
Mutant_PersistSkipsLast(w) ==
  /\ task[w].at = "persist"
  /\ task' = [task EXCEPT ![w].at = IF task[w].step + 1 < NumSteps THEN "step" ELSE "finish",
                          ![w].step = IF task[w].step + 1 < NumSteps THEN @ + 1 ELSE @]
  /\ StoreArtifact(w)
  /\ UNCHANGED <<state, coded, events, monitor, count>>

(* The artifact and the projection of a node that succeeded, then the next
   node or the end. *)
Persist(w) ==
  /\ task[w].at = "persist"
  /\ task' = [task EXCEPT ![w].at = IF task[w].step < NumSteps THEN "step" ELSE "finish",
                          ![w].step = IF task[w].step < NumSteps THEN @ + 1 ELSE @]
  /\ StoreArtifact(w)
  /\ UNCHANGED <<state, coded, events, monitor, count>>

Mutant_MarkOnly(w) ==
  /\ task[w].at = "mark"
  /\ coded' = coded \cup {w}
  /\ Goto(w, "end")
  /\ UNCHANGED <<state, events, snapshot, monitor, count>>

Mutant_MarkSetsState(w) ==
  /\ task[w].at = "mark"
  /\ coded' = coded \cup {w}
  /\ state' = [state EXCEPT ![w] = "failed"]
  /\ Goto(w, "end")
  /\ UNCHANGED <<events, snapshot, monitor, count>>

(* _fail_workflow_isolated sets the error code in a COMMIT of its own, then
   emits the transition to "failed". *)
MarkFailed(w) ==
  /\ task[w].at = "mark"
  /\ coded' = coded \cup {w}
  /\ Goto(w, "fail")
  /\ UNCHANGED <<state, events, snapshot, monitor, count>>

(* A statement fails in any session of the task, or the timeout of a node cuts
   off its flush. A SELECT that fails leaves the workflow object of the main
   session as it was, so that the failure is recorded after all, unless the
   request has not created the task yet; in a node, that is one of NodeEnds. *)
TaskFault(w) ==
  /\ MoreTroubles
  /\ task[w].at \in Appending \cup {"node", "persist", "mark"}
  /\ \/ Goto(w, Broken(w))
     \/ /\ task[w].at \in {"step", "finish", "persist"} /\ task[w].seq = NoSeq
        /\ Goto(w, "mark")
  /\ count' = [count EXCEPT !.faults = @ + 1]
  /\ UNCHANGED <<state, coded, events, snapshot, monitor>>

-----------------------------------------------------------------------------
(* _monitor_running_workflows: one SELECT finds the running workflows... *)
Scan ==
  /\ monitor.todo = {}
  /\ MoreTroubles /\ \E w \in Workflows : state[w] = "running"
  /\ monitor' = [monitor EXCEPT !.todo = {w \in Workflows : state[w] = "running"}]
  /\ UNCHANGED <<state, coded, events, snapshot, task, count>>

(* ...and each that has an old last event, and was not signalled lately, gets
   an event of the state it was found in. How much time has passed is open. *)
Skip(w) ==
  /\ w \in monitor.todo /\ monitor.seq = NoSeq
  /\ monitor' = [monitor EXCEPT !.todo = @ \ {w}]
  /\ UNCHANGED <<state, coded, events, snapshot, task, count>>

ReadStalled(w) ==
  /\ w \in monitor.todo /\ monitor.seq = NoSeq
  /\ MoreTroubles
  /\ monitor' = [monitor EXCEPT !.seq = NextSeq(w), !.on = {w}]
  /\ count' = [count EXCEPT !.stalls = @ + 1]
  /\ UNCHANGED <<state, coded, events, snapshot, task>>

Mutant_StalledWritesState(w) ==
  /\ w \in monitor.on
  /\ monitor' = [monitor EXCEPT !.seq = NoSeq, !.on = {}, !.todo = @ \ {w}]
  /\ state' = [state EXCEPT ![w] = "running"]
  /\ UNCHANGED <<coded, events, snapshot, task, count>>

CommitStalled(w) ==
  /\ w \in monitor.on
  /\ IF Taken(w, monitor.seq)
     THEN /\ monitor' = [monitor EXCEPT !.seq = NoSeq, !.on = {}, !.todo = {}]
          /\ UNCHANGED events
     ELSE /\ monitor' = [monitor EXCEPT !.seq = NoSeq, !.on = {}, !.todo = @ \ {w}]
          /\ events' = events \cup {[workflow |-> w, seq |-> monitor.seq, type |-> "stalled",
                                     step |-> task[w].step, state |-> "running"]}
  /\ UNCHANGED <<state, coded, snapshot, task, count>>

(* The process dies. Nothing resumes its workflows. *)
Crash ==
  /\ MoreTroubles
  /\ task' = [w \in Workflows |->
                IF task[w].at \in {"none", "end", "outrun"} THEN task[w]
                ELSE [task[w] EXCEPT !.at = "dead", !.seq = NoSeq, !.fresh = FALSE]]
  /\ monitor' = [monitor EXCEPT !.todo = {}, !.on = {}, !.seq = NoSeq]
  /\ count' = [count EXCEPT !.faults = @ + 1]
  /\ UNCHANGED <<state, coded, events, snapshot>>

-----------------------------------------------------------------------------
Init ==
  /\ state = [w \in Workflows |-> "absent"]
  /\ coded = {} /\ events = {}
  /\ \E again \in Analysed : snapshot = IF again THEN NoDetails ELSE NoRow
  /\ task = [w \in Workflows |-> Idle]
  /\ monitor = [todo |-> {}, on |-> {}, seq |-> NoSeq]
  /\ count = [beats |-> 0, stalls |-> 0, faults |-> 0]

Run(w) ==
  \/ ReadSeq(w) \/ CommitEvent(w) \/ EventRefused(w)
  \/ NodeEnds(w) \/ Persist(w) \/ MarkFailed(w)

Monitor(w) == Skip(w) \/ ReadStalled(w) \/ CommitStalled(w)

Next ==
  \/ \E w \in Workflows :
       StartWorkflow(w) \/ Run(w) \/ Heartbeat(w) \/ TaskFault(w) \/ Monitor(w)
  \/ Scan
  \/ Crash

Spec == Init /\ [][Next]_vars

(* The event loop runs every task, and every node ends at its timeout. *)
FairSpec == Spec /\ \A w \in Workflows : WF_vars(Run(w))

-----------------------------------------------------------------------------
Points == {"none", "node", "persist", "mark", "end", "dead", "outrun"} \cup Appending

Event == [workflow : Workflows, seq : Nat \ {0}, type : Appending \cup {"stalled"},
          step : 0..NumSteps, state : WorkflowStates]

TypeOK ==
  /\ state \in [Workflows -> {"absent"} \cup WorkflowStates]
  /\ coded \subseteq Workflows /\ snapshot \in Details \cup {NoRow}
  /\ events \subseteq Event
  /\ task \in [Workflows -> [at : Points, step : 0..NumSteps, seq : Nat, fresh : BOOLEAN]]
  /\ monitor \in [todo : SUBSET Workflows, on : SUBSET Workflows, seq : Nat]
  /\ count \in [beats : 0..MaxBeats, stalls : 0..MaxTroubles, faults : 0..MaxTroubles]

(* The events of a workflow are numbered 1, 2, 3... without a gap or a
   repetition, although two sessions count them independently. *)
EventsNumbered ==
  \A w \in Workflows :
    /\ {e.seq : e \in Of(w)} = 1..Cardinality(Of(w))

StateIsLastTransition ==
  \A e \in events :
    e.type \in Transitions /\ state[e.workflow] # e.state =>
      \E f \in Of(e.workflow) : f.type \in Transitions /\ f.seq > e.seq

CodeTellsFailure ==
  \A w \in Workflows : state[w] \in Terminal => (w \in coded <=> state[w] = "failed")

(* The row and the trail tell the same story: the state of a workflow is the
   state of its last transition, and once it has ended its error code is set
   exactly if that was to "failed", though the code is committed before. *)
RowAgreesWithTrail == StateIsLastTransition /\ CodeTellsFailure

(* A workflow that has completed or failed stays as it is. *)
TerminalIsFinal ==
  [][\A w \in Workflows : state[w] \in Terminal => state'[w] = state[w]]_vars

(* "completed" is recorded only after every node has been started and has
   succeeded, in this order and in the order of the nodes. *)
CompletedAfterAllNodes ==
  \A c \in events : c.type = "finish" =>
    \A s \in 1..NumSteps :
      \E a, b \in Of(c.workflow) :
        /\ a.type = "started" /\ b.type = "succeeded" /\ a.step = s /\ b.step = s
        /\ a.seq < b.seq /\ b.seq < c.seq
        /\ \A e \in Of(c.workflow) : e.seq > b.seq /\ e.type # "stalled" => e.step >= s

(* When a workflow has completed, the snapshot of its symbol holds no part of
   an analysis from before: every artifact is there, and its own or that of a
   workflow that ran meanwhile, however their transitions overlapped. *)
CompletedRefreshesSnapshot ==
  (\E e \in events : e.type = "finish") =>
    \A s \in 1..NumSteps : snapshot[s] \in Workflows

(* The task of w is gone although something remains to be done: the process
   died, a COMMIT or a flush failed, the stall monitor took the number of its
   event, or another workflow inserted the snapshot of the symbol first. *)
Stranded(w) ==
  \/ task[w].at = "dead" /\ count.faults + count.stalls > 0
  \/ task[w].at = "outrun"

(* A workflow that was started ends, completed or failed, whatever its nodes
   do; only these events strand one. *)
WorkflowsEnd ==
  \A w \in Workflows : state[w] = "queued" ~> state[w] \in Terminal \/ Stranded(w)
=============================================================================
