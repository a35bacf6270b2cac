----------------------------- MODULE MemoryJobs -----------------------------
(***************************************************************************)
(* How the facts of a chat turn reach the memory table. A turn commits its *)
(* messages (copilot/api/router.py), then puts a job on the in-memory      *)
(* queue of MemoryJobRunner (copilot/service/memory_jobs.py). One worker   *)
(* takes the jobs in order and runs each in a transaction of its own       *)
(* (copilot/service/memory_service.py), while the user edits and deletes   *)
(* memories and threads, and restores snapshots of the whole workspace     *)
(* (copilot/service/workspace_service.py), which replaces all memories. A  *)
(* job that raises goes back to the tail of the queue, up to MaxRetries    *)
(* times. The process may die at any point.                                *)
(*                                                                         *)
(* A user's edit is one SELECT, one write of the same row and COMMIT; it   *)
(* is one step here. A restore is two, the SELECT of the memories and the  *)
(* rest with COMMIT; the module WorkspaceSnapshots has its other tables.   *)
(* The worker's transaction is one step for each statement: what it wrote  *)
(* is in wk.own until it commits.                                          *)
(***************************************************************************)
EXTENDS Naturals, Sequences, FiniteSets

CONSTANTS
  Turns,        \* chat turns; each is stored and enqueued at most once
  Keys,         \* memory keys
  Values,       \* memory values
  Suggestions,  \* the candidate lists a turn may yield: sequences of Candidate
  Typed,        \* values a user may give a memory
  Renames,      \* keys a user may rename a memory to
  Restores,     \* requests that restore a snapshot, each with one of its own
  TopK,         \* the smaller of memory_prompt_topk, memory_recall_max_candidates
  MaxRetries,   \* settings.memory_job_max_retries
  MaxCrashes,   \* bound: how often the process dies
  NoTurn        \* NULL source of a memory

Candidate == [key : Keys, val : Values, critical : BOOLEAN]

ASSUME JobsAssumption ==
  /\ Suggestions \subseteq Seq(Candidate)
  /\ Renames \subseteq Keys /\ Typed \subseteq Values
  /\ MaxRetries \in Nat /\ MaxCrashes \in Nat /\ TopK \in Nat
  /\ NoTurn \notin Turns /\ Turns \cap Restores = {}

VARIABLES
  phase,     \* turn -> how far it and its job have come
  said,      \* turn -> its candidates, once it is stored
  messages,  \* the turns whose messages are in the database
  queue,     \* MemoryJobRunner._queue
  seen,      \* MemoryJobRunner._seen_job_ids
  arrivals,  \* every turn ever enqueued, in order
  wk,        \* the worker and the transaction of its job
  rows,      \* copilot_memories, active rows: identifier -> row
  summary,   \* copilot_memory_summaries: what it says and how old it is
  told,      \* turns whose outcome was published to the broker
  doubt,     \* turns for which the answer to a COMMIT was lost
  restore,   \* request -> how far it has come with its snapshot
  edited,    \* others have written a memory since the worker took its job
  crashes

turnVars == <<phase, said, messages, arrivals>>
jobVars == <<queue, seen, wk, told, doubt>>
tableVars == <<rows, summary>>
userVars == <<restore, edited>>
vars == <<turnVars, jobVars, tableVars, userVars, crashes>>

Row == [key : Keys, val : Values, src : Turns \cup {NoTurn}]
Job == [turn : Turns, retries : 0..MaxRetries]

NoRows == [i \in {} |-> NoTurn]
Over(new, old) == [i \in DOMAIN new \cup DOMAIN old |->
                     IF i \in DOMAIN new THEN new[i] ELSE old[i]]
Facts(table) == {<<table[i].key, table[i].val>> : i \in DOMAIN table}

(* The worker without a job, and while the process is down. *)
Idle == [at       |-> "idle",                         \* the statement it runs next
         job      |-> [turn |-> NoTurn, retries |-> 0],
         todo     |-> <<>>,                           \* candidates not handled yet
         hit      |-> {},                             \* row read for the first of them
         own      |-> NoRows,                         \* rows written, not committed
         critical |-> FALSE,                          \* critical_key_changed
         draft    |-> {}]                             \* rows of the summary to write, if any
Off == [Idle EXCEPT !.at = "off"]

(* A restore that has not begun; "calm" means that no job, and no other restore,
   was under way between its SELECT of the memories and its COMMIT. *)
Unstarted == [at |-> "new", copy |-> NoRows, says |-> {}, found |-> {}, calm |-> TRUE]
Disturbed(r) == IF restore[r].at = "read" THEN [restore[r] EXCEPT !.calm = FALSE] ELSE restore[r]

Up == wk.at # "off"
InTransaction == wk.at \in {"select", "flush", "commit"}

(* What the worker's own transaction sees. *)
View == Over(wk.own, rows)

-----------------------------------------------------------------------------
(* stream_chat_turn: append_turn_messages and COMMIT. *)
StoreTurn(t, s) ==
  /\ Up /\ phase[t] = "new"
  /\ phase' = [phase EXCEPT ![t] = "stored"]
  /\ said' = [said EXCEPT ![t] = s]
  /\ messages' = messages \cup {t}
  /\ UNCHANGED <<arrivals, jobVars, tableVars, userVars, crashes>>

(* enqueue_memory_job, after the COMMIT has returned. *)
Enqueue(t) ==
  /\ Up /\ phase[t] = "stored" /\ t \notin seen
  /\ phase' = [phase EXCEPT ![t] = "queued"]
  /\ seen' = seen \cup {t}
  /\ queue' = Append(queue, [turn |-> t, retries |-> 0])
  /\ arrivals' = Append(arrivals, t)
  /\ UNCHANGED <<said, messages, wk, told, doubt, tableVars, userVars, crashes>>

(* The operators named Mutant_... are faults a maintainer could introduce into
   a definition that follows them; the specification does not use them. *)
Mutant_TakeAndKeep ==
  /\ wk.at = "idle" /\ queue # <<>>
  /\ wk' = [wk EXCEPT !.at = "select", !.job = Head(queue),
                      !.todo = said[Head(queue).turn]]
  /\ restore' = [r \in Restores |-> Disturbed(r)]
  /\ UNCHANGED <<turnVars, queue, seen, told, doubt, tableVars, edited, crashes>>

Mutant_TakeNewest ==
  /\ wk.at = "idle" /\ queue # <<>>
  /\ LET j == queue[Len(queue)]
     IN wk' = [wk EXCEPT !.at = "select", !.job = j, !.todo = said[j.turn]]
  /\ queue' = SubSeq(queue, 1, Len(queue) - 1)
  /\ restore' = [r \in Restores |-> Disturbed(r)]
  /\ UNCHANGED <<turnVars, seen, told, doubt, tableVars, edited, crashes>>

(* _worker_loop: the oldest job of the queue. *)
Take ==
  /\ wk.at = "idle" /\ queue # <<>>
  /\ wk' = [wk EXCEPT !.at = "select", !.job = Head(queue),
                      !.todo = said[Head(queue).turn]]
  /\ queue' = Tail(queue)
  /\ restore' = [r \in Restores |-> Disturbed(r)]
  /\ UNCHANGED <<turnVars, seen, told, doubt, tableVars, edited, crashes>>

Mutant_RetryForever ==
  /\ wk' = Idle /\ edited' = FALSE
  /\ queue' = Append(queue, wk.job)
  /\ UNCHANGED <<turnVars, seen, told, restore, crashes>>

(* The except branch of _worker_loop, after the session has closed. *)
Retry ==
  /\ wk' = Idle /\ edited' = FALSE
  /\ IF wk.job.retries < MaxRetries
     THEN /\ queue' = Append(queue, [wk.job EXCEPT !.retries = @ + 1])
          /\ UNCHANGED phase
     ELSE /\ phase' = [phase EXCEPT ![wk.job.turn] = "dropped"]
          /\ UNCHANGED queue
  /\ UNCHANGED <<said, messages, arrivals, seen, told, restore, crashes>>

(* What COMMIT makes visible: the memories and the summary, if any. *)
Apply ==
  /\ rows' = Over(wk.own, rows)
  /\ summary' = IF wk.draft = {} THEN summary
                ELSE [says |-> UNION {Facts(list) : list \in wk.draft}, age |-> "hot"]

Mutant_RaiseAfterCommit == Retry /\ Apply /\ UNCHANGED doubt

Raise == Retry /\ UNCHANGED <<tableVars, doubt>>

Mutant_FoundInThread(c) ==
  {i \in DOMAIN View : View[i].key = c.key /\ View[i].src = wk.job.turn}
Found(c) == {i \in DOMAIN View : View[i].key = c.key}

(* upsert_memories reads the active row of the next candidate's key. Two of
   them make scalar_one_or_none raise; an equal value needs no write. *)
Select ==
  /\ wk.at = "select" /\ wk.todo # <<>>
  /\ LET c == Head(wk.todo)
         found == Found(c)
     IN  IF \E i, j \in found : i # j
         THEN Raise
         ELSE /\ wk' = IF \E i \in found : View[i].val = c.val
                       THEN [wk EXCEPT !.todo = Tail(@)]
                       ELSE [wk EXCEPT !.at = "flush", !.hit = found]
              /\ UNCHANGED <<turnVars, queue, seen, told, doubt, tableVars, userVars, crashes>>

(* The row the flush writes: a new one, or the one that was read, by its id
   and whatever its key has become. *)
Target(c) == IF wk.hit = {} THEN <<wk.job.turn, c.key, wk.job.retries>>
             ELSE CHOOSE i \in wk.hit : TRUE
Written(c) == [key |-> IF wk.hit = {} THEN c.key ELSE View[Target(c)].key,
               val |-> c.val, src |-> wk.job.turn]

(* The flush that the next statement causes. It fails if the user deleted
   the row, or the thread and with it the message of the turn. *)
Flush ==
  /\ wk.at = "flush"
  /\ LET c == Head(wk.todo)
     IN  IF wk.job.turn \in messages /\ wk.hit \subseteq DOMAIN View
         THEN /\ wk' = [wk EXCEPT
                   !.at = "select", !.hit = {}, !.todo = Tail(@),
                   !.critical = @ \/ c.critical,
                   !.own = Over([i \in {Target(c)} |-> Written(c)], @)]
              /\ UNCHANGED <<turnVars, queue, seen, told, doubt, tableVars, userVars, crashes>>
         ELSE Raise

(* refresh_summary_if_needed, after the last candidate. long tells whether
   the job wrote many facts, or the facts have many characters. *)
NeedsSummary(long) ==
  /\ wk.own # NoRows
  /\ wk.critical \/ long \/ summary.age = "old"
  /\ summary.age # "hot"

(* The rows of its text: the newest ones, as many as TopK and its length allow.
   A row that nobody has written since the job began is older than its own. *)
Listed(S) ==
  /\ S \subseteq DOMAIN View /\ Cardinality(S) <= TopK
  /\ edited \/ S \subseteq DOMAIN wk.own \/ DOMAIN wk.own \subseteq S

Mutant_DraftOfCommitted(long, S) ==
  IF NeedsSummary(long) THEN {[i \in S \cap DOMAIN rows |-> rows[i]]} ELSE {}
Draft(long, S) == IF NeedsSummary(long) THEN {[i \in S |-> View[i]]} ELSE {}

Summarize ==
  /\ wk.at = "select" /\ wk.todo = <<>>
  /\ \E long \in BOOLEAN, S \in SUBSET DOMAIN View :
       /\ Listed(S)
       /\ wk' = [wk EXCEPT !.at = "commit", !.draft = Draft(long, S)]
  /\ UNCHANGED <<turnVars, queue, seen, told, doubt, tableVars, userVars, crashes>>

Commit ==
  /\ wk.at = "commit"
  /\ Apply
  /\ wk' = [wk EXCEPT !.at = "publish", !.own = NoRows, !.draft = {}]
  /\ edited' = FALSE
  /\ phase' = [phase EXCEPT ![wk.job.turn] = "done"]
  /\ UNCHANGED <<said, messages, arrivals, queue, seen, told, doubt, restore, crashes>>

(* COMMIT raises although the database has committed: the answer was lost. *)
CommitUnanswered ==
  /\ wk.at = "commit"
  /\ Apply /\ Retry
  /\ doubt' = doubt \cup {wk.job.turn}

(* A statement fails: the database or the connection. *)
StatementFails == InTransaction /\ Raise

(* The events memory_written, memory_rejected and summary_refreshed. *)
Publish ==
  /\ wk.at = "publish"
  /\ told' = told \cup {wk.job.turn}
  /\ wk' = Idle
  /\ UNCHANGED <<turnVars, queue, seen, doubt, tableVars, userVars, crashes>>

-----------------------------------------------------------------------------
Edit == edited' = (edited \/ InTransaction)

(* PUT and DELETE /memories/{id}: they wait for the row if the worker has
   written it, and never see a row it has not committed. *)
UpdateMemory(i, key, val) ==
  /\ Up /\ i \in DOMAIN rows \ DOMAIN wk.own
  /\ key \in Renames \cup {rows[i].key}
  /\ rows' = [rows EXCEPT ![i].key = key, ![i].val = val]
  /\ Edit
  /\ UNCHANGED <<turnVars, jobVars, summary, restore, crashes>>

DeleteMemory(i) ==
  /\ Up /\ i \in DOMAIN rows \ DOMAIN wk.own
  /\ rows' = [j \in DOMAIN rows \ {i} |-> rows[j]]
  /\ UNCHANGED <<turnVars, jobVars, summary, userVars, crashes>>

(* DELETE /threads/{id} cascades to the messages and clears the source of the
   memories. It waits for a worker that refers to the thread's messages. *)
DeleteThread(ts) ==
  /\ Up /\ ts # {} /\ ts \subseteq messages
  /\ wk.own # NoRows => wk.job.turn \notin ts
  /\ \A i \in DOMAIN wk.own \cap DOMAIN rows : rows[i].src \notin ts
  /\ messages' = messages \ ts
  /\ rows' = [i \in DOMAIN rows |->
                IF rows[i].src \in ts THEN [rows[i] EXCEPT !.src = NoTurn]
                ELSE rows[i]]
  /\ UNCHANGED <<phase, said, arrivals, jobVars, summary, userVars, crashes>>

(* create_workspace_snapshot, of the tables of this module. *)
TakeSnapshot(r) ==
  /\ Up /\ restore[r].at = "new"
  /\ restore' = [restore EXCEPT ![r].at = "saved", ![r].copy = rows, ![r].says = summary.says]
  /\ UNCHANGED <<turnVars, jobVars, tableVars, edited, crashes>>

(* restore_workspace_snapshot reads the memories it is going to delete... *)
RestoreSelect(r) ==
  /\ Up /\ restore[r].at = "saved"
  /\ restore' = [restore EXCEPT ![r].at = "read", ![r].found = DOMAIN rows,
                                ![r].calm = ~InTransaction]
  /\ UNCHANGED <<turnVars, jobVars, tableVars, edited, crashes>>

(* ...and replaces them by new rows with the saved keys and values. It waits for
   what the worker has written; a row that has vanished is no error. The summary
   is sent only if it differs from the one that was read, version included. *)
Restored(r) ==
  LET copy == restore[r].copy
      news == {<<r, copy[i].key, i>> : i \in DOMAIN copy}
  IN  [n \in news |-> [copy[n[3]] EXCEPT !.src = NoTurn]]

RestoreWrite(r) ==
  /\ Up /\ restore[r].at = "read"
  /\ restore[r].found \cap DOMAIN wk.own = {} /\ wk.draft = {}
  /\ rows' = Over(Restored(r), [i \in DOMAIN rows \ restore[r].found |-> rows[i]])
  /\ \/ summary' = [says |-> restore[r].says, age |-> "hot"]
     \/ (restore[r].says = summary.says \/ ~restore[r].calm) /\ UNCHANGED summary
  /\ restore' = [[o \in Restores |-> Disturbed(o)] EXCEPT
                   ![r] = [Unstarted EXCEPT !.at = "done", !.calm = restore[r].calm]]
  /\ Edit
  /\ UNCHANGED <<turnVars, jobVars, crashes>>

RestoreFails(r) ==
  /\ Up /\ restore[r].at \in {"saved", "read"}
  /\ restore' = [restore EXCEPT ![r] = [Unstarted EXCEPT !.at = "failed"]]
  /\ UNCHANGED <<turnVars, jobVars, tableVars, edited, crashes>>

(* Ten minutes, then a day, since the last refresh. *)
Age ==
  /\ summary.age # "old"
  /\ summary' = [summary EXCEPT !.age = IF @ = "hot" THEN "warm" ELSE "old"]
  /\ UNCHANGED <<turnVars, jobVars, rows, userVars, crashes>>

(* The client disconnects while its turn commits: the request is cancelled
   before it enqueues the job. *)
ClientGone(t) ==
  /\ Up /\ phase[t] = "stored"
  /\ phase' = [phase EXCEPT ![t] = "lost"]
  /\ UNCHANGED <<said, messages, arrivals, jobVars, tableVars, userVars, crashes>>

(* The process dies or is shut down: stop() cancels the worker, and the queue
   was never anywhere but in memory. *)
Crash ==
  /\ Up /\ crashes < MaxCrashes
  /\ wk' = Off /\ queue' = <<>> /\ seen' = {} /\ edited' = FALSE
  /\ crashes' = crashes + 1
  /\ phase' = [t \in Turns |-> IF phase[t] \in {"stored", "queued"}
                               THEN "lost" ELSE phase[t]]
  /\ restore' = [r \in Restores |-> IF restore[r].at = "read"
                                     THEN [Unstarted EXCEPT !.at = "failed"] ELSE restore[r]]
  /\ UNCHANGED <<said, messages, arrivals, told, doubt, tableVars>>

Restart ==
  /\ ~Up
  /\ wk' = Idle
  /\ UNCHANGED <<turnVars, queue, seen, told, doubt, tableVars, userVars, crashes>>

-----------------------------------------------------------------------------
Init ==
  /\ phase = [t \in Turns |-> "new"] /\ said = [t \in Turns |-> <<>>]
  /\ messages = {} /\ arrivals = <<>>
  /\ queue = <<>> /\ seen = {} /\ wk = Idle /\ told = {} /\ doubt = {}
  /\ rows = NoRows /\ summary = [says |-> {}, age |-> "old"]
  /\ restore = [r \in Restores |-> Unstarted] /\ edited = FALSE
  /\ crashes = 0

Worker == \/ Take \/ Select \/ Flush \/ Summarize \/ Commit \/ CommitUnanswered
          \/ StatementFails \/ Publish

User ==
  \/ \E i \in DOMAIN rows, k \in Keys, v \in Typed : UpdateMemory(i, k, v)
  \/ \E i \in DOMAIN rows : DeleteMemory(i)
  \/ \E ts \in SUBSET Turns : DeleteThread(ts)
  \/ \E r \in Restores :
       TakeSnapshot(r) \/ RestoreSelect(r) \/ RestoreWrite(r) \/ RestoreFails(r)

Next ==
  \/ \E t \in Turns, s \in Suggestions : StoreTurn(t, s)
  \/ \E t \in Turns : Enqueue(t) \/ ClientGone(t)
  \/ Worker
  \/ User
  \/ Age \/ Crash \/ Restart

Spec == Init /\ [][Next]_vars

(* The event loop keeps running the worker task, and a request that has
   committed goes on to enqueue its job. *)
FairSpec ==
  /\ Spec
  /\ WF_vars(Worker)
  /\ WF_vars(\E t \in Turns : Enqueue(t))

-----------------------------------------------------------------------------
Phases == {"new", "stored", "queued", "done", "dropped", "lost"}

TypeOK ==
  /\ phase \in [Turns -> Phases] /\ said \in [Turns -> Suggestions \cup {<<>>}]
  /\ \A S \in {messages, seen, told, doubt} : S \subseteq Turns
  /\ queue \in Seq(Job) /\ arrivals \in Seq(Turns)
  /\ wk.at \in {"off", "idle", "select", "flush", "commit", "publish"}
  /\ (wk.at \in {"off", "idle"} /\ wk.job = Idle.job) \/ wk.job \in Job
  /\ \A table \in {rows, wk.own} \cup wk.draft \cup {restore[r].copy : r \in Restores} :
       \A i \in DOMAIN table : table[i] \in Row
  /\ \A r \in Restores : /\ restore[r].at \in {"new", "saved", "read", "done", "failed"}
                          /\ restore[r].calm \in BOOLEAN
  /\ summary.says \subseteq Keys \X Values /\ summary.age \in {"hot", "warm", "old"}

(* A job is in exactly one place. While its turn counts as queued there is
   one copy of it, in the queue or with the worker; no retry, commit or
   restart duplicates it, and it vanishes only by being done, dropped after
   its last retry, or lost with the process. Events tell of it when it is done,
   not before. *)
JobsAccounted ==
  \A t \in Turns :
    LET waiting == {n \in 1..Len(queue) : queue[n].turn = t}
        working == InTransaction /\ wk.job.turn = t
    IN  IF phase[t] = "queued"
        THEN /\ (waiting = {} <=> working) /\ \A m, n \in waiting : m = n
             /\ t \notin told
        ELSE waiting = {} /\ ~working /\ (t \in told => phase[t] = "done")

(* A job, or another restore, was under way while a restore replaced the memories. *)
Mixed == \E r \in Restores : restore[r].at = "done" /\ ~restore[r].calm

(* upsert_memories relies on it: a key has at most one active row. No unique
   index stands behind it, only the single worker; a restore is safe as long as
   it has the table for itself, which nothing sees to. *)
OneRowPerKey ==
  ~Mixed => \A i, j \in DOMAIN rows : rows[i].key = rows[j].key => i = j

(* A job that failed, on whichever of its candidates, was dropped or was lost
   with the process has left no memory behind, unless the database committed
   and only its answer was lost. *)
FailedJobLeavesNothing ==
  \A t \in Turns : phase[t] # "done" /\ t \notin doubt =>
    \A i \in DOMAIN rows : rows[i].src # t

(* A fact of an earlier turn replaces a fact of a later one only if its job
   had failed and gone back to the end of the queue. *)
OlderFactsOnlyByRetry ==
  [][\A i \in DOMAIN rows \cap DOMAIN rows' :
       \A m, n \in 1..Len(arrivals) :
         (m < n /\ rows[i].src = arrivals[n] /\ rows'[i].src = arrivals[m])
           => wk.job.retries > 0]_vars

(* A refreshed summary tells what its own job has just learned, as the job commits
   it, although the memories were read before: it has no value that the job has
   replaced; and, if nobody else wrote a memory meanwhile, no older fact while one of
   the job is left out for its length. *)
SummaryHasNewFacts ==
  [][summary'.says # summary.says => \A list \in wk.draft :
       /\ \A i \in DOMAIN wk.own \cap DOMAIN list : list[i] = rows'[i]
       /\ edited \/ DOMAIN list \subseteq DOMAIN wk.own \/ DOMAIN wk.own \subseteq DOMAIN list]_vars

(* Every job comes to an end: none is retried for ever, and none waits behind
   one that is. Again and again there is none left. *)
JobsSettle == []<>(\A t \in Turns : phase[t] \notin {"stored", "queued"})
=============================================================================
