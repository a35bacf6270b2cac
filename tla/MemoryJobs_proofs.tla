------------------------- MODULE MemoryJobs_proofs -------------------------
(***************************************************************************)
(* What the queue of memory jobs and its worker promise for any number of  *)
(* turns, candidates, retries and crashes.                                 *)
(***************************************************************************)
EXTENDS MemoryJobs, TLAPS

Working == {"select", "flush", "commit"}

(* The shapes of what the worker handles. *)
Shapes ==
  /\ phase \in [Turns -> Phases] /\ said \in [Turns -> Seq(Candidate)]
  /\ queue \in Seq(Job)
  /\ DOMAIN wk = {"at", "job", "todo", "hit", "own", "critical", "draft"}
  /\ wk.at \in Working \cup {"off", "idle", "publish"}
  /\ wk.at \in Working \cup {"publish"} => wk.job \in Job
  /\ wk.todo \in Seq(Candidate)
  /\ wk.at = "flush" => wk.todo # <<>>

(* A queued turn has a job, and only one, in the queue or with the worker. *)
OneCopy ==
  /\ \A t \in Turns : phase[t] = "queued" <=>
       \/ \E n \in 1..Len(queue) : queue[n].turn = t
       \/ wk.at \in Working /\ wk.job.turn = t
  /\ \A m, n \in 1..Len(queue) : queue[m].turn = queue[n].turn => m = n
  /\ wk.at \in Working => \A n \in 1..Len(queue) : queue[n].turn # wk.job.turn
  /\ \A t \in told : t \in Turns => phase[t] = "done"
  /\ wk.at = "publish" => \A t \in Turns : wk.job.turn = t => phase[t] = "done"

JobsInv == Shapes /\ OneCopy

-----------------------------------------------------------------------------
(* The worker goes on with a job, or puts the first one on its desk. *)
GoesOn ==
  /\ wk.at \in {"select", "flush"} /\ wk'.at \in Working /\ wk'.job = wk.job
  /\ DOMAIN wk' = DOMAIN wk
  /\ wk'.todo \in Seq(Candidate) /\ (wk'.at = "flush" => wk'.todo # <<>>)
  /\ UNCHANGED <<turnVars, queue, told, doubt>>

LEMMA SelectGoesOn ==
  ASSUME Shapes, Select
  PROVE  GoesOn \/ (Raise /\ InTransaction)
  <1>1. wk.at = "select" /\ wk.todo # <<>>
    BY DEF Select
  <1>2. CASE \E i, j \in Found(Head(wk.todo)) : i # j
    BY <1>1, <1>2 DEF Select, InTransaction
  <1>3. CASE ~\E i, j \in Found(Head(wk.todo)) : i # j
    <2>1. /\ \/ wk' = [wk EXCEPT !.todo = Tail(@)]
             \/ \E found : wk' = [wk EXCEPT !.at = "flush", !.hit = found]
          /\ UNCHANGED <<turnVars, queue, told, doubt>>
      BY <1>3 DEF Select
    <2>2. Tail(wk.todo) \in Seq(Candidate)
      BY <1>1 DEF Shapes
    <2> QED  BY <1>1, <2>1, <2>2 DEF GoesOn, Shapes, Working
  <1> QED  BY <1>2, <1>3

LEMMA FlushGoesOn ==
  ASSUME Shapes, Flush
  PROVE  GoesOn \/ (Raise /\ InTransaction)
  <1>1. wk.at = "flush" /\ wk.todo # <<>>
    BY DEF Flush, Shapes
  <1>2. CASE wk.job.turn \in messages /\ wk.hit \subseteq DOMAIN View
    <2>1. /\ \E critical, own : wk' = [wk EXCEPT !.at = "select", !.hit = {}, !.todo = Tail(@),
                                                 !.critical = critical, !.own = own]
          /\ UNCHANGED <<turnVars, queue, told, doubt>>
      BY <1>2 DEF Flush
    <2>2. Tail(wk.todo) \in Seq(Candidate)
      BY <1>1 DEF Shapes
    <2> QED  BY <1>1, <2>1, <2>2 DEF GoesOn, Shapes, Working
  <1>3. CASE ~(wk.job.turn \in messages /\ wk.hit \subseteq DOMAIN View)
    BY <1>1, <1>3 DEF Flush, InTransaction
  <1> QED  BY <1>2, <1>3

LEMMA SummarizeGoesOn ==
  ASSUME Shapes, Summarize
  PROVE  GoesOn
  <1>1. PICK draft : wk' = [wk EXCEPT !.at = "commit", !.draft = draft]
    BY DEF Summarize
  <1>2. wk.at = "select" /\ UNCHANGED <<turnVars, queue, told, doubt>>
    BY DEF Summarize
  <1> QED  BY <1>1, <1>2 DEF GoesOn, Shapes, Working

LEMMA GoesOnKeepsJobs ==
  ASSUME JobsInv, GoesOn
  PROVE  JobsInv'
  BY DEF JobsInv, Shapes, OneCopy, GoesOn, turnVars, Working

LEMMA TakeKeepsJobs ==
  ASSUME JobsInv, Take
  PROVE  JobsInv'
  <1>1. /\ queue \in Seq(Job) /\ queue # <<>> /\ wk.at = "idle"
        /\ queue' = Tail(queue) /\ UNCHANGED <<phase, said, told>>
    BY DEF Take, JobsInv, Shapes, turnVars
  <1>2. PICK j \in Job : j = Head(queue)
    BY <1>1
  <1>3. PICK todo \in Seq(Candidate) : todo = said[j.turn]
    BY DEF JobsInv, Shapes, Job
  <1>4. /\ wk'.at = "select" /\ wk'.job = j /\ wk'.todo = todo /\ DOMAIN wk' = DOMAIN wk
    BY <1>2, <1>3 DEF Take, JobsInv, Shapes
  <1>5. /\ queue' \in Seq(Job) /\ Len(queue') = Len(queue) - 1 /\ j = queue[1]
        /\ \A n \in 1..Len(queue') : queue'[n] = queue[n + 1] /\ n + 1 \in 1..Len(queue)
        /\ Len(queue) \in Nat /\ 1 \in 1..Len(queue)
        /\ \A n \in 1..Len(queue) : n # 1 => n - 1 \in 1..Len(queue') /\ queue'[n - 1] = queue[n]
    BY <1>1, <1>2
  <1>6. Shapes'
    BY <1>1, <1>4, <1>5 DEF JobsInv, Shapes, Working
  <1>7. ASSUME NEW t \in Turns
        PROVE  (\E n \in 1..Len(queue) : queue[n].turn = t) <=>
               (\E n \in 1..Len(queue') : queue'[n].turn = t) \/ j.turn = t
    BY <1>5
  <1>8. OneCopy'
    <2>1. /\ \A t \in Turns : phase[t] = "queued" <=> \E n \in 1..Len(queue) : queue[n].turn = t
          /\ \A m, n \in 1..Len(queue) : queue[m].turn = queue[n].turn => m = n
          /\ \A t \in told : t \in Turns => phase[t] = "done"
      BY <1>1 DEF JobsInv, OneCopy, Working
    <2>2. \A n \in 1..Len(queue') : queue'[n].turn # j.turn
      BY <1>5, <2>1
    <2>3. \A m, n \in 1..Len(queue') : queue'[m].turn = queue'[n].turn => m = n
      BY <1>5, <2>1
    <2> QED  BY <1>1, <1>4, <1>7, <2>1, <2>2, <2>3 DEF OneCopy, Working
  <1> QED  BY <1>6, <1>8 DEF JobsInv

(* Another job at the end of the queue. *)
LEMMA Appended ==
  ASSUME NEW j \in Job, queue \in Seq(Job), queue' = Append(queue, j)
  PROVE  /\ queue' \in Seq(Job) /\ Len(queue') = Len(queue) + 1 /\ Len(queue) \in Nat
         /\ queue'[Len(queue) + 1] = j
         /\ \A n \in 1..Len(queue) : queue'[n] = queue[n]
         /\ 1..Len(queue') = (1..Len(queue)) \cup {Len(queue) + 1}
         /\ Len(queue) + 1 \notin 1..Len(queue)
  BY Z3

(* The worker gives up a job: it goes back into the queue or is dropped. *)
LEMMA RetryKeepsJobs ==
  ASSUME JobsInv, Retry, InTransaction
  PROVE  JobsInv'
  <1>1. /\ wk.at \in Working /\ wk.job \in Job /\ queue \in Seq(Job)
        /\ wk'.at = "idle" /\ wk'.todo = <<>> /\ DOMAIN wk' = DOMAIN wk
        /\ UNCHANGED <<said, told>>
    BY DEF Retry, InTransaction, Idle, JobsInv, Shapes, Working
  <1>2. PICK j \in Job : j.turn = wk.job.turn /\ (wk.job.retries < MaxRetries =>
                                                   j = [wk.job EXCEPT !.retries = @ + 1])
    <2>1. CASE wk.job.retries < MaxRetries
      <3>1. wk.job.retries + 1 \in 0..MaxRetries
        BY <1>1, <2>1, JobsAssumption DEF Job
      <3>2. [wk.job EXCEPT !.retries = @ + 1] \in Job
        BY <1>1, <3>1 DEF Job
      <3>3. [wk.job EXCEPT !.retries = @ + 1].turn = wk.job.turn
        BY <1>1 DEF Job
      <3> QED  BY <3>2, <3>3
    <2>2. CASE ~(wk.job.retries < MaxRetries)
      BY <1>1, <2>2
    <2> QED  BY <2>1, <2>2
  <1>3. PICK turn \in Turns : turn = wk.job.turn
    BY <1>1 DEF Job
  <1>4. /\ \A t \in Turns : phase[t] = "queued" <=>
             \/ \E n \in 1..Len(queue) : queue[n].turn = t
             \/ turn = t
        /\ \A m, n \in 1..Len(queue) : queue[m].turn = queue[n].turn => m = n
        /\ \A n \in 1..Len(queue) : queue[n].turn # turn
        /\ \A t \in told : t \in Turns => phase[t] = "done"
    BY <1>1, <1>3 DEF JobsInv, OneCopy
  <1>5. phase \in [Turns -> Phases] /\ said \in [Turns -> Seq(Candidate)]
    BY DEF JobsInv, Shapes
  <1>6. CASE wk.job.retries < MaxRetries
    <2>1. queue' = Append(queue, j) /\ phase' = phase
      BY <1>2, <1>6 DEF Retry
    <2>2. /\ queue' \in Seq(Job) /\ Len(queue) \in Nat
          /\ queue'[Len(queue) + 1] = j
          /\ \A n \in 1..Len(queue) : queue'[n] = queue[n]
          /\ 1..Len(queue') = (1..Len(queue)) \cup {Len(queue) + 1}
          /\ Len(queue) + 1 \notin 1..Len(queue)
      BY <1>1, <2>1, Appended
    <2>3. Shapes'
      BY <1>1, <1>5, <2>1, <2>2 DEF JobsInv, Shapes, Working
    <2>4. \A t \in Turns : (\E n \in 1..Len(queue') : queue'[n].turn = t) <=>
                           (\E n \in 1..Len(queue) : queue[n].turn = t) \/ turn = t
      BY <1>2, <1>3, <2>2
    <2>5. \A m, n \in 1..Len(queue') : queue'[m].turn = queue'[n].turn => m = n
      BY <1>2, <1>3, <1>4, <2>2
    <2>6. OneCopy'
      BY <1>1, <1>4, <2>1, <2>4, <2>5 DEF OneCopy, Working
    <2> QED  BY <2>3, <2>6 DEF JobsInv
  <1>7. CASE ~(wk.job.retries < MaxRetries)
    <2>1. queue' = queue /\ phase' = [phase EXCEPT ![turn] = "dropped"]
      BY <1>3, <1>7 DEF Retry
    <2>2. /\ phase' \in [Turns -> Phases] /\ phase'[turn] = "dropped"
          /\ \A t \in Turns \ {turn} : phase'[t] = phase[t]
      BY <1>5, <2>1 DEF Phases
    <2>3. Shapes'
      BY <1>1, <1>5, <2>1, <2>2 DEF JobsInv, Shapes, Working
    <2>4. phase[turn] = "queued"
      BY <1>4
    <2>5. OneCopy'
      BY <1>1, <1>4, <2>1, <2>2, <2>4 DEF OneCopy, Working
    <2> QED  BY <2>3, <2>5 DEF JobsInv
  <1> QED  BY <1>6, <1>7

LEMMA CommitKeepsJobs ==
  ASSUME JobsInv, Commit
  PROVE  JobsInv'
  <1>1. /\ wk.at = "commit" /\ wk.job \in Job /\ UNCHANGED <<said, queue, told>>
        /\ phase' = [phase EXCEPT ![wk.job.turn] = "done"]
        /\ wk'.at = "publish" /\ wk'.job = wk.job /\ wk'.todo = wk.todo /\ DOMAIN wk' = DOMAIN wk
    BY DEF Commit, JobsInv, Shapes, Working
  <1>2. PICK turn \in Turns : turn = wk.job.turn
    BY <1>1 DEF Job
  <1>3. /\ phase' \in [Turns -> Phases] /\ phase'[turn] = "done"
        /\ \A t \in Turns \ {turn} : phase'[t] = phase[t]
    BY <1>1, <1>2 DEF JobsInv, Shapes, Phases
  <1>4. Shapes'
    BY <1>1, <1>3 DEF JobsInv, Shapes, Working
  <1>5. OneCopy'
    BY <1>1, <1>2, <1>3 DEF JobsInv, OneCopy, Working
  <1> QED  BY <1>4, <1>5 DEF JobsInv

LEMMA PublishKeepsJobs ==
  ASSUME JobsInv, Publish
  PROVE  JobsInv'
  <1>1. /\ wk.at = "publish" /\ wk.job \in Job /\ UNCHANGED <<phase, said, queue>>
        /\ told' = told \cup {wk.job.turn}
        /\ wk'.at = "idle" /\ wk'.todo = <<>> /\ DOMAIN wk' = DOMAIN wk
    BY DEF Publish, Idle, turnVars, JobsInv, Shapes, Working
  <1>2. phase[wk.job.turn] = "done"
    BY <1>1 DEF JobsInv, OneCopy, Job
  <1>3. Shapes'
    BY <1>1 DEF JobsInv, Shapes, Working
  <1>4. OneCopy'
    BY <1>1, <1>2 DEF JobsInv, OneCopy, Working
  <1> QED  BY <1>3, <1>4 DEF JobsInv

(* Requests and the process. *)
LEMMA StoreKeepsJobs ==
  ASSUME JobsInv, NEW t \in Turns, NEW s \in Suggestions, StoreTurn(t, s)
  PROVE  JobsInv'
  <1>1. /\ phase[t] = "new" /\ UNCHANGED <<queue, wk, told>>
        /\ phase' = [phase EXCEPT ![t] = "stored"] /\ said' = [said EXCEPT ![t] = s]
    BY DEF StoreTurn, jobVars
  <1>2. s \in Seq(Candidate)
    BY JobsAssumption
  <1>3. /\ phase' \in [Turns -> Phases] /\ said' \in [Turns -> Seq(Candidate)]
        /\ phase'[t] = "stored" /\ \A o \in Turns \ {t} : phase'[o] = phase[o]
    BY <1>1, <1>2 DEF JobsInv, Shapes, Phases
  <1>4. Shapes'
    BY <1>1, <1>3 DEF JobsInv, Shapes
  <1>5. OneCopy'
    BY <1>1, <1>3 DEF JobsInv, OneCopy
  <1> QED  BY <1>4, <1>5 DEF JobsInv

LEMMA ClientGoneKeepsJobs ==
  ASSUME JobsInv, NEW t \in Turns, ClientGone(t)
  PROVE  JobsInv'
  <1>1. /\ phase[t] = "stored" /\ UNCHANGED <<said, queue, wk, told>>
        /\ phase' = [phase EXCEPT ![t] = "lost"]
    BY DEF ClientGone, jobVars
  <1>2. /\ phase' \in [Turns -> Phases]
        /\ phase'[t] = "lost" /\ \A o \in Turns \ {t} : phase'[o] = phase[o]
    BY <1>1 DEF JobsInv, Shapes, Phases
  <1>3. Shapes'
    BY <1>1, <1>2 DEF JobsInv, Shapes
  <1>4. OneCopy'
    BY <1>1, <1>2 DEF JobsInv, OneCopy
  <1> QED  BY <1>3, <1>4 DEF JobsInv

LEMMA EnqueueKeepsJobs ==
  ASSUME JobsInv, NEW t \in Turns, Enqueue(t)
  PROVE  JobsInv'
  <1>1. /\ phase[t] = "stored" /\ UNCHANGED <<said, wk, told>>
        /\ phase' = [phase EXCEPT ![t] = "queued"]
        /\ queue' = Append(queue, [turn |-> t, retries |-> 0]) /\ queue \in Seq(Job)
    BY DEF Enqueue, JobsInv, Shapes
  <1>2. PICK j \in Job : j = [turn |-> t, retries |-> 0]
    <2>1. 0 \in 0..MaxRetries
      BY JobsAssumption
    <2> QED  BY <2>1 DEF Job
  <1>3. /\ queue' \in Seq(Job) /\ Len(queue) \in Nat
        /\ queue'[Len(queue) + 1] = j
        /\ \A n \in 1..Len(queue) : queue'[n] = queue[n]
        /\ 1..Len(queue') = (1..Len(queue)) \cup {Len(queue) + 1}
        /\ Len(queue) + 1 \notin 1..Len(queue)
    BY <1>1, <1>2, Appended
  <1>4. /\ phase' \in [Turns -> Phases]
        /\ phase'[t] = "queued" /\ \A o \in Turns \ {t} : phase'[o] = phase[o]
    BY <1>1 DEF JobsInv, Shapes, Phases
  <1>5. Shapes'
    BY <1>1, <1>3, <1>4 DEF JobsInv, Shapes
  <1>6. \A o \in Turns : (\E n \in 1..Len(queue') : queue'[n].turn = o) <=>
                         (\E n \in 1..Len(queue) : queue[n].turn = o) \/ t = o
    BY <1>2, <1>3
  <1>7. /\ \A n \in 1..Len(queue) : queue[n].turn # t
        /\ wk.at \in Working => wk.job.turn # t
    BY <1>1 DEF JobsInv, OneCopy
  <1>8. \A m, n \in 1..Len(queue') : queue'[m].turn = queue'[n].turn => m = n
    BY <1>2, <1>3, <1>7 DEF JobsInv, OneCopy
  <1>9. wk'.at \in Working => \A n \in 1..Len(queue') : queue'[n].turn # wk'.job.turn
    BY <1>1, <1>2, <1>3, <1>7 DEF JobsInv, OneCopy
  <1>10. OneCopy'
    BY <1>1, <1>4, <1>6, <1>8, <1>9 DEF JobsInv, OneCopy
  <1> QED  BY <1>5, <1>10 DEF JobsInv

LEMMA CrashKeepsJobs ==
  ASSUME JobsInv, Crash
  PROVE  JobsInv'
  <1>1. /\ wk'.at = "off" /\ wk'.todo = <<>> /\ DOMAIN wk' = DOMAIN wk
        /\ queue' = <<>> /\ UNCHANGED <<said, told>>
    BY DEF Crash, Off, Idle, JobsInv, Shapes
  <1>2. /\ phase' \in [Turns -> Phases]
        /\ \A t \in Turns : phase'[t] # "queued" /\ (phase[t] = "done" => phase'[t] = "done")
    BY DEF Crash, JobsInv, Shapes, Phases
  <1>3. Shapes'
    BY <1>1, <1>2 DEF JobsInv, Shapes, Working
  <1>4. OneCopy'
    BY <1>1, <1>2 DEF JobsInv, OneCopy, Working
  <1> QED  BY <1>3, <1>4 DEF JobsInv

LEMMA RestartKeepsJobs ==
  ASSUME JobsInv, Restart
  PROVE  JobsInv'
  <1>1. /\ wk.at = "off" /\ wk'.at = "idle" /\ wk'.todo = <<>> /\ DOMAIN wk' = DOMAIN wk
        /\ UNCHANGED <<phase, said, queue, told>>
    BY DEF Restart, Up, Idle, turnVars, JobsInv, Shapes
  <1>2. Shapes'
    BY <1>1 DEF JobsInv, Shapes, Working
  <1>3. OneCopy'
    BY <1>1 DEF JobsInv, OneCopy, Working
  <1> QED  BY <1>2, <1>3 DEF JobsInv

LEMMA QuietKeepsJobs ==
  ASSUME JobsInv, UNCHANGED <<phase, said, queue, wk, told>>
  PROVE  JobsInv'
  BY DEF JobsInv, Shapes, OneCopy

LEMMA UserLeavesJobs ==
  ASSUME User
  PROVE  UNCHANGED <<phase, said, arrivals, jobVars>>
  BY DEF User, UpdateMemory, DeleteMemory, DeleteThread, TakeSnapshot, RestoreSelect, RestoreWrite,
         RestoreFails, turnVars

LEMMA JobsInit == Init => JobsInv
  BY DEF Init, Idle, JobsInv, Shapes, OneCopy, Working, Phases

LEMMA JobsStep == JobsInv /\ [Next]_vars => JobsInv'
  <1> SUFFICES ASSUME JobsInv, [Next]_vars PROVE JobsInv'
    OBVIOUS
  <1>1. CASE Worker
    <2>1. ASSUME Raise, InTransaction PROVE JobsInv'
      BY <2>1, RetryKeepsJobs DEF Raise
    <2>2. CASE Select \/ Flush \/ Summarize
      BY <2>1, <2>2, SelectGoesOn, FlushGoesOn, SummarizeGoesOn, GoesOnKeepsJobs DEF JobsInv
    <2>3. CASE CommitUnanswered
      BY <2>3, RetryKeepsJobs DEF CommitUnanswered, InTransaction
    <2> QED  BY <1>1, <2>1, <2>2, <2>3, TakeKeepsJobs, CommitKeepsJobs, PublishKeepsJobs
             DEF Worker, StatementFails
  <1>2. CASE User \/ Age \/ UNCHANGED vars
    <2>1. UNCHANGED <<phase, said, queue, wk, told>>
      BY <1>2, UserLeavesJobs DEF Age, vars, turnVars, jobVars
    <2> QED  BY <2>1, QuietKeepsJobs
  <1>3. CASE \E t \in Turns, s \in Suggestions : StoreTurn(t, s)
    BY <1>3, StoreKeepsJobs
  <1>4. CASE \E t \in Turns : Enqueue(t) \/ ClientGone(t)
    BY <1>4, EnqueueKeepsJobs, ClientGoneKeepsJobs
  <1>5. CASE Crash \/ Restart
    BY <1>5, CrashKeepsJobs, RestartKeepsJobs
  <1> QED  BY <1>1, <1>2, <1>3, <1>4, <1>5 DEF Next

(* Whatever fails, is retried or is lost, each job is in exactly one place
   while its turn is queued, and nowhere else ever. *)
THEOREM JobsAreAccounted == Spec => []JobsAccounted
  <1>1. JobsInv => JobsAccounted
    <2> SUFFICES ASSUME JobsInv, NEW t \in Turns
                 PROVE  LET waiting == {n \in 1..Len(queue) : queue[n].turn = t}
                            working == InTransaction /\ wk.job.turn = t
                        IN  IF phase[t] = "queued"
                            THEN /\ (waiting = {} <=> working)
                                 /\ \A m, n \in waiting : m = n
                                 /\ t \notin told
                            ELSE waiting = {} /\ ~working /\ (t \in told => phase[t] = "done")
      BY DEF JobsAccounted
    <2> QED  BY DEF JobsInv, OneCopy, InTransaction, Working
  <1> QED  BY <1>1, JobsInit, JobsStep, PTL DEF Spec

-----------------------------------------------------------------------------
(* What a job has written, and the summary it is about to write. *)
Columns == {"key", "val", "src"}

(* The rows of a summary, beside those its job has written. *)
Current(list, own) ==
  /\ \A i \in DOMAIN own \cap DOMAIN list : list[i] = own[i]
  /\ edited \/ DOMAIN list \subseteq DOMAIN own \/ DOMAIN own \subseteq DOMAIN list

OwnInv ==
  /\ wk.at \notin Working => DOMAIN wk.own = {}
  /\ \A i \in DOMAIN wk.own : DOMAIN wk.own[i] = Columns /\ wk.own[i].src = wk.job.turn
  /\ wk.at # "commit" => wk.draft = {}
  /\ \A list \in wk.draft : Current(list, wk.own)

(* A memory that names a turn was committed by a job of that turn. *)
RowsInv ==
  /\ \A i \in DOMAIN rows : DOMAIN rows[i] = Columns
  /\ \A i \in DOMAIN rows : \A t \in Turns :
       rows[i].src = t => phase[t] = "done" \/ t \in doubt

(* The rows of a snapshot are rows as well. *)
CopiesInv ==
  /\ DOMAIN restore = Restores
  /\ \A r \in Restores :
       /\ DOMAIN restore[r] = {"at", "copy", "says", "found", "calm"}
       /\ \A i \in DOMAIN restore[r].copy : DOMAIN restore[r].copy[i] = Columns

MemoryInv == JobsInv /\ OwnInv /\ RowsInv /\ CopiesInv

LEMMA OverHas ==
  ASSUME NEW new, NEW old
  PROVE  /\ DOMAIN Over(new, old) = DOMAIN new \cup DOMAIN old
         /\ \A i \in DOMAIN new : Over(new, old)[i] = new[i]
         /\ \A i \in DOMAIN old \ DOMAIN new : Over(new, old)[i] = old[i]
  BY DEF Over

LEMMA IdleOwnsNothing ==
  ASSUME \/ wk' = Idle \/ wk' = Off
  PROVE  OwnInv'
  BY DEF OwnInv, Idle, Off, NoRows, Working

LEMMA SelectKeepsOwn ==
  ASSUME JobsInv, OwnInv, Select
  PROVE  OwnInv'
  <1>1. CASE Raise
    BY <1>1, IdleOwnsNothing DEF Raise, Retry
  <1>2. CASE ~Raise
    <2>1. \/ wk' = [wk EXCEPT !.todo = Tail(@)]
          \/ \E found : wk' = [wk EXCEPT !.at = "flush", !.hit = found]
      BY <1>2 DEF Select
    <2>2. /\ wk.at = "select" /\ wk'.at \in {"select", "flush"}
          /\ wk'.own = wk.own /\ wk'.job = wk.job /\ wk'.draft = wk.draft
      BY <2>1 DEF Select, JobsInv, Shapes
    <2> QED  BY <2>2 DEF OwnInv, Working
  <1> QED  BY <1>1, <1>2

LEMMA FlushKeepsOwn ==
  ASSUME JobsInv, OwnInv, Flush
  PROVE  OwnInv'
  <1>1. CASE Raise
    BY <1>1, IdleOwnsNothing DEF Raise, Retry
  <1>2. CASE ~Raise
    <2>1. PICK c, id, row, own : /\ c = Head(wk.todo) /\ id = Target(c) /\ row = Written(c)
                                 /\ own = wk.own
      OBVIOUS
    <2>2. PICK critical : wk' = [wk EXCEPT !.at = "select", !.hit = {}, !.todo = Tail(@),
                                  !.critical = critical,
                                  !.own = Over([i \in {id} |-> row], own)]
      BY <1>2, <2>1 DEF Flush
    <2>3. DOMAIN row = Columns /\ row.src = wk.job.turn
      BY <2>1 DEF Written, Columns
    <2>4. PICK new : new = Over([i \in {id} |-> row], own)
      OBVIOUS
    <2>5. /\ DOMAIN new = DOMAIN own \cup {id} /\ new[id] = row
          /\ \A i \in DOMAIN own \ {id} : new[i] = own[i]
      <3>1. PICK one : one = [i \in {id} |-> row]
        OBVIOUS
      <3>2. DOMAIN one = {id} /\ one[id] = row
        BY <3>1
      <3>3. new = Over(one, own)
        BY <2>4, <3>1
      <3>4. /\ DOMAIN new = DOMAIN one \cup DOMAIN own
            /\ \A i \in DOMAIN one : new[i] = one[i]
            /\ \A i \in DOMAIN own \ DOMAIN one : new[i] = own[i]
        BY <3>3 DEF Over
      <3> QED  BY <3>2, <3>4
    <2>6. /\ wk.at = "flush" /\ wk'.at = "select" /\ wk'.own = new /\ wk'.job = wk.job
          /\ wk'.draft = wk.draft
      BY <2>2, <2>4 DEF Flush, JobsInv, Shapes
    <2> QED  BY <2>1, <2>3, <2>5, <2>6 DEF OwnInv, Working
  <1> QED  BY <1>1, <1>2

LEMMA SummarizeKeepsOwn ==
  ASSUME JobsInv, OwnInv, Summarize
  PROVE  OwnInv'
  <1>1. PICK draft, S : /\ wk' = [wk EXCEPT !.at = "commit", !.draft = draft]
                        /\ Listed(S) /\ draft \in {{}, {[i \in S |-> View[i]]}}
    BY DEF Summarize, Draft
  <1>2. /\ wk.at = "select" /\ wk'.at = "commit" /\ wk'.own = wk.own /\ wk'.job = wk.job
        /\ wk'.draft = draft /\ edited' = edited
    BY <1>1 DEF Summarize, JobsInv, Shapes, userVars
  <1>3. ASSUME NEW list \in draft PROVE Current(list, wk.own)
    <2>1. PICK own, all : own = wk.own /\ all = View
      OBVIOUS
    <2>2. \A i \in DOMAIN own : all[i] = own[i]
      <3>1. PICK table : table = rows
        OBVIOUS
      <3>2. all = Over(own, table)
        BY <2>1, <3>1 DEF View
      <3> QED  BY <3>2, OverHas
    <2>3. list = [i \in S |-> all[i]]
      BY <1>1, <1>3, <2>1
    <2>4. edited \/ DOMAIN list \subseteq DOMAIN own \/ DOMAIN own \subseteq DOMAIN list
      BY <1>1, <2>1, <2>3 DEF Listed
    <2> QED  BY <2>1, <2>2, <2>3, <2>4 DEF Current
  <1>4. \A list \in wk'.draft : Current(list, wk.own)'
    BY <1>2, <1>3 DEF Current
  <1> QED  BY <1>2, <1>4 DEF OwnInv, Working

LEMMA OwnStep ==
  ASSUME JobsInv, OwnInv, [Next]_vars
  PROVE  OwnInv'
  <1>1. CASE Select \/ Flush \/ Summarize
    BY <1>1, SelectKeepsOwn, FlushKeepsOwn, SummarizeKeepsOwn
  <1>2. CASE Raise \/ CommitUnanswered \/ Publish \/ Crash \/ Restart
    <2>1. wk' = Idle \/ wk' = Off
      BY <1>2 DEF Raise, CommitUnanswered, Retry, Publish, Crash, Restart
    <2> QED  BY <2>1, IdleOwnsNothing
  <1>3. CASE Take
    <2>1. /\ wk.at = "idle" /\ wk'.own = wk.own /\ wk'.draft = wk.draft
          /\ wk'.at = "select"
      BY <1>3 DEF Take, JobsInv, Shapes
    <2> QED  BY <2>1 DEF OwnInv, Working
  <1>4. CASE Commit
    <2>1. DOMAIN wk'.own = {} /\ wk'.draft = {} /\ wk'.at = "publish"
      BY <1>4 DEF Commit, NoRows, JobsInv, Shapes
    <2> QED  BY <2>1 DEF OwnInv
  <1>5. CASE wk' = wk /\ (InTransaction /\ edited => edited')
    <2>1. wk.draft # {} => InTransaction
      BY DEF OwnInv, InTransaction
    <2>2. \A list \in wk.draft : Current(list, wk.own)'
      BY <1>5, <2>1 DEF OwnInv, Current
    <2> QED  BY <1>5, <2>2 DEF OwnInv
  <1>6. \/ Select \/ Flush \/ Summarize \/ Raise \/ CommitUnanswered \/ Publish
        \/ Crash \/ Restart \/ Take \/ Commit \/ (wk' = wk /\ (InTransaction /\ edited => edited'))
    <2>1. User => wk' = wk /\ (InTransaction /\ edited => edited')
      <3>1. User => edited' = edited \/ Edit
        BY DEF User, UpdateMemory, DeleteMemory, DeleteThread, TakeSnapshot, RestoreSelect,
               RestoreWrite, RestoreFails, userVars
      <3> QED  BY <3>1, UserLeavesJobs DEF Edit, jobVars
    <2> QED  BY <2>1 DEF Next, Worker, StatementFails, Age, StoreTurn, Enqueue, ClientGone, vars,
                         jobVars, userVars
  <1> QED  BY <1>1, <1>2, <1>3, <1>4, <1>5, <1>6

(* A job that is done stays so, and so does doubt about it. *)
LEMMA DoneStays ==
  ASSUME JobsInv, [Next]_vars, NEW t \in Turns
  PROVE  (phase[t] = "done" => phase'[t] = "done") /\ doubt \subseteq doubt'
  <1>1. ASSUME NEW o \in Turns, NEW p, phase' = [phase EXCEPT ![o] = p], phase[o] # "done"
        PROVE  phase[t] = "done" => phase'[t] = "done"
    BY <1>1 DEF JobsInv, Shapes
  <1>2. CASE (Raise /\ InTransaction) \/ CommitUnanswered
    <2>1. Retry /\ InTransaction /\ doubt \subseteq doubt'
      BY <1>2 DEF Raise, CommitUnanswered, InTransaction
    <2>2. PICK turn \in Turns : turn = wk.job.turn
      BY <2>1 DEF InTransaction, JobsInv, Shapes, Working, Job
    <2>3. phase[turn] = "queued"
      BY <2>1, <2>2 DEF InTransaction, JobsInv, OneCopy, Working
    <2>4. phase' = phase \/ phase' = [phase EXCEPT ![turn] = "dropped"]
      BY <2>1, <2>2 DEF Retry
    <2> QED  BY <1>1, <2>1, <2>3, <2>4
  <1>3. CASE Commit
    <2>1. PICK turn \in Turns : turn = wk.job.turn
      BY <1>3 DEF Commit, JobsInv, Shapes, Working, Job
    <2>2. phase' = [phase EXCEPT ![turn] = "done"] /\ doubt' = doubt
      BY <1>3, <2>1 DEF Commit
    <2> QED  BY <2>2 DEF JobsInv, Shapes
  <1>4. CASE Crash
    BY <1>4 DEF Crash, JobsInv, Shapes
  <1>5. CASE \E o \in Turns : Enqueue(o) \/ ClientGone(o) \/ \E s \in Suggestions : StoreTurn(o, s)
    <2>1. /\ doubt' = doubt
          /\ \E o \in Turns : \E p : phase' = [phase EXCEPT ![o] = p] /\ phase[o] # "done"
      BY <1>5 DEF Enqueue, ClientGone, StoreTurn, jobVars
    <2> QED  BY <1>1, <2>1
  <1>6. CASE UNCHANGED <<phase, doubt>>
    BY <1>6
  <1>7. ASSUME Select \/ Flush
        PROVE  (Raise /\ InTransaction) \/ UNCHANGED <<phase, doubt>>
    BY <1>7 DEF Select, Flush, turnVars, InTransaction
  <1>8. \/ (Raise /\ InTransaction) \/ CommitUnanswered \/ Commit \/ Crash
        \/ \E o \in Turns : Enqueue(o) \/ ClientGone(o) \/ \E s \in Suggestions : StoreTurn(o, s)
        \/ UNCHANGED <<phase, doubt>>
    BY <1>7, UserLeavesJobs DEF Next, Worker, Take, Summarize, StatementFails, Publish, Age, Restart,
                                vars, turnVars, jobVars
  <1> QED  BY <1>2, <1>3, <1>4, <1>5, <1>6, <1>8

(* What COMMIT makes visible. *)
LEMMA ApplyKeepsRows ==
  ASSUME MemoryInv, Apply, wk.at = "commit",
         \A t \in Turns : /\ phase[t] = "done" => phase'[t] = "done"
                          /\ wk.job.turn = t => phase'[t] = "done" \/ t \in doubt',
         doubt \subseteq doubt'
  PROVE  RowsInv'
  <1>1. PICK own, old : own = wk.own /\ old = rows
    OBVIOUS
  <1>2. rows' = Over(own, old)
    BY <1>1 DEF Apply
  <1>3. /\ DOMAIN rows' = DOMAIN own \cup DOMAIN old
        /\ \A i \in DOMAIN own : rows'[i] = own[i]
        /\ \A i \in DOMAIN old \ DOMAIN own : rows'[i] = old[i]
    BY ZenonT(30), <1>2, OverHas
  <1> QED  BY <1>1, <1>3 DEF MemoryInv, OwnInv, RowsInv

(* After a restore a memory is one that was there, and that the restore had not
   read, or a new one, of the saved memory that its identifier names. *)
LEMMA RestoreReplaces ==
  ASSUME CopiesInv, NEW r \in Restores, RestoreWrite(r)
  PROVE  \A i \in DOMAIN rows' :
           \/ i \in DOMAIN rows \ restore[r].found /\ rows'[i] = rows[i]
           \/ /\ DOMAIN rows'[i] = Columns /\ rows'[i].src = NoTurn
              /\ \E j \in DOMAIN restore[r].copy :
                   /\ i = <<r, restore[r].copy[j].key, j>>
                   /\ rows'[i].key = restore[r].copy[j].key
  <1>1. PICK copy, old, new, left :
          /\ copy = restore[r].copy /\ old = rows /\ new = Restored(r)
          /\ left = [i \in DOMAIN old \ restore[r].found |-> old[i]]
    OBVIOUS
  <1>2. rows' = Over(new, left)
    BY <1>1 DEF RestoreWrite
  <1>3. PICK news : news = {<<r, copy[i].key, i>> : i \in DOMAIN copy}
    OBVIOUS
  <1>4. new = [n \in news |-> [copy[n[3]] EXCEPT !.src = NoTurn]]
    BY <1>1, <1>3 DEF Restored
  <1>5. \A i \in DOMAIN copy : DOMAIN copy[i] = Columns
    BY <1>1 DEF CopiesInv
  <1>6. ASSUME NEW n \in news
        PROVE  /\ DOMAIN new[n] = Columns /\ new[n].src = NoTurn
               /\ \E j \in DOMAIN copy : n = <<r, copy[j].key, j>> /\ new[n].key = copy[j].key
    <2>1. PICK j \in DOMAIN copy : n = <<r, copy[j].key, j>>
      BY <1>3
    <2>2. new[n] = [copy[j] EXCEPT !.src = NoTurn]
      BY <1>4, <2>1
    <2> QED  BY <1>5, <2>1, <2>2 DEF Columns
  <1>7. DOMAIN new = news /\ DOMAIN left = DOMAIN old \ restore[r].found
    BY <1>1, <1>4
  <1>8. \A i \in DOMAIN rows' : \/ i \in news /\ rows'[i] = new[i]
                                \/ i \in DOMAIN old \ restore[r].found /\ rows'[i] = left[i]
    BY <1>2, <1>7 DEF Over
  <1> QED  BY <1>1, <1>6, <1>8

LEMMA OthersLeaveRestores ==
  ASSUME [Next]_vars
  PROVE  \/ restore' = restore
         \/ Take \/ Crash
         \/ \E r \in Restores :
              TakeSnapshot(r) \/ RestoreSelect(r) \/ RestoreFails(r) \/ RestoreWrite(r)
  BY DEF Next, Worker, Select, Flush, Summarize, Commit, CommitUnanswered, StatementFails, Raise, Retry,
         Publish, User, UpdateMemory, DeleteMemory, DeleteThread, Age, StoreTurn, Enqueue, ClientGone,
         Restart, vars, userVars

LEMMA CopiesStep ==
  ASSUME MemoryInv, [Next]_vars
  PROVE  CopiesInv'
  <1>1. CASE restore' = restore
    BY <1>1 DEF MemoryInv, CopiesInv
  <1>2. CASE Take \/ Crash
    <2>1. /\ DOMAIN restore' = Restores
          /\ \A r \in Restores : restore'[r] \in {restore[r], [restore[r] EXCEPT !.calm = FALSE],
                                                 [Unstarted EXCEPT !.at = "failed"]}
      BY <1>2 DEF Take, Crash, Disturbed
    <2> QED  BY <2>1 DEF MemoryInv, CopiesInv, Unstarted, NoRows
  <1>3. CASE \E r \in Restores : TakeSnapshot(r)
    <2>1. PICK r \in Restores : TakeSnapshot(r)
      BY <1>3
    <2>2. PICK table, says :
            /\ table = rows
            /\ restore' = [restore EXCEPT ![r].at = "saved", ![r].copy = table, ![r].says = says]
      BY <2>1 DEF TakeSnapshot
    <2>3. \A i \in DOMAIN table : DOMAIN table[i] = Columns
      BY <2>2 DEF MemoryInv, RowsInv
    <2> QED  BY <2>2, <2>3 DEF MemoryInv, CopiesInv
  <1>4. CASE \E r \in Restores : RestoreSelect(r) \/ RestoreFails(r)
    <2>1. PICK r \in Restores : RestoreSelect(r) \/ RestoreFails(r)
      BY <1>4
    <2>2. CASE RestoreSelect(r)
      <3>1. \E found, calm :
              restore' = [restore EXCEPT ![r].at = "read", ![r].found = found, ![r].calm = calm]
        BY <2>2 DEF RestoreSelect
      <3> QED  BY <3>1 DEF MemoryInv, CopiesInv
    <2>3. CASE RestoreFails(r)
      <3>1. PICK none : none = [Unstarted EXCEPT !.at = "failed"]
        OBVIOUS
      <3>2. restore' = [restore EXCEPT ![r] = none]
        BY <2>3, <3>1 DEF RestoreFails
      <3>3. DOMAIN none = {"at", "copy", "says", "found", "calm"} /\ DOMAIN none.copy = {}
        BY <3>1 DEF Unstarted, NoRows
      <3> QED  BY <3>2, <3>3 DEF MemoryInv, CopiesInv
    <2> QED  BY <2>1, <2>2, <2>3
  <1>5. CASE \E r \in Restores : RestoreWrite(r)
    <2>1. PICK r \in Restores : RestoreWrite(r)
      BY <1>5
    <2>2. PICK calm, none : /\ calm = restore[r].calm
                            /\ none = [Unstarted EXCEPT !.at = "done", !.calm = calm]
      OBVIOUS
    <2>3. restore' = [[o \in Restores |-> Disturbed(o)] EXCEPT ![r] = none]
      BY <2>1, <2>2 DEF RestoreWrite
    <2>4. DOMAIN none = {"at", "copy", "says", "found", "calm"} /\ DOMAIN none.copy = {}
      BY <2>2 DEF Unstarted, NoRows
    <2>5. /\ DOMAIN restore' = Restores
          /\ \A o \in Restores :
               restore'[o] \in {restore[o], [restore[o] EXCEPT !.calm = FALSE], none}
      BY <2>3 DEF Disturbed
    <2> QED  BY <2>4, <2>5 DEF MemoryInv, CopiesInv
  <1> QED  BY <1>1, <1>2, <1>3, <1>4, <1>5, OthersLeaveRestores

LEMMA RowsStep ==
  ASSUME MemoryInv, [Next]_vars
  PROVE  RowsInv'
  <1>1. \A t \in Turns : (phase[t] = "done" => phase'[t] = "done") /\ doubt \subseteq doubt'
    BY DoneStays DEF MemoryInv
  <1>2. ASSUME \A i \in DOMAIN rows' : /\ i \in DOMAIN rows /\ DOMAIN rows'[i] = DOMAIN rows[i]
                                      /\ rows'[i].src \in {rows[i].src, NoTurn}
        PROVE  RowsInv'
    BY <1>1, <1>2, JobsAssumption DEF MemoryInv, RowsInv
  <1>3. CASE Commit
    <2>1. Apply /\ wk.at = "commit" /\ phase' = [phase EXCEPT ![wk.job.turn] = "done"]
          /\ doubt' = doubt
      BY <1>3 DEF Commit
    <2>2. \A t \in Turns : wk.job.turn = t => phase'[t] = "done"
      BY <2>1 DEF MemoryInv, JobsInv, Shapes
    <2> QED  BY <1>1, <2>1, <2>2, ApplyKeepsRows
  <1>4. CASE CommitUnanswered
    <2>1. Apply /\ wk.at = "commit" /\ doubt' = doubt \cup {wk.job.turn}
      BY <1>4 DEF CommitUnanswered
    <2> QED  BY <1>1, <2>1, ApplyKeepsRows
  <1>5. CASE \E i \in DOMAIN rows, k \in Keys, v \in Typed : UpdateMemory(i, k, v)
    <2>1. PICK i \in DOMAIN rows, k \in Keys, v \in Typed : UpdateMemory(i, k, v)
      BY <1>5
    <2>2. i \in DOMAIN rows /\ rows' = [rows EXCEPT ![i].key = k, ![i].val = v]
      BY <2>1 DEF UpdateMemory
    <2>3. \A j \in DOMAIN rows : DOMAIN rows[j] = Columns
      BY DEF MemoryInv, RowsInv
    <2>4. /\ DOMAIN rows' = DOMAIN rows
          /\ \A j \in DOMAIN rows : DOMAIN rows'[j] = DOMAIN rows[j] /\ rows'[j].src = rows[j].src
      BY <2>2, <2>3 DEF Columns
    <2> QED  BY <1>2, <2>4
  <1>6. CASE \E i \in DOMAIN rows : DeleteMemory(i)
    BY <1>2, <1>6 DEF DeleteMemory
  <1>7. CASE \E ts \in SUBSET Turns : DeleteThread(ts)
    <2>1. /\ DOMAIN rows' = DOMAIN rows
          /\ \A i \in DOMAIN rows : rows'[i] = rows[i] \/ rows'[i] = [rows[i] EXCEPT !.src = NoTurn]
      BY <1>7 DEF DeleteThread
    <2>2. \A i \in DOMAIN rows : DOMAIN rows[i] = Columns
      BY DEF MemoryInv, RowsInv
    <2>3. \A i \in DOMAIN rows : /\ DOMAIN rows'[i] = DOMAIN rows[i]
                                 /\ rows'[i].src \in {rows[i].src, NoTurn}
      BY <2>1, <2>2 DEF Columns
    <2> QED  BY <1>2, <2>1, <2>3
  <1>8. CASE rows' = rows
    BY <1>2, <1>8
  <1>10. CASE \E r \in Restores : RestoreWrite(r)
    <2>1. PICK r \in Restores : RestoreWrite(r)
      BY <1>10
    <2>2. \A i \in DOMAIN rows' : \/ i \in DOMAIN rows /\ rows'[i] = rows[i]
                                  \/ DOMAIN rows'[i] = Columns /\ rows'[i].src = NoTurn
      BY <2>1, RestoreReplaces DEF MemoryInv
    <2> QED  BY <1>1, <2>2, JobsAssumption DEF MemoryInv, RowsInv
  <1>9. Commit \/ CommitUnanswered \/ User \/ rows' = rows
    BY DEF Next, Worker, Take, Select, Flush, Summarize, StatementFails, Raise, Publish, Age,
           StoreTurn, Enqueue, ClientGone, Crash, Restart, vars, tableVars
  <1> QED  BY <1>3, <1>4, <1>5, <1>6, <1>7, <1>8, <1>9, <1>10
           DEF User, TakeSnapshot, RestoreSelect, RestoreFails, tableVars

LEMMA MemoryInit == Init => MemoryInv
  <1>1. Init => OwnInv
    BY DEF Init, Idle, NoRows, OwnInv, Working
  <1>2. Init => RowsInv
    BY DEF Init, NoRows, RowsInv
  <1>3. Init => CopiesInv
    BY DEF Init, Unstarted, NoRows, CopiesInv
  <1> QED  BY <1>1, <1>2, <1>3, JobsInit DEF MemoryInv

LEMMA MemoryStep == MemoryInv /\ [Next]_vars => MemoryInv'
  BY JobsStep, OwnStep, RowsStep, CopiesStep DEF MemoryInv

LEMMA MemoryAlways == Spec => []MemoryInv
  BY MemoryInit, MemoryStep, PTL DEF Spec

(* A job that failed has left nothing in the memory table, on whichever of its
   candidates and on however many attempts it failed. *)
THEOREM FailuresLeaveNothing == Spec => []FailedJobLeavesNothing
  <1>1. MemoryInv => FailedJobLeavesNothing
    BY DEF MemoryInv, RowsInv, FailedJobLeavesNothing
  <1> QED  BY <1>1, MemoryAlways, PTL

(* A summary that is written tells nothing that its own job has replaced, and
   nothing older in place of what the job has learned. *)
THEOREM SummariesAreFresh == Spec => SummaryHasNewFacts
  <1> DEFINE New(list) == /\ \A i \in DOMAIN wk.own \cap DOMAIN list : list[i] = rows'[i]
                          /\ edited \/ DOMAIN list \subseteq DOMAIN wk.own \/ DOMAIN wk.own \subseteq DOMAIN list
  <1>1. ASSUME MemoryInv, [Next]_vars
        PROVE  [summary'.says # summary.says => \A list \in wk.draft : New(list)]_vars
    <2>1. CASE Apply
      <3>1. PICK own, old : own = wk.own /\ old = rows
        OBVIOUS
      <3>2. rows' = Over(own, old)
        BY <2>1, <3>1 DEF Apply
      <3>3. \A i \in DOMAIN own : rows'[i] = own[i]
        BY <3>2, OverHas
      <3>4. \A list \in wk.draft : Current(list, own)
        BY <1>1, <3>1 DEF MemoryInv, OwnInv
      <3> QED  BY <3>1, <3>3, <3>4 DEF Current
    <2>2. CASE summary' = summary \/ wk.draft = {}
      BY <2>2
    <2>3. CASE Age
      BY <2>3 DEF Age
    <2>4. Apply \/ summary' = summary \/ wk.draft = {} \/ Age
      BY <1>1 DEF Next, Worker, Take, Select, Flush, Summarize, StatementFails, Raise, Publish,
                  Commit, CommitUnanswered, User, UpdateMemory, DeleteMemory, DeleteThread,
                  TakeSnapshot, RestoreSelect, RestoreWrite, RestoreFails,
                  StoreTurn, Enqueue, ClientGone, Crash, Restart, vars, tableVars
    <2> QED  BY <2>1, <2>2, <2>3, <2>4
  <1> QED  BY <1>1, MemoryAlways, PTL DEF Spec, SummaryHasNewFacts

-----------------------------------------------------------------------------
(* Untried jobs are handled in the order of their turns: those that arrived
   later wait behind them, and none of these has been tried. *)
Untried(p, t) == queue[p].turn = t /\ queue[p].retries = 0

OrderInv ==
  /\ arrivals \in Seq(Turns)
  /\ \A m, n \in 1..Len(arrivals) : arrivals[m] = arrivals[n] => m = n
  /\ \A n \in 1..Len(arrivals) : phase[arrivals[n]] \notin {"new", "stored"}
  /\ \A m, n \in 1..Len(arrivals) : m < n =>
       /\ \A p \in 1..Len(queue) : Untried(p, arrivals[m]) =>
            \E r \in 1..Len(queue) : p < r /\ Untried(r, arrivals[n])
       /\ wk.at \in Working /\ wk.job.turn = arrivals[m] /\ wk.job.retries = 0 =>
            \E r \in 1..Len(queue) : Untried(r, arrivals[n])

(* A job whose COMMIT may have succeeded has been tried. *)
DoubtInv ==
  /\ \A t \in doubt : t \in Turns => phase[t] \notin {"new", "stored"}
  /\ \A t \in doubt, p \in 1..Len(queue) : ~Untried(p, t)
  /\ \A t \in doubt : wk.at \in Working /\ wk.job.turn = t => wk.job.retries # 0

TurnsInv == JobsInv /\ OrderInv /\ DoubtInv

(* A job that comes back has been tried. *)
LEMMA RetryMoves ==
  ASSUME JobsInv, Retry, InTransaction
  PROVE  /\ wk'.at = "idle" /\ arrivals' = arrivals
         /\ \E turn \in Turns :
              /\ turn = wk.job.turn /\ phase[turn] = "queued"
              /\ phase' = phase \/ phase' = [phase EXCEPT ![turn] = "dropped"]
         /\ \/ queue' = queue
            \/ \E j \in Job : j.turn = wk.job.turn /\ j.retries # 0 /\ queue' = Append(queue, j)
  <1>1. wk.at \in Working /\ wk.job \in Job
    BY DEF InTransaction, JobsInv, Shapes, Working
  <1>2. wk.job.turn \in Turns /\ phase[wk.job.turn] = "queued"
    BY <1>1 DEF JobsInv, OneCopy, Job
  <1>3. CASE wk.job.retries < MaxRetries
    <2>1. wk.job.retries \in 0..MaxRetries /\ MaxRetries \in Nat
      BY <1>1, JobsAssumption DEF Job
    <2>2. wk.job.retries + 1 \in 0..MaxRetries /\ wk.job.retries + 1 # 0
      BY <1>3, <2>1
    <2>3. PICK k \in 0..MaxRetries : k = wk.job.retries + 1 /\ k # 0
      BY <2>2
    <2>4. PICK j : j = [wk.job EXCEPT !.retries = k]
      OBVIOUS
    <2>5. j \in Job /\ j.turn = wk.job.turn /\ j.retries # 0
      BY <1>1, <2>3, <2>4 DEF Job
    <2>6. queue' = Append(queue, j) /\ phase' = phase
      BY <1>3, <2>3, <2>4 DEF Retry
    <2> QED  BY <1>2, <2>5, <2>6 DEF Retry, Idle
  <1>4. CASE ~(wk.job.retries < MaxRetries)
    BY <1>2, <1>4 DEF Retry, Idle
  <1> QED  BY <1>3, <1>4

LEMMA RetryKeepsOrder ==
  ASSUME TurnsInv, Retry, InTransaction, doubt' \in {doubt, doubt \cup {wk.job.turn}}
  PROVE  OrderInv' /\ DoubtInv'
  <1>1. PICK turn \in Turns :
          /\ turn = wk.job.turn /\ phase[turn] = "queued"
          /\ phase' = phase \/ phase' = [phase EXCEPT ![turn] = "dropped"]
    BY RetryMoves DEF TurnsInv
  <1>2. \A t \in Turns : phase[t] \notin {"new", "stored"} => phase'[t] \notin {"new", "stored"}
    BY <1>1 DEF TurnsInv, JobsInv, Shapes
  <1>3. phase'[turn] \notin {"new", "stored"}
    BY <1>1, <1>2
  <1>4. wk'.at = "idle" /\ arrivals' = arrivals
    BY RetryMoves DEF TurnsInv
  <1>5. \A p \in 1..Len(queue) : queue[p].turn # turn
    BY <1>1 DEF InTransaction, TurnsInv, JobsInv, OneCopy, Working
  <1>6. CASE queue' = queue
    <2>1. \A p, t : Untried(p, t)' <=> Untried(p, t)
      BY <1>6 DEF Untried
    <2>2. OrderInv'
      BY <1>2, <1>4, <1>6, <2>1 DEF TurnsInv, OrderInv, Working
    <2>3. DoubtInv'
      BY <1>1, <1>2, <1>3, <1>4, <1>5, <1>6, <2>1 DEF TurnsInv, DoubtInv, Working, Untried
    <2> QED  BY <2>2, <2>3
  <1>7. CASE \E j \in Job : j.turn = wk.job.turn /\ j.retries # 0 /\ queue' = Append(queue, j)
    <2>1. PICK j \in Job : j.turn = turn /\ j.retries # 0 /\ queue' = Append(queue, j)
      BY <1>1, <1>7
    <2>2. queue \in Seq(Job)
      BY DEF TurnsInv, JobsInv, Shapes
    <2>3. /\ Len(queue) \in Nat /\ queue'[Len(queue) + 1] = j
          /\ \A n \in 1..Len(queue) : queue'[n] = queue[n]
          /\ 1..Len(queue') = (1..Len(queue)) \cup {Len(queue) + 1}
      BY <2>1, <2>2, Appended
    <2>4. /\ \A p \in 1..Len(queue) : \A t : Untried(p, t)' <=> Untried(p, t)
          /\ \A p \in 1..Len(queue') : \A t : Untried(p, t)' => p \in 1..Len(queue)
      BY <2>1, <2>3 DEF Untried
    <2>5. OrderInv'
      <3>1. ASSUME NEW m \in 1..Len(arrivals), NEW n \in 1..Len(arrivals), m < n,
                   NEW p \in 1..Len(queue'), Untried(p, arrivals[m])'
            PROVE  \E r \in 1..Len(queue') : p < r /\ Untried(r, arrivals[n])'
        <4>1. PICK a, b : a = arrivals[m] /\ b = arrivals[n] /\ Untried(p, a)'
          BY <1>4, <3>1
        <4>2. p \in 1..Len(queue) /\ Untried(p, a)
          BY <2>4, <4>1
        <4>3. PICK r \in 1..Len(queue) : p < r /\ Untried(r, b)
          BY <3>1, <4>1, <4>2 DEF TurnsInv, OrderInv
        <4>4. r \in 1..Len(queue') /\ Untried(r, b)'
          BY <2>3, <2>4, <4>3
        <4> QED  BY <1>4, <4>1, <4>3, <4>4
      <3> QED  BY <1>2, <1>4, <3>1 DEF TurnsInv, OrderInv, Working
    <2>6. \A t \in doubt', p \in 1..Len(queue') : ~Untried(p, t)'
      BY <1>1, <1>5, <2>3, <2>4 DEF TurnsInv, DoubtInv, Untried
    <2>7. DoubtInv'
      BY <1>1, <1>2, <1>3, <1>4, <2>6 DEF TurnsInv, DoubtInv, Working
    <2> QED  BY <2>5, <2>7
  <1> QED  BY <1>6, <1>7, RetryMoves DEF TurnsInv

LEMMA TakeKeepsOrder ==
  ASSUME TurnsInv, Take
  PROVE  OrderInv' /\ DoubtInv'
  <1>1. /\ queue \in Seq(Job) /\ queue # <<>> /\ wk.at = "idle"
        /\ queue' = Tail(queue) /\ UNCHANGED <<phase, arrivals, doubt>>
        /\ wk'.job = Head(queue)
    BY DEF Take, TurnsInv, JobsInv, Shapes, turnVars
  <1>2. PICK j \in Job : j = Head(queue)
    BY <1>1
  <1>3. /\ Len(queue') = Len(queue) - 1 /\ j = queue[1] /\ wk'.job = j
        /\ \A n \in 1..Len(queue') : queue'[n] = queue[n + 1] /\ n + 1 \in 1..Len(queue)
        /\ Len(queue) \in Nat /\ 1 \in 1..Len(queue)
        /\ \A n \in 1..Len(queue) : n # 1 => n - 1 \in 1..Len(queue') /\ queue'[n - 1] = queue[n]
    BY <1>1, <1>2
  <1>4. /\ \A n \in 1..Len(queue') : \A t : Untried(n, t)' => Untried(n + 1, t)
        /\ \A n \in 1..Len(queue) : \A t : n # 1 /\ Untried(n, t) => Untried(n - 1, t)'
        /\ \A t : j.turn = t /\ j.retries = 0 => Untried(1, t)
    BY <1>3 DEF Untried
  <1>5. ASSUME NEW m \in 1..Len(arrivals), NEW n \in 1..Len(arrivals), m < n
        PROVE  /\ \A p \in 1..Len(queue') : Untried(p, arrivals[m])' =>
                    \E r \in 1..Len(queue') : p < r /\ Untried(r, arrivals[n])'
               /\ j.turn = arrivals[m] /\ j.retries = 0 =>
                    \E r \in 1..Len(queue') : Untried(r, arrivals[n])'
    <2>1. \A p \in 1..Len(queue) : Untried(p, arrivals[m]) =>
            \E r \in 1..Len(queue) : p < r /\ Untried(r, arrivals[n])
      BY <1>5 DEF TurnsInv, OrderInv
    <2>2. PICK a, b : a = arrivals[m] /\ b = arrivals[n]
      OBVIOUS
    <2>3. ASSUME NEW p \in 1..Len(queue'), Untried(p, a)'
          PROVE  \E r \in 1..Len(queue') : p < r /\ Untried(r, b)'
      <3>1. p + 1 \in 1..Len(queue) /\ Untried(p + 1, a)
        BY <1>3, <1>4, <2>3
      <3>2. PICK r \in 1..Len(queue) : p + 1 < r /\ Untried(r, b)
        BY <2>1, <2>2, <3>1
      <3>3. r - 1 \in 1..Len(queue') /\ Untried(r - 1, b)' /\ p < r - 1
        BY <1>3, <1>4, <3>2
      <3> QED  BY <3>3
    <2>4. ASSUME j.turn = a, j.retries = 0
          PROVE  \E r \in 1..Len(queue') : Untried(r, b)'
      <3>1. PICK r \in 1..Len(queue) : 1 < r /\ Untried(r, b)
        BY <1>3, <1>4, <2>1, <2>2, <2>4
      <3>2. r - 1 \in 1..Len(queue') /\ Untried(r - 1, b)'
        BY <1>3, <1>4, <3>1
      <3> QED  BY <3>2
    <2>5. a = arrivals'[m] /\ b = arrivals'[n]
      BY <1>1, <2>2
    <2> QED  BY <1>1, <2>2, <2>3, <2>4, <2>5
  <1>6. OrderInv'
    BY <1>1, <1>3, <1>5 DEF TurnsInv, OrderInv
  <1>7. DoubtInv'
    BY <1>1, <1>3, <1>4 DEF TurnsInv, DoubtInv
  <1> QED  BY <1>6, <1>7

LEMMA EnqueueKeepsOrder ==
  ASSUME TurnsInv, NEW t \in Turns, Enqueue(t)
  PROVE  OrderInv' /\ DoubtInv'
  <1>1. /\ phase[t] = "stored" /\ UNCHANGED <<wk, doubt>>
        /\ phase' = [phase EXCEPT ![t] = "queued"]
        /\ queue' = Append(queue, [turn |-> t, retries |-> 0]) /\ queue \in Seq(Job)
        /\ arrivals' = Append(arrivals, t) /\ arrivals \in Seq(Turns)
    BY DEF Enqueue, TurnsInv, JobsInv, Shapes, OrderInv
  <1>2. PICK j \in Job : j = [turn |-> t, retries |-> 0]
    <2>1. 0 \in 0..MaxRetries
      BY JobsAssumption
    <2> QED  BY <2>1 DEF Job
  <1>3. PICK last :
          /\ queue'[last] = j
          /\ \A n \in 1..Len(queue) : queue'[n] = queue[n] /\ n < last
          /\ 1..Len(queue') = (1..Len(queue)) \cup {last}
    <2>1. PICK last \in Nat : last = Len(queue) + 1
      BY <1>1
    <2>2. /\ queue'[last] = j
          /\ \A n \in 1..Len(queue) : queue'[n] = queue[n]
          /\ 1..Len(queue') = (1..Len(queue)) \cup {last}
      BY <1>1, <1>2, <2>1, Appended
    <2>3. \A n \in 1..Len(queue) : n < last
      BY <1>1, <2>1
    <2> QED  BY <2>2, <2>3
  <1>4. /\ \A o \in Turns : phase[o] \notin {"new", "stored"} => phase'[o] \notin {"new", "stored"}
        /\ phase'[t] \notin {"new", "stored"}
    BY <1>1 DEF TurnsInv, JobsInv, Shapes
  <1>5. /\ arrivals' \in Seq(Turns) /\ Len(arrivals) \in Nat
        /\ arrivals'[Len(arrivals) + 1] = t
        /\ \A n \in 1..Len(arrivals) : arrivals'[n] = arrivals[n] /\ arrivals[n] \in Turns
        /\ 1..Len(arrivals') = (1..Len(arrivals)) \cup {Len(arrivals) + 1}
    BY <1>1, Z3
  <1>6. \A n \in 1..Len(arrivals) : arrivals[n] # t
    BY <1>1 DEF TurnsInv, OrderInv
  <1>7. /\ \A p \in 1..Len(queue), o \in Turns : Untried(p, o)' <=> Untried(p, o)
        /\ \A o \in Turns : Untried(last, o)' <=> o = t
    <2>1. j.turn = t /\ j.retries = 0
      BY <1>2
    <2>2. ASSUME NEW p \in 1..Len(queue), NEW o \in Turns
          PROVE  Untried(p, o)' <=> Untried(p, o)
      BY <1>3 DEF Untried
    <2>3. ASSUME NEW o \in Turns
          PROVE  Untried(last, o)' <=> o = t
      BY <1>3, <2>1 DEF Untried
    <2> QED  BY <2>2, <2>3
  <1>8. ASSUME NEW m \in 1..Len(arrivals'), NEW n \in 1..Len(arrivals'), m < n
        PROVE  /\ \A p \in 1..Len(queue') : Untried(p, arrivals[m])' =>
                    \E r \in 1..Len(queue') : p < r /\ Untried(r, arrivals[n])'
               /\ wk'.at \in Working /\ wk'.job.turn = arrivals'[m] /\ wk'.job.retries = 0 =>
                    \E r \in 1..Len(queue') : Untried(r, arrivals[n])'
    <2>1. m \in 1..Len(arrivals)
      BY <1>5, <1>8
    <2>2. PICK a \in Turns, b \in Turns : a = arrivals'[m] /\ b = arrivals'[n]
      BY <1>5
    <2>3. a = arrivals[m] /\ a # t
      BY <1>5, <1>6, <2>1, <2>2
    <2>4. CASE n = Len(arrivals) + 1
      <3>1. b = t
        BY <1>5, <2>2, <2>4
      <3>2. /\ last \in 1..Len(queue') /\ Untried(last, b)'
            /\ \A p \in 1..Len(queue') : Untried(p, a)' => p < last
        BY <1>3, <1>7, <2>3, <3>1
      <3> QED  BY <2>2, <3>2
    <2>5. CASE n \in 1..Len(arrivals)
      <3>1. b = arrivals[n]
        BY <1>5, <2>2, <2>5
      <3>2. /\ \A p \in 1..Len(queue) : Untried(p, a) =>
                 \E r \in 1..Len(queue) : p < r /\ Untried(r, b)
            /\ wk.at \in Working /\ wk.job.turn = a /\ wk.job.retries = 0 =>
                 \E r \in 1..Len(queue) : Untried(r, b)
        BY <1>8, <2>1, <2>3, <2>5, <3>1 DEF TurnsInv, OrderInv
      <3>3. \A p \in 1..Len(queue') : Untried(p, a)' =>
              \E r \in 1..Len(queue') : p < r /\ Untried(r, b)'
        BY <1>3, <1>7, <2>3, <3>2
      <3>4. wk'.at \in Working /\ wk'.job.turn = a /\ wk'.job.retries = 0 =>
              \E r \in 1..Len(queue') : Untried(r, b)'
        BY <1>1, <1>3, <1>7, <3>2
      <3> QED  BY <2>2, <3>3, <3>4
    <2> QED  BY <1>5, <2>4, <2>5
  <1>9. \A m, n \in 1..Len(arrivals') : arrivals'[m] = arrivals'[n] => m = n
    BY <1>5, <1>6 DEF TurnsInv, OrderInv
  <1>10. \A n \in 1..Len(arrivals') : phase'[arrivals'[n]] \notin {"new", "stored"}
    BY <1>4, <1>5 DEF TurnsInv, OrderInv
  <1>11. OrderInv'
    BY <1>5, <1>8, <1>9, <1>10 DEF OrderInv
  <1>12. t \notin doubt
    BY <1>1 DEF TurnsInv, DoubtInv
  <1>13. ASSUME NEW d \in doubt, NEW p \in 1..Len(queue')
         PROVE  ~Untried(p, d)'
    <2>1. d # t /\ j.turn = t
      BY <1>2, <1>12
    <2>2. CASE p = last
      BY <1>3, <2>1, <2>2 DEF Untried
    <2>3. CASE p \in 1..Len(queue)
      <3>1. queue'[p] = queue[p] /\ ~Untried(p, d)
        BY <1>3, <2>3 DEF TurnsInv, DoubtInv
      <3> QED  BY <3>1 DEF Untried
    <2> QED  BY <1>3, <2>2, <2>3
  <1>14. DoubtInv'
    BY <1>1, <1>4, <1>13 DEF TurnsInv, DoubtInv
  <1> QED  BY <1>11, <1>14

(* Steps that leave the queue, and what the worker has in hand, alone. *)
LEMMA QuietKeepsOrder ==
  ASSUME TurnsInv, UNCHANGED <<arrivals, queue, doubt>>,
         \A t \in Turns : phase[t] \notin {"new", "stored"} => phase'[t] \notin {"new", "stored"},
         wk'.at \in Working => wk.at \in Working /\ wk'.job = wk.job
  PROVE  OrderInv' /\ DoubtInv'
  <1>1. \A p, t : Untried(p, t)' <=> Untried(p, t)
    BY DEF Untried
  <1>2. \A n \in 1..Len(arrivals) : arrivals[n] \in Turns
    BY DEF TurnsInv, OrderInv
  <1>3. OrderInv'
    BY <1>1, <1>2 DEF TurnsInv, OrderInv
  <1>4. DoubtInv'
    BY <1>1 DEF TurnsInv, DoubtInv
  <1> QED  BY <1>3, <1>4

LEMMA CrashKeepsOrder ==
  ASSUME TurnsInv, Crash
  PROVE  OrderInv' /\ DoubtInv'
  <1>1. /\ 1..Len(queue') = {} /\ wk'.at \notin Working /\ UNCHANGED <<arrivals, doubt>>
        /\ \A t \in Turns : phase[t] \notin {"new", "stored"} => phase'[t] \notin {"new", "stored"}
    BY DEF Crash, Off, Idle, Working
  <1>2. \A n \in 1..Len(arrivals) : arrivals[n] \in Turns
    BY DEF TurnsInv, OrderInv
  <1>3. OrderInv'
    BY <1>1, <1>2 DEF TurnsInv, OrderInv
  <1>4. DoubtInv'
    BY <1>1 DEF TurnsInv, DoubtInv
  <1> QED  BY <1>3, <1>4

LEMMA TurnsInit == Init => TurnsInv
  <1>1. Init => OrderInv /\ DoubtInv
    BY DEF Init, OrderInv, DoubtInv
  <1> QED  BY <1>1, JobsInit DEF TurnsInv

LEMMA TurnsStep == TurnsInv /\ [Next]_vars => TurnsInv'
  <1> SUFFICES ASSUME TurnsInv, [Next]_vars PROVE OrderInv' /\ DoubtInv'
    BY JobsStep DEF TurnsInv
  <1>1. CASE (Raise \/ CommitUnanswered) /\ InTransaction
    BY <1>1, RetryKeepsOrder DEF Raise, CommitUnanswered
  <1>2. CASE Select \/ Flush \/ Summarize
    <2>1. CASE GoesOn
      BY <2>1, QuietKeepsOrder DEF GoesOn, turnVars, Working
    <2> QED  BY <1>1, <1>2, <2>1, SelectGoesOn, FlushGoesOn, SummarizeGoesOn DEF TurnsInv, JobsInv
  <1>3. CASE Take
    BY <1>3, TakeKeepsOrder
  <1>4. CASE Commit
    <2>1. /\ UNCHANGED <<arrivals, queue, doubt>> /\ wk'.at = "publish"
          /\ phase' = [phase EXCEPT ![wk.job.turn] = "done"]
      BY <1>4 DEF Commit, TurnsInv, JobsInv, Shapes
    <2>2. \A t \in Turns : phase[t] \notin {"new", "stored"} => phase'[t] \notin {"new", "stored"}
      BY <2>1 DEF TurnsInv, JobsInv, Shapes
    <2> QED  BY <2>1, <2>2, QuietKeepsOrder DEF Working
  <1>5. CASE Publish \/ Restart
    <2>1. UNCHANGED <<phase, arrivals, queue, doubt>> /\ wk'.at = "idle"
      BY <1>5 DEF Publish, Restart, turnVars, Idle
    <2> QED  BY <2>1, QuietKeepsOrder DEF Working
  <1>6. CASE User \/ Age \/ UNCHANGED vars
    <2>1. UNCHANGED <<phase, arrivals, queue, doubt, wk>>
      BY <1>6, UserLeavesJobs DEF Age, vars, turnVars, jobVars
    <2> QED  BY <2>1, QuietKeepsOrder
  <1>7. CASE \E t \in Turns, s \in Suggestions : StoreTurn(t, s)
    <2>1. PICK t \in Turns, s \in Suggestions : StoreTurn(t, s)
      BY <1>7
    <2>2. /\ UNCHANGED <<arrivals, queue, doubt, wk>> /\ phase[t] = "new"
          /\ phase' = [phase EXCEPT ![t] = "stored"]
      BY <2>1 DEF StoreTurn, jobVars
    <2>3. \A o \in Turns : phase[o] \notin {"new", "stored"} => phase'[o] \notin {"new", "stored"}
      BY <2>2 DEF TurnsInv, JobsInv, Shapes
    <2> QED  BY <2>2, <2>3, QuietKeepsOrder
  <1>8. CASE \E t \in Turns : ClientGone(t)
    <2>1. PICK t \in Turns : ClientGone(t)
      BY <1>8
    <2>2. /\ UNCHANGED <<arrivals, queue, doubt, wk>>
          /\ phase' = [phase EXCEPT ![t] = "lost"]
      BY <2>1 DEF ClientGone, jobVars
    <2>3. \A o \in Turns : phase[o] \notin {"new", "stored"} => phase'[o] \notin {"new", "stored"}
      BY <2>2 DEF TurnsInv, JobsInv, Shapes
    <2> QED  BY <2>2, <2>3, QuietKeepsOrder
  <1>9. CASE \E t \in Turns : Enqueue(t)
    BY <1>9, EnqueueKeepsOrder
  <1>10. CASE Crash
    BY <1>10, CrashKeepsOrder
  <1>11. ASSUME CommitUnanswered PROVE InTransaction
    BY <1>11 DEF CommitUnanswered, InTransaction
  <1> QED  BY <1>1, <1>2, <1>3, <1>4, <1>5, <1>6, <1>7, <1>8, <1>9, <1>10, <1>11
           DEF Next, Worker, StatementFails

(* A first attempt never writes over what a later turn has said: the later job
   waits in the queue, untried. *)
LEMMA FirstAttemptIsOldest ==
  ASSUME TurnsInv, MemoryInv, wk.at = "commit", NEW m \in 1..Len(arrivals), NEW n \in 1..Len(arrivals),
         m < n, wk.job.turn = arrivals[m], NEW i \in DOMAIN rows, rows[i].src = arrivals[n]
  PROVE  wk.job.retries > 0
  <1>1. arrivals[n] \in Turns
    BY DEF TurnsInv, OrderInv
  <1>2. phase[arrivals[n]] = "done" \/ arrivals[n] \in doubt
    BY <1>1 DEF MemoryInv, RowsInv
  <1>3. wk.job.retries # 0
    <2> SUFFICES ASSUME wk.job.retries = 0 PROVE FALSE
      OBVIOUS
    <2>1. PICK r \in 1..Len(queue) : Untried(r, arrivals[n])
      BY DEF TurnsInv, OrderInv, Working
    <2>2. phase[arrivals[n]] = "queued"
      BY <1>1, <2>1 DEF TurnsInv, JobsInv, OneCopy, Untried
    <2>3. arrivals[n] \notin doubt
      BY <2>1 DEF TurnsInv, DoubtInv
    <2> QED  BY <1>2, <2>2, <2>3
  <1>4. wk.job.retries \in 0..MaxRetries /\ MaxRetries \in Nat
    BY JobsAssumption DEF TurnsInv, JobsInv, Shapes, Working, Job
  <1> QED  BY <1>3, <1>4

(* A fact of an earlier turn replaces a fact of a later one only after its job
   has failed, however turns, retries and crashes interleave. *)
THEOREM OrderIsKept == Spec => OlderFactsOnlyByRetry
  <1> DEFINE Kept == \A i \in DOMAIN rows \cap DOMAIN rows' : \A m, n \in 1..Len(arrivals) :
                       (m < n /\ rows[i].src = arrivals[n] /\ rows'[i].src = arrivals[m])
                         => wk.job.retries > 0
  <1>1. ASSUME TurnsInv, MemoryInv, [Next]_vars
        PROVE  [Kept]_vars
    <2>1. ASSUME NEW i \in DOMAIN rows \cap DOMAIN rows',
                 NEW m \in 1..Len(arrivals), NEW n \in 1..Len(arrivals),
                 m < n, rows[i].src = arrivals[n], rows'[i].src = arrivals[m]
          PROVE  wk.job.retries > 0
      <3>1. arrivals[m] \in Turns /\ arrivals[m] # NoTurn /\ arrivals[m] # arrivals[n]
        BY <1>1, <2>1, JobsAssumption DEF TurnsInv, OrderInv
      <3>2. rows'[i].src \notin {rows[i].src, NoTurn}
        BY <2>1, <3>1
      <3>3. CASE wk.at = "commit" /\ Apply
        <4>1. PICK own, old : own = wk.own /\ old = rows
          OBVIOUS
        <4>2. rows' = Over(own, old)
          BY <3>3, <4>1 DEF Apply
        <4>3. i \in DOMAIN own => rows'[i] = own[i]
          BY <4>2, OverHas
        <4>4. i \notin DOMAIN own => rows'[i] = old[i]
          BY <2>1, <4>1, <4>2 DEF Over
        <4>5. wk.job.turn = arrivals[m]
          BY <1>1, <2>1, <3>2, <4>1, <4>3, <4>4 DEF MemoryInv, OwnInv
        <4> QED  BY <1>1, <2>1, <3>3, <4>5, FirstAttemptIsOldest
      <3>4. CASE \E j \in DOMAIN rows, k \in Keys, v \in Typed : UpdateMemory(j, k, v)
        <4>1. PICK j \in DOMAIN rows, k \in Keys, v \in Typed :
                rows' = [rows EXCEPT ![j].key = k, ![j].val = v]
          BY <3>4 DEF UpdateMemory
        <4>2. DOMAIN rows[i] = Columns
          BY <1>1, <2>1 DEF MemoryInv, RowsInv
        <4>3. rows'[i].src = rows[i].src
          BY <2>1, <4>1, <4>2 DEF Columns
        <4> QED  BY <3>2, <4>3
      <3>5. CASE \E j \in DOMAIN rows : DeleteMemory(j)
        BY <2>1, <3>2, <3>5 DEF DeleteMemory
      <3>6. CASE \E ts \in SUBSET Turns : DeleteThread(ts)
        <4>1. rows'[i] = rows[i] \/ rows'[i] = [rows[i] EXCEPT !.src = NoTurn]
          BY <2>1, <3>6 DEF DeleteThread
        <4>2. DOMAIN rows[i] = Columns
          BY <1>1, <2>1 DEF MemoryInv, RowsInv
        <4> QED  BY <3>2, <4>1, <4>2 DEF Columns
      <3>8. CASE \E r \in Restores : RestoreWrite(r)
        <4>1. rows'[i] = rows[i] \/ rows'[i].src = NoTurn
          BY <1>1, <2>1, <3>8, RestoreReplaces DEF MemoryInv
        <4> QED  BY <3>2, <4>1
      <3>7. (wk.at = "commit" /\ Apply) \/ User \/ rows' = rows
        BY <1>1 DEF Next, Worker, Take, Select, Flush, Summarize, StatementFails, Raise, Publish, Age,
                    Commit, CommitUnanswered, StoreTurn, Enqueue, ClientGone, Crash, Restart, vars,
                    tableVars
      <3> QED  BY <3>2, <3>3, <3>4, <3>5, <3>6, <3>7, <3>8
               DEF User, TakeSnapshot, RestoreSelect, RestoreFails, tableVars
    <2> QED  BY <2>1
  <1>2. Spec => []TurnsInv
    BY TurnsInit, TurnsStep, PTL DEF Spec
  <1> QED  BY <1>1, <1>2, MemoryAlways, PTL DEF Spec, OlderFactsOnlyByRetry

-----------------------------------------------------------------------------
(* While nobody renames a memory, its identifier tells its key. *)
KeyOf(i) == i[2]
Ids == DOMAIN wk.own \cup DOMAIN rows

Named(table) == \A i \in DOMAIN table : table[i].key = KeyOf(i)
Apart(ids) == \A i, j \in ids : KeyOf(i) = KeyOf(j) => i = j

(* As long as no restore was disturbed, the rows that a job is about to insert are
   of keys that have none, and no snapshot has two rows of a key. *)
Unmixed ==
  /\ Apart(Ids)
  /\ wk.at = "flush" /\ wk.hit = {} => \A i \in Ids : KeyOf(i) # Head(wk.todo).key
  /\ \A r \in Restores : Apart(DOMAIN restore[r].copy)

(* An undisturbed restore has read all memories that there are, and no job is
   under way. *)
Alone(r) ==
  restore[r].at = "read" /\ restore[r].calm =>
    wk.at \notin Working /\ DOMAIN rows \subseteq restore[r].found

KeysInv ==
  /\ Named(rows) /\ Named(wk.own) /\ \A r \in Restores : Named(restore[r].copy) /\ Alone(r)
  /\ ~Mixed => Unmixed

LEMMA ViewHasKeys ==
  ASSUME KeysInv
  PROVE  DOMAIN View = Ids /\ \A i \in Ids : View[i].key = KeyOf(i)
  <1>1. PICK own, old : own = wk.own /\ old = rows
    OBVIOUS
  <1>2. PICK all : all = Over(own, old)
    OBVIOUS
  <1>3. /\ DOMAIN all = DOMAIN own \cup DOMAIN old
        /\ \A i \in DOMAIN own : all[i] = own[i]
        /\ \A i \in DOMAIN old \ DOMAIN own : all[i] = old[i]
    BY <1>2 DEF Over
  <1>4. View = all
    BY <1>1, <1>2 DEF View
  <1> QED  BY <1>1, <1>3, <1>4 DEF KeysInv, Ids, Named

(* A disturbed restore stays so. *)
LEMMA MixedStays ==
  ASSUME MemoryInv, [Next]_vars, Mixed
  PROVE  Mixed'
  <1>1. PICK r \in Restores : restore[r].at = "done" /\ ~restore[r].calm
    BY DEF Mixed
  <1>2. restore'[r] = restore[r]
    <2>1. CASE Take \/ Crash
      BY <1>1, <2>1 DEF Take, Crash, Disturbed
    <2>2. ASSUME NEW o \in Restores, TakeSnapshot(o) \/ RestoreSelect(o) \/ RestoreFails(o)
          PROVE  restore'[r] = restore[r]
      BY <1>1, <2>2 DEF TakeSnapshot, RestoreSelect, RestoreFails, MemoryInv, CopiesInv
    <2>3. ASSUME NEW o \in Restores, RestoreWrite(o)
          PROVE  restore'[r] = restore[r]
      BY <1>1, <2>3 DEF RestoreWrite, Disturbed
    <2> QED  BY <2>1, <2>2, <2>3, OthersLeaveRestores
  <1> QED  BY <1>1, <1>2 DEF Mixed

(* Steps of the worker leave the restores alone, but for Take. *)
LEMMA RestoresAsTheyWere ==
  ASSUME KeysInv, restore' = restore, Named(rows)', Named(wk.own)',
         \A r \in Restores : restore[r].at = "read" /\ restore[r].calm => Alone(r)',
         ~Mixed => Apart(Ids)',
         ~Mixed /\ wk'.at = "flush" /\ wk'.hit = {} => \A i \in Ids' : KeyOf(i) # Head(wk'.todo).key
  PROVE  KeysInv'
  <1>1. Mixed' <=> Mixed
    BY DEF Mixed
  <1>2. \A r \in Restores : Alone(r)'
    BY DEF Alone
  <1>3. \A r \in Restores : Named(restore[r].copy)'
    BY DEF KeysInv, Named
  <1>4. ~Mixed => \A r \in Restores : Apart(DOMAIN restore[r].copy)'
    BY DEF KeysInv, Unmixed, Apart
  <1> QED  BY <1>1, <1>2, <1>3, <1>4 DEF KeysInv, Unmixed

(* Rows that were not committed vanish. *)
LEMMA RollbackKeepsKeys ==
  ASSUME MemoryInv, KeysInv, wk' = Idle \/ wk' = Off, rows' = rows, restore' = restore
  PROVE  KeysInv'
  <1>1. wk'.at \in {"idle", "off"} /\ DOMAIN wk'.own = {}
    BY DEF Idle, Off, NoRows
  <1>2. Ids' \subseteq Ids
    BY <1>1 DEF Ids
  <1>3. ~Mixed => Apart(Ids)'
    BY <1>2 DEF KeysInv, Unmixed, Apart
  <1>4. Named(rows)' /\ Named(wk.own)'
    BY <1>1 DEF KeysInv, Named
  <1>5. \A r \in Restores : restore[r].at = "read" /\ restore[r].calm => Alone(r)'
    BY <1>1 DEF KeysInv, Alone, Working
  <1> QED  BY <1>1, <1>3, <1>4, <1>5, RestoresAsTheyWere

LEMMA SelectKeepsKeys ==
  ASSUME MemoryInv, KeysInv, Select
  PROVE  KeysInv'
  <1>1. CASE Raise
    BY <1>1, RollbackKeepsKeys DEF Raise, Retry, tableVars
  <1>2. CASE ~Raise
    <2>1. PICK key : key = Head(wk.todo).key
      OBVIOUS
    <2>2. PICK found : found = Found(Head(wk.todo))
      OBVIOUS
    <2>3. found = {i \in DOMAIN View : View[i].key = key}
      BY <2>1, <2>2 DEF Found
    <2>4. found = {} => \A i \in Ids : KeyOf(i) # key
      BY <2>3, ViewHasKeys
    <2>5. rows' = rows /\ restore' = restore /\ wk.at = "select"
      BY <1>2 DEF Select, tableVars, userVars
    <2>6. \/ wk' = [wk EXCEPT !.todo = Tail(@)]
          \/ wk' = [wk EXCEPT !.at = "flush", !.hit = found]
      BY <1>2, <2>2 DEF Select
    <2>7. /\ wk'.own = wk.own /\ wk'.at \in {"select", "flush"}
          /\ wk'.at = "flush" => wk'.hit = found /\ wk'.todo = wk.todo
      BY <2>5, <2>6 DEF MemoryInv, JobsInv, Shapes
    <2>8. Ids' = Ids /\ Named(rows)' /\ Named(wk.own)'
      BY <2>5, <2>7 DEF Ids, KeysInv, Named
    <2>9. \A r \in Restores : ~(restore[r].at = "read" /\ restore[r].calm)
      BY <2>5 DEF KeysInv, Alone, Working
    <2>10. ~Mixed => Apart(Ids)'
      BY <2>8 DEF KeysInv, Unmixed, Apart
    <2>11. wk'.at = "flush" /\ wk'.hit = {} => \A i \in Ids' : KeyOf(i) # Head(wk'.todo).key
      BY <2>1, <2>4, <2>7, <2>8
    <2> QED  BY <2>5, <2>8, <2>9, <2>10, <2>11, RestoresAsTheyWere
  <1> QED  BY <1>1, <1>2

(* The row that a flush writes is new under a new key, or keeps its key. *)
LEMMA FlushKeepsKeys ==
  ASSUME MemoryInv, KeysInv, Flush
  PROVE  KeysInv'
  <1>1. CASE Raise
    BY <1>1, RollbackKeepsKeys DEF Raise, Retry, tableVars
  <1>2. CASE ~Raise
    <2>1. PICK c, id, row, own : /\ c = Head(wk.todo) /\ id = Target(c) /\ row = Written(c)
                                 /\ own = wk.own
      OBVIOUS
    <2>2. PICK new : new = Over([i \in {id} |-> row], own)
      OBVIOUS
    <2>3. /\ wk' = [wk EXCEPT !.at = "select", !.hit = {}, !.todo = Tail(@),
                              !.critical = @ \/ c.critical, !.own = new]
          /\ rows' = rows /\ wk.at = "flush" /\ wk.hit \subseteq DOMAIN View /\ restore' = restore
      BY <1>2, <2>1, <2>2 DEF Flush, tableVars, userVars
    <2>4. DOMAIN new = DOMAIN own \cup {id} /\ new[id] = row
          /\ \A i \in DOMAIN own \ {id} : new[i] = own[i]
      <3>1. PICK one : one = [i \in {id} |-> row]
        OBVIOUS
      <3>2. new = Over(one, own)
        BY <2>2, <3>1
      <3>3. DOMAIN one = {id} /\ one[id] = row
        BY <3>1
      <3>4. /\ DOMAIN new = DOMAIN one \cup DOMAIN own
            /\ \A i \in DOMAIN one : new[i] = one[i]
            /\ \A i \in DOMAIN own \ DOMAIN one : new[i] = own[i]
        BY <3>2 DEF Over
      <3> QED  BY <3>3, <3>4
    <2>5. wk'.own = new /\ wk'.at = "select"
      BY <2>3 DEF MemoryInv, JobsInv, Shapes
    <2>6. Ids' = Ids \cup {id}
      BY <2>1, <2>3, <2>4, <2>5 DEF Ids
    <2>7. row.key = KeyOf(id) /\ (~Mixed => \A i \in Ids : KeyOf(i) = KeyOf(id) => i = id)
      <3>1. CASE wk.hit = {}
        <4>1. id = <<wk.job.turn, c.key, wk.job.retries>>
          BY <2>1, <3>1 DEF Target
        <4>2. KeyOf(id) = c.key /\ row.key = c.key
          BY <2>1, <3>1, <4>1 DEF KeyOf, Written
        <4>3. ~Mixed => \A i \in Ids : KeyOf(i) # c.key
          BY <2>1, <2>3, <3>1 DEF KeysInv, Unmixed
        <4> QED  BY <4>2, <4>3
      <3>2. CASE wk.hit # {}
        <4>1. id \in wk.hit
          BY <2>1, <3>2 DEF Target
        <4>2. id \in Ids /\ View[id].key = KeyOf(id)
          BY <2>3, <4>1, ViewHasKeys
        <4>3. row.key = View[id].key
          BY <2>1, <3>2 DEF Written
        <4> QED  BY <4>2, <4>3 DEF KeysInv, Unmixed, Apart
      <3> QED  BY <3>1, <3>2
    <2>8. Named(rows)' /\ Named(wk.own)'
      <3>1. \A i \in DOMAIN own : own[i].key = KeyOf(i)
        BY <2>1 DEF KeysInv, Named
      <3>2. \A i \in DOMAIN new : new[i].key = KeyOf(i)
        BY <2>4, <2>7, <3>1
      <3> QED  BY <2>3, <2>5, <3>2 DEF KeysInv, Named
    <2>9. ~Mixed => Apart(Ids)'
      BY <2>6, <2>7 DEF KeysInv, Unmixed, Apart
    <2>10. \A r \in Restores : ~(restore[r].at = "read" /\ restore[r].calm)
      BY <2>3 DEF KeysInv, Alone, Working
    <2> QED  BY <2>3, <2>5, <2>8, <2>9, <2>10, RestoresAsTheyWere
  <1> QED  BY <1>1, <1>2

LEMMA ApplyKeepsKeys ==
  ASSUME KeysInv, Apply, DOMAIN wk'.own = {}, wk'.at # "flush", wk.at = "commit", restore' = restore
  PROVE  KeysInv'
  <1>1. rows' = View
    BY DEF Apply, View
  <1>2. DOMAIN rows' = Ids /\ \A i \in Ids : rows'[i].key = KeyOf(i)
    BY <1>1, ViewHasKeys
  <1>3. Ids' = Ids
    BY <1>2 DEF Ids
  <1>4. Named(rows)' /\ Named(wk.own)'
    BY <1>2 DEF Named
  <1>5. ~Mixed => Apart(Ids)'
    BY <1>3 DEF KeysInv, Unmixed, Apart
  <1>6. \A r \in Restores : ~(restore[r].at = "read" /\ restore[r].calm)
    BY DEF KeysInv, Alone, Working
  <1> QED  BY <1>4, <1>5, <1>6, RestoresAsTheyWere

(* The user edits and deletes memories and threads. *)
Edits ==
  \/ \E i \in DOMAIN rows, k \in Keys, v \in Typed : UpdateMemory(i, k, v)
  \/ \E i \in DOMAIN rows : DeleteMemory(i)
  \/ \E ts \in SUBSET Turns : DeleteThread(ts)

LEMMA EditsKeepKeys ==
  ASSUME MemoryInv, KeysInv, Edits, Renames = {}
  PROVE  KeysInv'
  <1>1. wk' = wk /\ restore' = restore
    BY DEF Edits, UpdateMemory, DeleteMemory, DeleteThread, jobVars, userVars
  <1>2. \A i \in DOMAIN rows : DOMAIN rows[i] = Columns
    BY DEF MemoryInv, RowsInv
  <1>3. \A i \in DOMAIN rows' : i \in DOMAIN rows /\ rows'[i].key = rows[i].key
    <2>1. CASE \E i \in DOMAIN rows, k \in Keys, v \in Typed : UpdateMemory(i, k, v)
      <3>1. PICK i, k, v : /\ i \in DOMAIN rows
                           /\ rows' = [rows EXCEPT ![i].key = k, ![i].val = v]
                           /\ k = rows[i].key
        BY <2>1 DEF UpdateMemory
      <3> QED  BY <1>2, <3>1 DEF Columns
    <2>2. CASE \E i \in DOMAIN rows : DeleteMemory(i)
      BY <2>2 DEF DeleteMemory
    <2>3. CASE \E ts \in SUBSET Turns : DeleteThread(ts)
      <3>1. /\ DOMAIN rows' = DOMAIN rows
            /\ \A i \in DOMAIN rows : \/ rows'[i] = rows[i]
                                      \/ rows'[i] = [rows[i] EXCEPT !.src = NoTurn]
        BY <2>3 DEF DeleteThread
      <3> QED  BY <1>2, <3>1 DEF Columns
    <2> QED  BY <2>1, <2>2, <2>3 DEF Edits
  <1>4. Ids' \subseteq Ids
    BY <1>1, <1>3 DEF Ids
  <1>5. Named(rows)' /\ Named(wk.own)'
    BY <1>1, <1>3 DEF KeysInv, Named
  <1>6. ~Mixed => Apart(Ids)'
    BY <1>4 DEF KeysInv, Unmixed, Apart
  <1>7. ~Mixed /\ wk'.at = "flush" /\ wk'.hit = {} => \A i \in Ids' : KeyOf(i) # Head(wk'.todo).key
    BY <1>1, <1>4 DEF KeysInv, Unmixed
  <1>8. \A r \in Restores : restore[r].at = "read" /\ restore[r].calm => Alone(r)'
    BY <1>1, <1>3 DEF KeysInv, Alone
  <1> QED  BY <1>1, <1>5, <1>6, <1>7, <1>8, RestoresAsTheyWere

(* A snapshot is taken, or the restore of one begins or fails. *)
LEMMA SnapshotKeepsKeys ==
  ASSUME MemoryInv, KeysInv, NEW r \in Restores,
         TakeSnapshot(r) \/ RestoreSelect(r) \/ RestoreFails(r), ~Mixed' => ~Mixed
  PROVE  KeysInv'
  <1>1. wk' = wk /\ rows' = rows
    BY DEF TakeSnapshot, RestoreSelect, RestoreFails, jobVars, tableVars
  <1>2. PICK mine : restore' = [restore EXCEPT ![r] = mine]
    BY DEF TakeSnapshot, RestoreSelect, RestoreFails
  <1>3. restore'[r] = mine /\ \A o \in Restores : o # r => restore'[o] = restore[o]
    BY <1>2 DEF MemoryInv, CopiesInv
  <1>4. PICK table : table = rows
    OBVIOUS
  <1>5. /\ mine.copy \in {restore[r].copy, NoRows, table}
        /\ mine.at = "read" /\ mine.calm => ~InTransaction /\ mine.found = DOMAIN rows
    <2>1. CASE TakeSnapshot(r)
      BY <1>3, <1>4, <2>1 DEF TakeSnapshot, MemoryInv, CopiesInv
    <2>2. CASE RestoreSelect(r)
      BY <1>3, <2>2 DEF RestoreSelect, MemoryInv, CopiesInv
    <2>3. CASE RestoreFails(r)
      BY <1>3, <2>3 DEF RestoreFails, MemoryInv, CopiesInv, Unstarted
    <2> QED  BY <2>1, <2>2, <2>3
  <1>6. Named(mine.copy)
    <2>1. Named(NoRows)
      BY DEF Named, NoRows
    <2> QED  BY <1>4, <1>5, <2>1 DEF KeysInv
  <1>7. ~Mixed => Apart(DOMAIN mine.copy)
    <2>1. Apart(DOMAIN NoRows)
      BY DEF Apart, NoRows
    <2>2. ~Mixed => Apart(DOMAIN table)
      BY <1>4 DEF KeysInv, Unmixed, Apart, Ids
    <2> QED  BY <1>5, <2>1, <2>2 DEF KeysInv, Unmixed
  <1>8. \A o \in Restores : Named(restore'[o].copy) /\ Alone(o)'
    BY <1>1, <1>3, <1>5, <1>6 DEF KeysInv, Alone, InTransaction, Working
  <1>9. ~Mixed => Unmixed'
    BY <1>1, <1>3, <1>7 DEF KeysInv, Unmixed, Ids
  <1>10. \A o \in Restores : Named(restore[o].copy)'
    BY <1>8 DEF Named
  <1>11. Named(rows)' /\ Named(wk.own)'
    BY <1>1 DEF KeysInv, Named
  <1> QED  BY <1>8, <1>9, <1>10, <1>11 DEF KeysInv

(* A restore that was alone leaves the rows of its snapshot, and nothing else. *)
LEMMA RestoreKeepsKeys ==
  ASSUME MemoryInv, KeysInv, NEW r \in Restores, RestoreWrite(r), ~Mixed' => ~Mixed
  PROVE  KeysInv'
  <1>1. wk' = wk /\ restore[r].at = "read"
    BY DEF RestoreWrite, jobVars
  <1>2. PICK copy, found : copy = restore[r].copy /\ found = restore[r].found
    OBVIOUS
  <1>3. \A i \in DOMAIN rows' :
          \/ i \in DOMAIN rows \ found /\ rows'[i] = rows[i]
          \/ \E j \in DOMAIN copy : i = <<r, copy[j].key, j>> /\ rows'[i].key = copy[j].key
    BY <1>2, RestoreReplaces DEF MemoryInv
  <1>4. \A j \in DOMAIN copy : copy[j].key = KeyOf(j)
    BY <1>2 DEF KeysInv, Named
  <1>5. Named(rows)'
    BY <1>3, <1>4 DEF KeysInv, Named, KeyOf
  <1>6. /\ \A o \in Restores : /\ restore'[o].copy \in {restore[o].copy, NoRows}
                               /\ restore'[o].at = "read" => ~restore'[o].calm
        /\ restore'[r].at = "done" /\ restore'[r].calm = restore[r].calm
    <2>1. PICK calm : calm = restore[r].calm
      OBVIOUS
    <2>2. PICK none : none = [Unstarted EXCEPT !.at = "done", !.calm = calm]
      OBVIOUS
    <2>3. restore' = [[o \in Restores |-> Disturbed(o)] EXCEPT ![r] = none]
      BY <2>1, <2>2 DEF RestoreWrite
    <2>6. restore'[r] = none
      BY <2>3
    <2>7. none.at = "done" /\ none.calm = calm /\ none.copy = NoRows
      BY <2>2 DEF Unstarted
    <2>4. \A o \in Restores : o # r => restore'[o] = Disturbed(o)
      BY <2>3
    <2>5. \A o \in Restores : /\ Disturbed(o).copy = restore[o].copy
                              /\ Disturbed(o).at = "read" => ~Disturbed(o).calm
      BY DEF Disturbed, MemoryInv, CopiesInv
    <2> QED  BY <2>1, <2>4, <2>5, <2>6, <2>7
  <1>7. \A o \in Restores : Named(restore'[o].copy) /\ Alone(o)'
    <2>1. Named(NoRows)
      BY DEF Named, NoRows
    <2> QED  BY <1>6, <2>1 DEF KeysInv, Alone
  <1>8. \A o \in Restores : Named(restore[o].copy)'
    BY <1>7 DEF Named
  <1>9. ASSUME ~Mixed'
        PROVE  Unmixed'
    <2>1. restore[r].calm
      BY <1>6, <1>9 DEF Mixed
    <2>2. wk.at \notin Working /\ DOMAIN rows \subseteq found /\ DOMAIN wk.own = {}
      BY <1>1, <1>2, <2>1 DEF KeysInv, Alone, MemoryInv, OwnInv
    <2>3. \A i, j \in DOMAIN copy : KeyOf(i) = KeyOf(j) => i = j
      BY <1>2, <1>9 DEF KeysInv, Unmixed, Apart
    <2>4. Ids' = DOMAIN rows'
      BY <1>1, <2>2 DEF Ids
    <2>5. \A i \in Ids' : \E j \in DOMAIN copy : i = <<r, copy[j].key, j>> /\ KeyOf(i) = KeyOf(j)
      BY <1>3, <1>4, <2>2, <2>4 DEF KeyOf
    <2>6. Apart(Ids)'
      BY <2>3, <2>5 DEF Apart
    <2>7. \A o \in Restores : Apart(DOMAIN restore'[o].copy)
      <3>1. Apart(DOMAIN NoRows)
        BY DEF Apart, NoRows
      <3> QED  BY <1>6, <1>9, <3>1 DEF KeysInv, Unmixed
    <2> QED  BY <1>1, <2>2, <2>6, <2>7 DEF Unmixed, Working, Apart
  <1>10. Named(wk.own)'
    BY <1>1 DEF KeysInv, Named
  <1> QED  BY <1>5, <1>7, <1>8, <1>9, <1>10 DEF KeysInv

(* A new job, or the end of the process, disturbs restores under way. *)
LEMMA DisturbedKeepsKeys ==
  ASSUME MemoryInv, KeysInv, Take \/ Crash, ~Mixed' => ~Mixed
  PROVE  KeysInv'
  <1>1. rows' = rows /\ DOMAIN wk'.own \subseteq DOMAIN wk.own /\ wk'.at # "flush"
        /\ Named(wk.own)'
    <2>1. CASE Take
      BY <2>1 DEF Take, tableVars, MemoryInv, JobsInv, Shapes, KeysInv, Named
    <2>2. CASE Crash
      BY <2>2 DEF Crash, tableVars, Off, Idle, NoRows, Named
    <2> QED  BY <2>1, <2>2
  <1>2. \A o \in Restores : /\ restore'[o].copy \in {restore[o].copy, NoRows}
                            /\ restore'[o].at = "read" => ~restore'[o].calm
    <2>1. CASE Take
      BY <2>1 DEF Take, Disturbed, MemoryInv, CopiesInv
    <2>2. CASE Crash
      BY <2>2 DEF Crash, Unstarted
    <2> QED  BY <2>1, <2>2
  <1>3. \A o \in Restores : Named(restore'[o].copy) /\ Alone(o)'
    <2>1. Named(NoRows)
      BY DEF Named, NoRows
    <2> QED  BY <1>2, <2>1 DEF KeysInv, Alone
  <1>4. \A o \in Restores : Named(restore[o].copy)'
    BY <1>3 DEF Named
  <1>5. Named(rows)'
    BY <1>1 DEF KeysInv, Named
  <1>6. Ids' \subseteq Ids
    BY <1>1 DEF Ids
  <1>7. ~Mixed => Unmixed'
    <2>1. Apart(DOMAIN NoRows)
      BY DEF Apart, NoRows
    <2>2. ~Mixed => \A o \in Restores : Apart(DOMAIN restore'[o].copy)
      BY <1>2, <2>1 DEF KeysInv, Unmixed
    <2>3. ~Mixed => Apart(Ids')
      BY <1>6 DEF KeysInv, Unmixed, Apart
    <2> QED  BY <1>1, <2>2, <2>3 DEF Unmixed, Apart
  <1> QED  BY <1>1, <1>3, <1>4, <1>5, <1>7 DEF KeysInv

LEMMA KeysStep ==
  ASSUME MemoryInv, KeysInv, [Next]_vars, Renames = {}
  PROVE  KeysInv'
  <1>1. CASE Select \/ Flush
    BY <1>1, SelectKeepsKeys, FlushKeepsKeys
  <1>2. CASE Raise \/ Publish \/ Restart
    <2>1. wk' = Idle /\ rows' = rows /\ restore' = restore
      BY <1>2 DEF Raise, Retry, Publish, Restart, tableVars, userVars
    <2> QED  BY <2>1, RollbackKeepsKeys
  <1>3. CASE Commit \/ CommitUnanswered
    <2>1. Apply /\ DOMAIN wk'.own = {} /\ wk'.at # "flush" /\ wk.at = "commit" /\ restore' = restore
      <3>1. CASE Commit
        <4>1. Apply /\ wk'.own = NoRows /\ wk'.at = "publish" /\ wk.at = "commit" /\ restore' = restore
          BY <3>1 DEF Commit, MemoryInv, JobsInv, Shapes
        <4> QED  BY <4>1 DEF NoRows
      <3>2. CASE CommitUnanswered
        <4>1. Apply /\ wk' = Idle /\ wk.at = "commit" /\ restore' = restore
          BY <3>2 DEF CommitUnanswered, Retry
        <4> QED  BY <4>1 DEF Idle, NoRows
      <3> QED  BY <1>3, <3>1, <3>2
    <2> QED  BY <2>1, ApplyKeepsKeys
  <1>4. CASE Summarize
    <2>1. /\ wk'.own = wk.own /\ wk'.at = "commit" /\ wk.at = "select" /\ rows' = rows /\ restore' = restore
      BY <1>4 DEF Summarize, tableVars, userVars, MemoryInv, JobsInv, Shapes
    <2>2. \A r \in Restores : ~(restore[r].at = "read" /\ restore[r].calm)
      BY <2>1 DEF KeysInv, Alone, Working
    <2>3. Named(rows)' /\ Named(wk.own)' /\ (~Mixed => Apart(Ids)')
      BY <2>1 DEF KeysInv, Unmixed, Ids, Named, Apart
    <2> QED  BY <2>1, <2>2, <2>3, RestoresAsTheyWere
  <1>5. CASE User
    <2>1. \/ Edits
          \/ \E r \in Restores : TakeSnapshot(r) \/ RestoreSelect(r) \/ RestoreFails(r) \/ RestoreWrite(r)
      BY <1>5 DEF User, Edits
    <2> QED  BY <2>1, MixedStays, EditsKeepKeys, SnapshotKeepsKeys, RestoreKeepsKeys
  <1>6. CASE wk' = wk /\ rows' = rows /\ restore' = restore
    <2>1. Ids' = Ids /\ (Mixed' <=> Mixed) /\ \A r \in Restores : Alone(r)' <=> Alone(r)
      BY <1>6 DEF Ids, Mixed, Alone
    <2> QED  BY <1>6, <2>1 DEF KeysInv, Unmixed, Named, Apart
  <1>7. CASE Take \/ Crash
    BY <1>7, MixedStays, DisturbedKeepsKeys
  <1> QED  BY <1>1, <1>2, <1>3, <1>4, <1>5, <1>6, <1>7
           DEF Next, Worker, StatementFails, StoreTurn, Enqueue, ClientGone, Age, vars, jobVars, tableVars,
               userVars

(* If nobody renames a memory, no key ever has two rows, unless a job or another
   restore was under way while a restore replaced them: one worker is enough of a
   lock, whatever the user edits or deletes between its statements. *)
THEOREM KeysStayUnique == ASSUME Renames = {} PROVE Spec => []OneRowPerKey
  <1>1. Init => KeysInv
    BY DEF Init, KeysInv, Unmixed, Named, Apart, Alone, Ids, NoRows, Idle, Unstarted
  <1>2. MemoryInv /\ KeysInv /\ [Next]_vars => KeysInv'
    BY KeysStep
  <1>3. KeysInv => OneRowPerKey
    BY DEF KeysInv, Unmixed, Named, Apart, Ids, OneRowPerKey
  <1> QED  BY <1>1, <1>2, <1>3, MemoryAlways, PTL DEF Spec
=============================================================================
