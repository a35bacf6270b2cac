------------------------- MODULE CatalogSeed_proofs -------------------------
(***************************************************************************)
(* Three promises of the seed of the stock catalog, for any number of      *)
(* requests, symbols, endpoints, retries and crashes, and for any answers  *)
(* of the provider.                                                        *)
(***************************************************************************)
EXTENDS CatalogSeed, FiniteSetTheorems, TLAPS

Places == {"new", "recover", "look", "insert", "joined", "refused", "spawn", "started", "gone"}

(* Rows of runs have their columns; what is in them does not matter here. *)
Rows ==
  /\ DOMAIN runs = Requests /\ runs = [r \in Requests |-> runs[r]]
  /\ \A r \in Requests : /\ DOMAIN runs[r] = {"status", "code", "beat"}
                         /\ runs[r] = [f \in {"status", "code", "beat"} |-> runs[r][f]]

(* A task executes a run that was inserted. *)
TasksHaveRuns ==
  /\ DOMAIN task = Requests
  /\ \A r \in Requests : /\ "at" \in DOMAIN task[r]
                         /\ task[r].at # "none" => runs[r].status # "absent"

(* A request that has not inserted its run yet has none; a run that a request
   is to recover exists; and once the request looks again, it is over. *)
SeedInv ==
  /\ Rows /\ TasksHaveRuns
  /\ req \in [Requests -> [at : Places, stale : SUBSET Requests]]
  /\ \A r, s \in Running : r = s
  /\ \A q \in Requests :
       /\ req[q].at \in {"new", "recover", "look", "insert"} => runs[q].status = "absent"
       /\ req[q].at = "spawn" => runs[q].status # "absent"
       /\ \A r \in req[q].stale : runs[r].status # "absent"
       /\ req[q].at = "look" => \A r \in req[q].stale : runs[r].status # "running"

-----------------------------------------------------------------------------
(* Columns of one row are written. *)
LEMMA RowWritten ==
  ASSUME Rows, NEW r \in Requests, NEW status, NEW code, NEW beat,
         \/ runs' = [runs EXCEPT ![r].status = status, ![r].beat = beat, ![r].code = code]
         \/ runs' = [runs EXCEPT ![r].beat = beat] /\ status = runs[r].status
  PROVE  /\ Rows' /\ runs'[r].status = status
         /\ \A s \in Requests \ {r} : runs'[s] = runs[s]
  <1>1. CASE runs' = [runs EXCEPT ![r].status = status, ![r].beat = beat, ![r].code = code]
    BY SMTT(30), <1>1 DEF Rows
  <1>2. CASE runs' = [runs EXCEPT ![r].beat = beat] /\ status = runs[r].status
    BY <1>2 DEF Rows
  <1> QED  BY <1>1, <1>2

(* What a task is and does depends on no request, and no task begins but by
   a request. *)
LEMMA TaskGoesOn ==
  ASSUME TasksHaveRuns, NEW r \in Requests, Execute(r) \/ StatementFails(r)
  PROVE  /\ task[r].at # "none" /\ DOMAIN task' = Requests /\ "at" \in DOMAIN task'[r]
         /\ \A o \in Requests \ {r} : "at" \in DOMAIN task'[o] /\ task'[o].at = task[o].at
         /\ UNCHANGED req
  <1>1. CASE Heartbeat(r)
    BY <1>1 DEF Heartbeat, Goto, TasksHaveRuns
  <1>2. CASE FetchAnswered(r)
    BY ZenonT(30), <1>2 DEF FetchAnswered, Raise, NoTask, TasksHaveRuns
  <1>3. CASE NextEndpoint(r) \/ RetryEndpoint(r) \/ Unauthorized(r)
    BY <1>3 DEF NextEndpoint, RetryEndpoint, Unauthorized, Raise, NoTask, TasksHaveRuns
  <1>4. CASE \E q \in task[r].quotes : Upsert(r, q)
    BY <1>4 DEF Upsert, TasksHaveRuns
  <1>5. CASE SeeRest(r)
    BY <1>5 DEF SeeRest, TasksHaveRuns
  <1>6. CASE CommitCatalog(r)
    BY <1>6 DEF CommitCatalog, NoTask, TasksHaveRuns
  <1>7. CASE DeadlockVictim(r)
    <2>1. WaitsFor(r) # {}
      BY <1>7 DEF DeadlockVictim
    <2>2. task[r].at # "none"
      BY <2>1 DEF WaitsFor
    <2> QED  BY <1>7, <2>2 DEF DeadlockVictim, Raise, NoTask, TasksHaveRuns
  <1>8. CASE ReadRun(r) \/ MarkSucceeded(r) \/ MarkFailed(r)
    BY <1>8 DEF ReadRun, MarkSucceeded, MarkFailed, Goto, TasksHaveRuns
  <1>9. CASE StatementFails(r)
    BY <1>9 DEF StatementFails, Fallible, Raise, Goto, NoTask, TasksHaveRuns
  <1> QED  BY <1>1, <1>2, <1>3, <1>4, <1>5, <1>6, <1>7, <1>8, <1>9 DEF Execute

(* A run that a task writes is there, and the task does not start it again. *)
LEMMA RunGoesOn ==
  ASSUME SeedInv, NEW r \in Requests, Execute(r) \/ StatementFails(r) \/ Age(r)
  PROVE  /\ Rows' /\ \A s \in Requests \ {r} : runs'[s] = runs[s]
         /\ \/ runs'[r].status = runs[r].status
            \/ runs'[r].status \in {"succeeded", "failed"} /\ task[r].at # "none"
  <1>1. CASE Heartbeat(r) \/ Age(r)
    <2>1. PICK status, beat : /\ runs' = [runs EXCEPT ![r].beat = beat]
                              /\ status = runs[r].status
      BY <1>1 DEF Heartbeat, Age
    <2>2. Rows' /\ runs'[r].status = status /\ \A s \in Requests \ {r} : runs'[s] = runs[s]
      BY <2>1, RowWritten DEF SeedInv
    <2> QED  BY <2>1, <2>2
  <1>2. CASE MarkSucceeded(r) \/ MarkFailed(r)
    <2>1. PICK status \in {"succeeded", "failed"} : \E code, beat :
            runs' = [runs EXCEPT ![r].status = status, ![r].beat = beat, ![r].code = code]
      BY <1>2 DEF MarkSucceeded, MarkFailed
    <2>2. PICK code, beat :
            runs' = [runs EXCEPT ![r].status = status, ![r].beat = beat, ![r].code = code]
      BY <2>1
    <2>3. Rows' /\ runs'[r].status = status /\ \A s \in Requests \ {r} : runs'[s] = runs[s]
      BY <2>2, RowWritten DEF SeedInv
    <2>4. task[r].at # "none"
      BY <1>2 DEF MarkSucceeded, MarkFailed
    <2> QED  BY <2>1, <2>3, <2>4
  <1>3. CASE UNCHANGED runs
    BY <1>3 DEF SeedInv, Rows
  <1>4. Heartbeat(r) \/ Age(r) \/ MarkSucceeded(r) \/ MarkFailed(r) \/ UNCHANGED runs
    BY DEF Execute, StatementFails, FetchAnswered, NextEndpoint, RetryEndpoint, Unauthorized, Upsert,
           SeeRest, CommitCatalog, DeadlockVictim, ReadRun
  <1> QED  BY <1>1, <1>2, <1>3, <1>4

LEMMA ExecuteKeepsInv ==
  ASSUME SeedInv, NEW r \in Requests, Execute(r) \/ StatementFails(r)
  PROVE  SeedInv'
  <1>1. /\ task[r].at # "none" /\ DOMAIN task' = Requests /\ "at" \in DOMAIN task'[r]
        /\ \A o \in Requests \ {r} : "at" \in DOMAIN task'[o] /\ task'[o].at = task[o].at
        /\ req' = req
    BY TaskGoesOn DEF SeedInv
  <1>2. /\ Rows' /\ \A s \in Requests \ {r} : runs'[s] = runs[s]
        /\ runs'[r].status = runs[r].status \/ runs'[r].status \in {"succeeded", "failed"}
    BY RunGoesOn
  <1>3. runs[r].status # "absent" /\ runs'[r].status # "absent"
    BY <1>1, <1>2 DEF SeedInv, TasksHaveRuns
  <1>4. TasksHaveRuns'
    BY <1>1, <1>2, <1>3 DEF SeedInv, TasksHaveRuns
  <1>5. Running' \subseteq Running
    BY <1>2 DEF Running
  <1>6. ASSUME NEW q \in Requests
        PROVE  /\ req'[q].at \in {"new", "recover", "look", "insert"} => runs'[q].status = "absent"
               /\ req'[q].at = "spawn" => runs'[q].status # "absent"
               /\ \A s \in req'[q].stale : runs'[s].status # "absent"
               /\ req'[q].at = "look" => \A s \in req'[q].stale : runs'[s].status # "running"
    <2>1. /\ req[q].at \in {"new", "recover", "look", "insert"} => runs[q].status = "absent"
          /\ req[q].at = "spawn" => runs[q].status # "absent"
          /\ \A s \in req[q].stale : runs[s].status # "absent" /\ s \in Requests
          /\ req[q].at = "look" => \A s \in req[q].stale : runs[s].status # "running"
      BY DEF SeedInv
    <2> QED  BY <1>1, <1>2, <1>3, <2>1
  <1> QED  BY <1>1, <1>2, <1>4, <1>5, <1>6 DEF SeedInv

(* A step of the requests. *)
RequestsOK ==
  /\ req \in [Requests -> [at : Places, stale : SUBSET Requests]]
  /\ \A q \in Requests :
       /\ req[q].at \in {"new", "recover", "look", "insert"} => runs[q].status = "absent"
       /\ req[q].at = "spawn" => runs[q].status # "absent"
       /\ \A r \in req[q].stale : runs[r].status # "absent"
       /\ req[q].at = "look" => \A r \in req[q].stale : runs[r].status # "running"

(* A step that leaves the runs alone. *)
LEMMA QuietRuns ==
  ASSUME SeedInv, runs' = runs
  PROVE  Rows' /\ Running' = Running
  <1>1. Rows'
    BY DEF SeedInv, Rows
  <1>2. Running' = Running
    BY DEF Running
  <1> QED  BY <1>1, <1>2

LEMMA QuietTasks ==
  ASSUME SeedInv, runs' = runs, task' = task
  PROVE  TasksHaveRuns'
  BY DEF SeedInv, TasksHaveRuns

LEMMA FindStaleKeepsInv ==
  ASSUME SeedInv, NEW q \in Requests, FindStale(q)
  PROVE  SeedInv'
  <1> DEFINE late == {r \in Running : runs[r].beat = "old"}
  <1>1. PICK stale \in SUBSET Requests : stale = late
    BY DEF Running
  <1>2. PICK p \in {"look", "recover"} :
          /\ req' = [req EXCEPT ![q] = [at |-> p, stale |-> stale]]
          /\ p = "look" => stale = {}
    BY <1>1 DEF FindStale
  <1>3. /\ req' \in [Requests -> [at : Places, stale : SUBSET Requests]]
        /\ req'[q].at = p /\ req'[q].stale = stale
        /\ \A o \in Requests \ {q} : req'[o] = req[o]
    <2>1. p \in Places
      BY DEF Places
    <2>2. req \in [Requests -> [at : Places, stale : SUBSET Requests]]
      BY DEF SeedInv
    <2> QED  BY <1>2, <2>1, <2>2
  <1>4. \A r \in stale : runs[r].status # "absent"
    BY <1>1 DEF Running
  <1>5. runs' = runs /\ task' = task /\ req[q].at = "new"
    BY DEF FindStale
  <1>6. RequestsOK'
    BY <1>2, <1>3, <1>4, <1>5 DEF SeedInv, RequestsOK
  <1> QED  BY <1>5, <1>6, QuietRuns, QuietTasks DEF SeedInv, RequestsOK

LEMMA RecoverKeepsInv ==
  ASSUME SeedInv, NEW q \in Requests, Recover(q)
  PROVE  SeedInv'
  <1>1. /\ runs' = [r \in Requests |->
                      IF r \in req[q].stale
                      THEN [runs[r] EXCEPT !.status = "failed", !.code = "stale_run_recovered"]
                      ELSE runs[r]]
        /\ req' = [req EXCEPT ![q].at = "look"] /\ req[q].at = "recover" /\ task' = task
    BY DEF Recover
  <1>2. PICK stale \in SUBSET Requests : stale = req[q].stale
    BY DEF SeedInv
  <1>3. /\ req' \in [Requests -> [at : Places, stale : SUBSET Requests]]
        /\ req'[q].at = "look" /\ req'[q].stale = stale
        /\ \A o \in Requests \ {q} : req'[o] = req[o]
    <2>1. "look" \in Places
      BY DEF Places
    <2>2. req \in [Requests -> [at : Places, stale : SUBSET Requests]]
      BY DEF SeedInv
    <2> QED  BY <1>1, <1>2, <2>1, <2>2
  <1>4. ASSUME NEW r \in Requests
        PROVE  /\ r \in stale => runs'[r].status = "failed" /\ runs[r].status # "absent"
               /\ r \notin stale => runs'[r] = runs[r]
               /\ DOMAIN runs'[r] = {"status", "code", "beat"}
               /\ runs'[r] = [f \in {"status", "code", "beat"} |-> runs'[r][f]]
    BY ZenonT(30), <1>1, <1>2 DEF SeedInv, Rows
  <1>5. Rows'
    BY <1>1, <1>4 DEF Rows
  <1>6. TasksHaveRuns'
    <2>1. TasksHaveRuns
      BY DEF SeedInv
    <2>2. \A r \in Requests : runs[r].status # "absent" => runs'[r].status # "absent"
      BY <1>4
    <2>3. task' = task
      BY <1>1
    <2> QED  BY <2>1, <2>2, <2>3, Zenon DEF TasksHaveRuns
  <1>7. Running' \subseteq Running
    BY <1>4 DEF Running
  <1>8. ASSUME NEW o \in Requests
        PROVE  /\ req'[o].at \in {"new", "recover", "look", "insert"} => runs'[o].status = "absent"
               /\ req'[o].at = "spawn" => runs'[o].status # "absent"
               /\ \A r \in req'[o].stale : runs'[r].status # "absent"
               /\ req'[o].at = "look" => \A r \in req'[o].stale : runs'[r].status # "running"
    <2>1. \A r \in Requests : /\ runs[r].status = "absent" <=> runs'[r].status = "absent"
                              /\ runs'[r].status = "running" => runs[r].status = "running"
      BY <1>4
    <2>2. CASE o = q
      BY <1>1, <1>3, <1>4, <2>1, <2>2 DEF SeedInv
    <2>3. CASE o # q
      BY <1>3, <2>1, <2>3 DEF SeedInv
    <2> QED  BY <2>2, <2>3
  <1> QED  BY <1>3, <1>5, <1>6, <1>7, <1>8 DEF SeedInv

LEMMA LookKeepsInv ==
  ASSUME SeedInv, NEW q \in Requests, Look(q)
  PROVE  SeedInv'
  <1>1. PICK p \in {"insert", "joined"} : req' = [req EXCEPT ![q].at = p]
    BY DEF Look
  <1>2. PICK stale \in SUBSET Requests : stale = req[q].stale
    BY DEF SeedInv
  <1>3. /\ req' \in [Requests -> [at : Places, stale : SUBSET Requests]]
        /\ req'[q].at = p /\ req'[q].stale = stale
        /\ \A o \in Requests \ {q} : req'[o] = req[o]
    <2>1. p \in Places
      BY DEF Places
    <2>2. req \in [Requests -> [at : Places, stale : SUBSET Requests]]
      BY DEF SeedInv
    <2> QED  BY <1>1, <1>2, <2>1, <2>2
  <1>4. runs' = runs /\ task' = task /\ req[q].at = "look"
    BY DEF Look
  <1>5. RequestsOK'
    BY <1>2, <1>3, <1>4 DEF SeedInv, RequestsOK
  <1> QED  BY <1>4, <1>5, QuietRuns, QuietTasks DEF SeedInv, RequestsOK

(* The unique index on "running" is what keeps a second run out. *)
LEMMA InsertKeepsInv ==
  ASSUME SeedInv, NEW q \in Requests, Insert(q)
  PROVE  SeedInv'
  <1>1. PICK stale \in SUBSET Requests : stale = req[q].stale
    BY DEF SeedInv
  <1>2. req[q].at = "insert" /\ runs[q].status = "absent" /\ task' = task
    BY DEF Insert, SeedInv
  <1>3. CASE Singleton
    <2>1. req' = [req EXCEPT ![q].at = "refused"] /\ runs' = runs
      BY <1>3 DEF Insert
    <2>2. /\ req' \in [Requests -> [at : Places, stale : SUBSET Requests]]
          /\ req'[q].at = "refused" /\ req'[q].stale = stale
          /\ \A o \in Requests \ {q} : req'[o] = req[o]
      <3>1. "refused" \in Places
        BY DEF Places
      <3>2. req \in [Requests -> [at : Places, stale : SUBSET Requests]]
        BY DEF SeedInv
      <3> QED  BY <1>1, <2>1, <3>1, <3>2
    <2>3. RequestsOK'
      BY <1>1, <2>1, <2>2 DEF SeedInv, RequestsOK
    <2> QED  BY <1>2, <2>1, <2>3, QuietRuns, QuietTasks DEF SeedInv, RequestsOK
  <1>4. CASE ~Singleton
    <2>1. /\ req' = [req EXCEPT ![q].at = "spawn"] /\ Running = {}
          /\ runs' = [runs EXCEPT ![q] = [status |-> "running", code |-> "none", beat |-> "fresh"]]
      BY <1>4 DEF Insert, Singleton, NoRun
    <2>2. /\ req' \in [Requests -> [at : Places, stale : SUBSET Requests]]
          /\ req'[q].at = "spawn" /\ req'[q].stale = stale
          /\ \A o \in Requests \ {q} : req'[o] = req[o]
      <3>1. "spawn" \in Places
        BY DEF Places
      <3>2. req \in [Requests -> [at : Places, stale : SUBSET Requests]]
        BY DEF SeedInv
      <3> QED  BY <1>1, <2>1, <3>1, <3>2
    <2>3. Rows' /\ runs'[q].status = "running" /\ \A r \in Requests \ {q} : runs'[r] = runs[r]
      BY <2>1 DEF SeedInv, Rows
    <2>4. Running' = {q}
      BY <2>1, <2>3 DEF Running
    <2>5. TasksHaveRuns'
      BY <1>2, <2>3 DEF SeedInv, TasksHaveRuns
    <2>6. RequestsOK'
      <3>1. \A o \in Requests : \A r \in req[o].stale : r \in Requests /\ r # q
        BY <1>2 DEF SeedInv
      <3> QED  BY <1>1, <2>2, <2>3, <3>1 DEF SeedInv, RequestsOK
    <2> QED  BY <2>3, <2>4, <2>5, <2>6 DEF SeedInv, RequestsOK
  <1> QED  BY <1>3, <1>4

LEMMA SpawnKeepsInv ==
  ASSUME SeedInv, NEW q \in Requests, Spawn(q)
  PROVE  SeedInv'
  <1>1. /\ req' = [req EXCEPT ![q].at = "started"] /\ runs' = runs /\ req[q].at = "spawn"
        /\ task' = [task EXCEPT ![q] = [NoTask EXCEPT !.at = "beat1"]]
    BY DEF Spawn
  <1>2. PICK stale \in SUBSET Requests : stale = req[q].stale
    BY DEF SeedInv
  <1>3. /\ req' \in [Requests -> [at : Places, stale : SUBSET Requests]]
        /\ req'[q].at = "started" /\ req'[q].stale = stale
        /\ \A o \in Requests \ {q} : req'[o] = req[o]
    <2>1. "started" \in Places
      BY DEF Places
    <2>2. req \in [Requests -> [at : Places, stale : SUBSET Requests]]
      BY DEF SeedInv
    <2> QED  BY <1>1, <1>2, <2>1, <2>2
  <1>4. RequestsOK'
    BY <1>1, <1>2, <1>3 DEF SeedInv, RequestsOK
  <1>5. TasksHaveRuns'
    BY <1>1 DEF SeedInv, TasksHaveRuns, NoTask
  <1> QED  BY <1>1, <1>4, <1>5, QuietRuns DEF SeedInv, RequestsOK

LEMMA AgeKeepsInv ==
  ASSUME SeedInv, NEW r \in Requests, Age(r)
  PROVE  SeedInv'
  <1>1. /\ Rows' /\ \A s \in Requests : runs'[s].status = runs[s].status
        /\ req' = req /\ task' = task
    <2>1. PICK status : status = runs[r].status
      OBVIOUS
    <2>2. runs' = [runs EXCEPT ![r].beat = "old"]
      BY DEF Age
    <2>3. Rows' /\ runs'[r].status = status /\ \A s \in Requests \ {r} : runs'[s] = runs[s]
      BY <2>1, <2>2, RowWritten DEF SeedInv
    <2> QED  BY <2>1, <2>3 DEF Age
  <1>2. Running' = Running
    BY <1>1 DEF Running
  <1>3. TasksHaveRuns'
    BY <1>1 DEF SeedInv, TasksHaveRuns
  <1>4. RequestsOK'
    BY <1>1 DEF SeedInv, RequestsOK
  <1> QED  BY <1>1, <1>2, <1>3, <1>4 DEF SeedInv, RequestsOK

LEMMA CrashKeepsInv ==
  ASSUME SeedInv, Crash
  PROVE  SeedInv'
  <1>1. /\ req' = [q \in Requests |-> IF req[q].at = "new" THEN req[q]
                                     ELSE [at |-> "gone", stale |-> {}]]
        /\ task' = [r \in Requests |-> IF task[r].at = "none" THEN task[r]
                                      ELSE [NoTask EXCEPT !.at = "dead"]]
        /\ runs' = runs
    <2>1. [NoRequest EXCEPT !.at = "gone"] = [at |-> "gone", stale |-> {}]
      BY DEF NoRequest
    <2> QED  BY <2>1 DEF Crash
  <1>2. TasksHaveRuns'
    BY <1>1 DEF SeedInv, TasksHaveRuns, NoTask
  <1>3. RequestsOK'
    BY <1>1 DEF SeedInv, RequestsOK, Places
  <1> QED  BY <1>1, <1>2, <1>3, QuietRuns DEF SeedInv, RequestsOK

-----------------------------------------------------------------------------
LEMMA SeedInit == Init => SeedInv
  BY DEF Init, NoRun, NoRequest, NoTask, SeedInv, Rows, TasksHaveRuns, Running, Places

LEMMA SeedStep == SeedInv /\ [Next]_vars => SeedInv'
  <1> SUFFICES ASSUME SeedInv, [Next]_vars PROVE SeedInv'
    OBVIOUS
  <1>1. CASE \E q \in Requests : Start(q)
    BY <1>1, FindStaleKeepsInv, RecoverKeepsInv, LookKeepsInv, InsertKeepsInv, SpawnKeepsInv DEF Start
  <1>2. CASE \E q \in Requests : Execute(q) \/ StatementFails(q)
    BY <1>2, ExecuteKeepsInv
  <1>3. CASE \E q \in Requests : Age(q)
    BY <1>3, AgeKeepsInv
  <1>4. CASE Crash
    BY <1>4, CrashKeepsInv
  <1>5. CASE UNCHANGED vars
    BY <1>5 DEF vars, SeedInv, Rows, TasksHaveRuns, Running
  <1> QED  BY <1>1, <1>2, <1>3, <1>4, <1>5 DEF Next

(* However many requests, recoveries and tasks of earlier runs overlap, there
   is one running run at the most. *)
THEOREM OneRunAtATime == Spec => []SingleRun
  <1>1. SeedInv => SingleRun
    <2> SUFFICES ASSUME SeedInv PROVE Cardinality(Running) <= 1
      BY DEF SingleRun
    <2>1. CASE Running = {}
      BY <2>1, FS_EmptySet
    <2>2. CASE Running # {}
      <3>1. PICK r \in Running : Running = {r}
        BY <2>2 DEF SeedInv
      <3>2. Cardinality({r}) = 1
        BY FS_Singleton
      <3> QED  BY <3>1, <3>2
    <2> QED  BY <2>1, <2>2
  <1> QED  BY <1>1, SeedInit, SeedStep, PTL DEF Spec

(* A request that joins a run joins none that it has found to be late: what it
   found is over by then, and stays over. *)
LEMMA JoinedIsNotStale ==
  ASSUME SeedInv, NEW q \in Requests, req[q].at = "look"
  PROVE  Running \cap req[q].stale = {}
  BY DEF SeedInv, Running

THEOREM StaleRunsAreNotJoined == Spec => JoinsNoStaleRun
  <1>1. SeedInv /\ [Next]_vars =>
          [\A q \in Requests : req[q].at = "look" /\ req'[q].at = "joined" =>
             Running \cap req[q].stale = {}]_vars
    BY JoinedIsNotStale
  <1> QED  BY <1>1, SeedInit, SeedStep, PTL DEF Spec, JoinsNoStaleRun
-----------------------------------------------------------------------------
(* The selection: the eligible rows of the provider are in one order, by market
   capitalisation and then by symbol, and a rank is a place in it. *)
Firsts(S) == {q[1] : q \in S}
Ranked(quotes, n) == {q \in quotes : RankOf(quotes, q) <= n}

Selection(quotes) ==
  /\ quotes \subseteq Symbols \X Nat /\ IsFiniteSet(quotes)
  /\ \A p, q \in quotes : p[1] = q[1] => p = q

LEMMA PairIsTyped ==
  ASSUME NEW S, NEW T, NEW q \in S \X T
  PROVE  q[1] \in S /\ q[2] \in T /\ q = <<q[1], q[2]>>
  OBVIOUS

LEMMA SelectionIsTyped ==
  ASSUME NEW quotes, Selection(quotes), NEW q \in quotes
  PROVE  q[1] \in Symbols /\ q[1] \in Nat /\ q[2] \in Nat /\ q = <<q[1], q[2]>>
  <1>1. q \in Symbols \X Nat
    BY DEF Selection
  <1>2. q[1] \in Symbols /\ q[2] \in Nat /\ q = <<q[1], q[2]>>
    BY <1>1, PairIsTyped
  <1> QED  BY <1>2, SeedAssumption

(* Of several rows of a symbol, one is eligible. *)
LEMMA EligibleIsSelection ==
  ASSUME NEW m \in Markets
  PROVE  Selection(Eligible(m))
  <1>1. m.quotes \subseteq Symbols \X Nat
    BY SeedAssumption DEF Market
  <1>2. Eligible(m) \subseteq Symbols \X Nat
    BY <1>1 DEF Eligible
  <1>3. ASSUME NEW p \in Eligible(m), NEW q \in Eligible(m), p[1] = q[1]
        PROVE  p = q
    <2>1. /\ p[2] \in Nat /\ q[2] \in Nat /\ p = <<p[1], p[2]>> /\ q = <<q[1], q[2]>>
      BY <1>2
    <2>2. p[2] <= q[2] /\ q[2] <= p[2]
      BY <1>3 DEF Eligible
    <2> QED  BY <1>3, <2>1, <2>2
  <1>4. IsFiniteSet(Eligible(m))
    <2>1. PICK f : f = [q \in Eligible(m) |-> q[1]]
      OBVIOUS
    <2>2. f \in [Eligible(m) -> Symbols]
      BY <1>2, <2>1
    <2>3. \A p, q \in Eligible(m) : f[p] = f[q] => p = q
      BY <1>3, <2>1
    <2>4. f \in Injection(Eligible(m), Symbols)
      BY <2>2, <2>3 DEF Injection, IsInjective
    <2> QED  BY <2>4, FS_Injection, SeedAssumption
  <1> QED  BY <1>2, <1>3, <1>4 DEF Selection

LEMMA BeforeIsOrder ==
  ASSUME NEW quotes, Selection(quotes), NEW p \in quotes, NEW q \in quotes
  PROVE  /\ ~Before(p, p)
         /\ Before(p, q) => ~Before(q, p)
         /\ p # q => Before(p, q) \/ Before(q, p)
         /\ \A o \in quotes : Before(o, p) /\ Before(p, q) => Before(o, q)
  <1>1. \A o \in quotes : o[1] \in Nat /\ o[2] \in Nat
    BY SelectionIsTyped
  <1>2. p # q => p[1] # q[1]
    BY DEF Selection
  <1> QED  BY <1>1, <1>2 DEF Before

LEMMA RankIsPlace ==
  ASSUME NEW quotes, Selection(quotes), NEW p \in quotes, NEW q \in quotes
  PROVE  /\ RankOf(quotes, p) \in Nat \ {0}
         /\ Before(p, q) => RankOf(quotes, p) < RankOf(quotes, q)
  <1> DEFINE Ahead(x) == {o \in quotes : Before(o, x)}
  <1>1. ASSUME NEW x \in quotes
        PROVE  IsFiniteSet(Ahead(x)) /\ Cardinality(Ahead(x)) \in Nat
    BY FS_Subset, FS_CardinalityType DEF Selection
  <1>2. RankOf(quotes, p) = 1 + Cardinality(Ahead(p)) /\ RankOf(quotes, q) = 1 + Cardinality(Ahead(q))
    BY DEF RankOf
  <1>3. ASSUME Before(p, q) PROVE Cardinality(Ahead(p)) < Cardinality(Ahead(q))
    <2>1. p \notin Ahead(p) /\ Ahead(p) \cup {p} \subseteq Ahead(q)
      BY <1>3, BeforeIsOrder
    <2>2. Cardinality(Ahead(p) \cup {p}) = Cardinality(Ahead(p)) + 1
      BY <1>1, <2>1, FS_AddElement
    <2>3. Cardinality(Ahead(p) \cup {p}) <= Cardinality(Ahead(q))
      BY <1>1, <2>1, FS_Subset
    <2>4. Cardinality(Ahead(p)) \in Nat /\ Cardinality(Ahead(q)) \in Nat
      BY <1>1
    <2> HIDE DEF Ahead
    <2> QED  BY <2>2, <2>3, <2>4
  <1>4. Cardinality(Ahead(p)) \in Nat /\ Cardinality(Ahead(q)) \in Nat
    BY <1>1
  <1> HIDE DEF Ahead
  <1> QED  BY <1>2, <1>3, <1>4

LEMMA RankIsOrder ==
  ASSUME NEW quotes, Selection(quotes), NEW p \in quotes, NEW q \in quotes
  PROVE  /\ RankOf(quotes, p) < RankOf(quotes, q) => Before(p, q)
         /\ RankOf(quotes, p) = RankOf(quotes, q) => p = q
  <1>1. RankOf(quotes, p) \in Nat /\ RankOf(quotes, q) \in Nat
    BY RankIsPlace
  <1>2. /\ Before(p, q) => RankOf(quotes, p) < RankOf(quotes, q)
        /\ Before(q, p) => RankOf(quotes, q) < RankOf(quotes, p)
    BY RankIsPlace
  <1>3. p # q => Before(p, q) \/ Before(q, p)
    BY BeforeIsOrder
  <1> QED  BY <1>1, <1>2, <1>3

(* As many as are wanted have the ranks from the first to the last. *)
LEMMA RanksAreAll ==
  ASSUME NEW quotes, Selection(quotes), Cardinality(Top(quotes)) = Target
  PROVE  {RankOf(quotes, q) : q \in Top(quotes)} = 1..Target
  <1>1. Top(quotes) \subseteq quotes
    BY DEF Top
  <1>2. PICK f : f = [q \in Top(quotes) |-> RankOf(quotes, q)]
    OBVIOUS
  <1>3. \A q \in Top(quotes) : f[q] \in 1..Target
    BY <1>1, <1>2, RankIsPlace, SeedAssumption DEF Top
  <1>4. \A p, q \in Top(quotes) : f[p] = f[q] => p = q
    BY <1>1, <1>2, RankIsOrder
  <1>5. f \in Injection(Top(quotes), 1..Target)
    BY <1>2, <1>3, <1>4 DEF Injection, IsInjective
  <1>6. IsFiniteSet(1..Target) /\ Cardinality(1..Target) = Target
    BY FS_Interval, SeedAssumption
  <1>7. f \in Surjection(Top(quotes), 1..Target)
    BY <1>5, <1>6, FS_Injection
  <1> QED  BY <1>2, <1>3, <1>7 DEF Surjection

LEMMA FirstsAreAsMany ==
  ASSUME NEW quotes, Selection(quotes), NEW S \in SUBSET quotes
  PROVE  /\ IsFiniteSet(Firsts(S)) /\ Cardinality(Firsts(S)) = Cardinality(S)
         /\ \A q \in quotes : q[1] \in Firsts(S) <=> q \in S
  <1>1. \A p, q \in quotes : p[1] = q[1] => p = q
    BY DEF Selection
  <1>2. PICK f : f = [q \in S |-> q[1]]
    OBVIOUS
  <1>3. f \in Bijection(S, Firsts(S))
    BY <1>1, <1>2 DEF Bijection, Injection, IsInjective, Surjection, Firsts
  <1>4. IsFiniteSet(S)
    BY FS_Subset DEF Selection
  <1>5. ExistsBijection(S, Firsts(S))
    BY <1>3 DEF ExistsBijection
  <1> QED  BY <1>1, <1>4, <1>5, FS_Bijection DEF Firsts

(* The rows are taken by rank. *)
LEMMA NextOfRank ==
  ASSUME NEW quotes, Selection(quotes), NEW n \in Nat, NEW q \in quotes,
         RankOf(quotes, q) = n + 1
  PROVE  /\ q[1] \notin Firsts(Ranked(quotes, n))
         /\ Firsts(Ranked(quotes, n)) \cup {q[1]} = Firsts(Ranked(quotes, n + 1))
         /\ Cardinality(Firsts(Ranked(quotes, n + 1))) = Cardinality(Firsts(Ranked(quotes, n))) + 1
  <1>1. Ranked(quotes, n) \subseteq quotes /\ \A p \in quotes : RankOf(quotes, p) \in Nat
    BY RankIsPlace DEF Ranked
  <1>2. q \notin Ranked(quotes, n)
    BY <1>1 DEF Ranked
  <1>3. Ranked(quotes, n + 1) = Ranked(quotes, n) \cup {q}
    <2>1. \A p \in quotes : RankOf(quotes, p) = n + 1 => p = q
      BY RankIsOrder
    <2> QED  BY <1>1, <2>1 DEF Ranked
  <1>4. Firsts(Ranked(quotes, n + 1)) = Firsts(Ranked(quotes, n)) \cup {q[1]}
    BY <1>3 DEF Firsts
  <1>5. q[1] \notin Firsts(Ranked(quotes, n)) /\ IsFiniteSet(Firsts(Ranked(quotes, n)))
    BY <1>1, <1>2, FirstsAreAsMany
  <1> QED  BY <1>4, <1>5, FS_AddElement

-----------------------------------------------------------------------------
(* What a task has upserted are the first of its selection, and what it will
   take out are all others there are, unless another run has committed. *)
IsTask(t) ==
  t \in [at : {t.at}, call : {t.call}, endpoint : {t.endpoint}, attempt : {t.attempt},
         quotes : {t.quotes}, own : {t.own}, others : {t.others}, code : {t.code},
         alone : BOOLEAN]

Selected(quotes) == Selection(quotes) /\ Cardinality(Top(quotes)) = Target

TaskOK(t) ==
  /\ IsTask(t)
  /\ t.at \in {"beat2", "upsert", "rest", "commit"} => Selected(t.quotes)
  /\ t.at = "beat2" => t.own = {}
  /\ t.at = "upsert" =>
       \E n \in 0..Target - 1 : Cardinality(t.own) = n /\ t.own = Firsts(Ranked(t.quotes, n))
  /\ t.at \in {"rest", "commit"} => t.own = Firsts(Top(t.quotes))
  /\ t.at = "commit" /\ t.alone => t.others = {s \in Symbols : Exists(s)} \ t.own

(* A stock that no run has written has no rank. *)
CatalogOK ==
  /\ catalog \in [Symbols -> [run : SUBSET Requests, rank : Nat, cap : Nat]]
  /\ \A s \in Symbols : catalog[s].run = {} => catalog[s].rank = 0

SelectInv ==
  /\ CatalogOK
  /\ DOMAIN task = Requests /\ task = [r \in Requests |-> task[r]]
  /\ \A r \in Requests : TaskOK(task[r])

LEMMA TaskWritten ==
  ASSUME SelectInv, NEW r \in Requests, NEW t, TaskOK(t), task' = [task EXCEPT ![r] = t],
         UNCHANGED catalog
  PROVE  SelectInv'
  <1>1. CatalogOK'
    BY DEF SelectInv, CatalogOK
  <1>2. \A o \in Requests : task'[o] = IF o = r THEN t ELSE task[o]
    BY DEF SelectInv
  <1>3. DOMAIN task' = Requests /\ task' = [o \in Requests |-> task'[o]]
    BY <1>2 DEF SelectInv
  <1>4. \A o \in Requests : TaskOK(task'[o])
    BY <1>2 DEF SelectInv
  <1>5. \A o \in Requests : TaskOK(task[o])'
    BY <1>4 DEF TaskOK, Exists
  <1> QED  BY <1>1, <1>3, <1>5 DEF SelectInv

LEMMA IdleTaskOK ==
  ASSUME NEW t, IsTask(t), t.at \notin {"beat2", "upsert", "rest", "commit"}
  PROVE  TaskOK(t)
  BY DEF TaskOK

LEMMA NewTask ==
  ASSUME NEW at, NEW code, NEW t, t = [NoTask EXCEPT !.at = at, !.code = code]
  PROVE  IsTask(t) /\ t.at = at /\ t.own = {}
  BY DEF IsTask, NoTask

LEMMA RaiseKeepsSelect ==
  ASSUME SelectInv, NEW r \in Requests, NEW code, Raise(r, code), UNCHANGED catalog
  PROVE  SelectInv'
  <1>1. PICK t : t = [NoTask EXCEPT !.at = "failing", !.code = code]
    OBVIOUS
  <1>2. IsTask(t) /\ t.at = "failing"
    BY <1>1, NewTask
  <1>3. TaskOK(t)
    BY <1>2, IdleTaskOK
  <1> QED  BY <1>1, <1>3, TaskWritten DEF Raise

LEMMA GotoKeepsSelect ==
  ASSUME SelectInv, NEW r \in Requests, NEW at, Goto(r, at), UNCHANGED catalog,
         at \notin {"beat2", "upsert", "rest", "commit"}
  PROVE  SelectInv'
  <1>1. PICK t : t = [task[r] EXCEPT !.at = at]
    OBVIOUS
  <1>2. IsTask(task[r]) /\ task' = [task EXCEPT ![r] = t]
    BY <1>1 DEF SelectInv, TaskOK, Goto
  <1>3. IsTask(t) /\ t.at = at
    BY <1>1, <1>2 DEF IsTask
  <1> QED  BY <1>2, <1>3, IdleTaskOK, TaskWritten

LEMMA HeartbeatKeepsSelect ==
  ASSUME SelectInv, NEW r \in Requests, Heartbeat(r)
  PROVE  SelectInv'
  <1>1. CASE task[r].at # "beat2"
    <2>1. PICK at \in {"fetch", "mark"} : Goto(r, at)
      BY <1>1 DEF Heartbeat
    <2> QED  BY <2>1, GotoKeepsSelect DEF Heartbeat
  <1>2. CASE task[r].at = "beat2"
    <2>1. PICK t : t = [task[r] EXCEPT !.at = "upsert"]
      OBVIOUS
    <2>2. IsTask(task[r]) /\ Selected(task[r].quotes) /\ task[r].own = {}
      BY <1>2 DEF SelectInv, TaskOK
    <2>3. IsTask(t) /\ t.at = "upsert" /\ t.quotes = task[r].quotes /\ t.own = {}
      BY <2>1, <2>2 DEF IsTask
    <2>4. Ranked(t.quotes, 0) = {}
      BY <2>2, <2>3, RankIsPlace DEF Ranked, Selected
    <2>5. Cardinality(t.own) = 0 /\ t.own = Firsts(Ranked(t.quotes, 0)) /\ 0 \in 0..Target - 1
      BY <2>3, <2>4, FS_EmptySet, SeedAssumption DEF Firsts
    <2>6. TaskOK(t)
      BY <2>2, <2>3, <2>5 DEF TaskOK
    <2>7. task' = [task EXCEPT ![r] = t]
      BY <1>2, <2>1 DEF Heartbeat, Goto
    <2> QED  BY <2>6, <2>7, TaskWritten DEF Heartbeat
  <1> QED  BY <1>1, <1>2

LEMMA FetchKeepsSelect ==
  ASSUME SelectInv, NEW r \in Requests,
         FetchAnswered(r) \/ NextEndpoint(r) \/ RetryEndpoint(r) \/ Unauthorized(r)
  PROVE  SelectInv'
  <1>1. task[r].at = "fetch" /\ UNCHANGED catalog /\ IsTask(task[r])
    BY DEF SelectInv, TaskOK, FetchAnswered, NextEndpoint, RetryEndpoint, Unauthorized
  (* Another call: the task stays where it is. *)
  <1>2. ASSUME NEW call, NEW endpoint, NEW attempt, NEW t,
               t = [task[r] EXCEPT !.call = call, !.endpoint = endpoint, !.attempt = attempt],
               task' = [task EXCEPT ![r] = t]
        PROVE  SelectInv'
    <2>1. IsTask(t) /\ t.at = "fetch"
      BY <1>1, <1>2 DEF IsTask
    <2> QED  BY <1>1, <1>2, <2>1, IdleTaskOK, TaskWritten
  <1>3. ASSUME NEW m \in Markets, Cardinality(Top(Eligible(m))) = Target,
               task' = [task EXCEPT ![r] = [NoTask EXCEPT !.at = "beat2", !.quotes = Eligible(m)]]
        PROVE  SelectInv'
    <2>1. PICK quotes : quotes = Eligible(m)
      OBVIOUS
    <2>2. PICK t : t = [NoTask EXCEPT !.at = "beat2", !.quotes = quotes]
      OBVIOUS
    <2>3. IsTask(t) /\ t.at = "beat2" /\ t.quotes = quotes /\ t.own = {}
      BY <2>2 DEF IsTask, NoTask
    <2>4. Selected(quotes)
      BY <1>3, <2>1, EligibleIsSelection DEF Selected
    <2>5. TaskOK(t)
      BY <2>3, <2>4 DEF TaskOK
    <2> QED  BY <1>1, <1>3, <2>1, <2>2, <2>5, TaskWritten
  <1>4. CASE \E code : Raise(r, code)
    BY <1>1, <1>4, RaiseKeepsSelect
  <1>5. CASE task' = [task EXCEPT ![r].call = 2, ![r].endpoint = 1, ![r].attempt = 1]
    <2>1. PICK t : t = [task[r] EXCEPT !.call = 2, !.endpoint = 1, !.attempt = 1]
      OBVIOUS
    <2>2. task' = [task EXCEPT ![r] = t]
      BY <1>5, <2>1 DEF SelectInv
    <2> QED  BY <1>2, <2>1, <2>2
  <1>6. CASE task' = [task EXCEPT ![r].endpoint = @ + 1, ![r].attempt = 1]
    <2>1. PICK call, endpoint : call = task[r].call /\ endpoint = task[r].endpoint + 1
      OBVIOUS
    <2>2. PICK t : t = [task[r] EXCEPT !.call = call, !.endpoint = endpoint, !.attempt = 1]
      OBVIOUS
    <2>3. t = [task[r] EXCEPT !.endpoint = endpoint, !.attempt = 1]
      BY <1>1, <2>1, <2>2 DEF IsTask
    <2>4. task' = [task EXCEPT ![r] = t]
      BY <1>6, <2>1, <2>3 DEF SelectInv
    <2> QED  BY <1>2, <2>2, <2>4
  <1>7. CASE task' = [task EXCEPT ![r].attempt = @ + 1]
    <2>1. PICK attempt : attempt = task[r].attempt + 1
      OBVIOUS
    <2>2. PICK t : t = [task[r] EXCEPT !.attempt = attempt]
      OBVIOUS
    <2>3. IsTask(t) /\ t.at = "fetch"
      BY <1>1, <2>2 DEF IsTask
    <2>4. task' = [task EXCEPT ![r] = t]
      BY <1>7, <2>1, <2>2 DEF SelectInv
    <2> QED  BY <1>1, <2>3, <2>4, IdleTaskOK, TaskWritten
  <1> QED
    BY <1>3, <1>4, <1>5, <1>6, <1>7 DEF FetchAnswered, NextEndpoint, RetryEndpoint, Unauthorized

LEMMA UpsertKeepsSelect ==
  ASSUME SelectInv, NEW r \in Requests, NEW q \in task[r].quotes, Upsert(r, q)
  PROVE  SelectInv'
  <1>1. /\ IsTask(task[r]) /\ Selected(task[r].quotes) /\ task[r].at = "upsert"
        /\ UNCHANGED catalog
    BY DEF SelectInv, TaskOK, Upsert
  <1>2. PICK n \in 0..Target - 1 :
          Cardinality(task[r].own) = n /\ task[r].own = Firsts(Ranked(task[r].quotes, n))
    BY <1>1 DEF SelectInv, TaskOK
  <1>3. PICK quotes, own : quotes = task[r].quotes /\ own = task[r].own \cup {q[1]}
    OBVIOUS
  <1>4. PICK at : at = IF n + 1 = Target THEN "rest" ELSE "upsert"
    OBVIOUS
  <1>5. PICK t : t = [task[r] EXCEPT !.own = own, !.at = at]
    OBVIOUS
  <1>6. task' = [task EXCEPT ![r] = t]
    BY <1>1, <1>2, <1>3, <1>4, <1>5 DEF SelectInv, Upsert
  <1>7. IsTask(t) /\ t.at = at /\ t.quotes = quotes /\ t.own = own
    BY <1>1, <1>3, <1>5 DEF IsTask
  <1>8. Target \in Nat \ {0} /\ n \in Nat /\ n + 1 \in Nat
    BY SeedAssumption
  <1>9. own = Firsts(Ranked(quotes, n + 1)) /\ Cardinality(own) = n + 1
    <2>1. RankOf(quotes, q) = n + 1 /\ q \in quotes /\ Selection(quotes)
      BY <1>1, <1>2, <1>3 DEF Upsert, Selected
    <2>2. /\ Firsts(Ranked(quotes, n)) \cup {q[1]} = Firsts(Ranked(quotes, n + 1))
          /\ Cardinality(Firsts(Ranked(quotes, n + 1)))
               = Cardinality(Firsts(Ranked(quotes, n))) + 1
      BY <1>8, <2>1, NextOfRank
    <2>3. Cardinality(Firsts(Ranked(quotes, n))) = n /\ own = Firsts(Ranked(quotes, n)) \cup {q[1]}
      BY <1>2, <1>3
    <2> QED  BY <2>2, <2>3
  <1>10. CASE n + 1 = Target
    <2>1. own = Firsts(Top(quotes))
      BY <1>9, <1>10 DEF Ranked, Top
    <2>2. TaskOK(t)
      BY <1>1, <1>3, <1>4, <1>7, <1>10, <2>1 DEF TaskOK
    <2> QED  BY <1>1, <1>6, <2>2, TaskWritten
  <1>11. CASE n + 1 # Target
    <2>1. n + 1 \in 0..Target - 1
      BY <1>8, <1>11
    <2>2. TaskOK(t)
      BY <1>1, <1>3, <1>4, <1>7, <1>9, <1>11, <2>1 DEF TaskOK
    <2> QED  BY <1>1, <1>6, <2>2, TaskWritten
  <1> QED  BY <1>10, <1>11

LEMMA SeeRestKeepsSelect ==
  ASSUME SelectInv, NEW r \in Requests, SeeRest(r)
  PROVE  SelectInv'
  <1>1. /\ IsTask(task[r]) /\ Selected(task[r].quotes) /\ task[r].own = Firsts(Top(task[r].quotes))
        /\ UNCHANGED catalog
    BY DEF SelectInv, TaskOK, SeeRest
  <1>2. PICK others : others = {s \in Symbols : Exists(s)} \ task[r].own
    OBVIOUS
  <1>3. PICK t : t = [task[r] EXCEPT !.at = "commit", !.others = others]
    OBVIOUS
  <1>4. task' = [task EXCEPT ![r] = t]
    BY <1>2, <1>3 DEF SelectInv, SeeRest
  <1>5. /\ IsTask(t) /\ t.at = "commit" /\ t.quotes = task[r].quotes
        /\ t.own = task[r].own /\ t.others = others
    BY <1>1, <1>3 DEF IsTask
  <1>6. TaskOK(t)
    BY <1>1, <1>2, <1>5 DEF TaskOK
  <1> QED  BY <1>1, <1>4, <1>6, TaskWritten

-----------------------------------------------------------------------------
(* A COMMIT writes the selection of its run, and tells the others of it. *)
LEMMA TopIsEnough ==
  ASSUME NEW quotes, Selected(quotes)
  PROVE  /\ Top(quotes) \in SUBSET quotes /\ Cardinality(Firsts(Top(quotes))) = Target
         /\ Firsts(Top(quotes)) # {} /\ Firsts(Top(quotes)) \subseteq Symbols
  <1>1. Top(quotes) \in SUBSET quotes
    BY DEF Top
  <1>2. Cardinality(Firsts(Top(quotes))) = Target
    BY <1>1, FirstsAreAsMany DEF Selected
  <1>3. Firsts(Top(quotes)) # {}
    BY <1>2, FS_EmptySet, SeedAssumption
  <1>4. Firsts(Top(quotes)) \subseteq Symbols
    BY <1>1, SelectionIsTyped DEF Firsts, Selected
  <1> QED  BY <1>1, <1>2, <1>3, <1>4

LEMMA RowOfFirst ==
  ASSUME NEW quotes, Selected(quotes), NEW q \in quotes
  PROVE  (CHOOSE x \in quotes : x[1] = q[1]) = q
  BY DEF Selected, Selection

(* The row that a run writes for a symbol of its selection. *)
RowFor(r, quotes, q) == [run |-> {r}, rank |-> RankOf(quotes, q), cap |-> q[2]]

LEMMA CommittedRows ==
  ASSUME SelectInv, NEW r \in Requests, CommitCatalog(r)
  PROVE  /\ Selected(task[r].quotes)
         /\ \A q \in Top(task[r].quotes) :
              q[1] \in Symbols /\ catalog'[q[1]] = RowFor(r, task[r].quotes, q)
         /\ \A s \in Symbols \ Firsts(Top(task[r].quotes)) :
              catalog'[s] = IF s \in task[r].others THEN [catalog[s] EXCEPT !.rank = 0] ELSE catalog[s]
         /\ task[r].alone => task[r].others = {s \in Symbols : Exists(s)} \ Firsts(Top(task[r].quotes))
  <1>1. PICK t : t = task[r]
    OBVIOUS
  <1>2. /\ Selected(t.quotes) /\ t.own = Firsts(Top(t.quotes))
        /\ t.alone => t.others = {s \in Symbols : Exists(s)} \ t.own
    BY <1>1 DEF SelectInv, TaskOK, CommitCatalog
  <1>3. /\ Top(t.quotes) \in SUBSET t.quotes /\ t.own \subseteq Symbols
    BY <1>2, TopIsEnough
  <1>4. catalog' = [s \in Symbols |->
          IF s \in t.own
          THEN LET q == CHOOSE x \in t.quotes : x[1] = s IN RowFor(r, t.quotes, q)
          ELSE IF s \in t.others THEN [catalog[s] EXCEPT !.rank = 0] ELSE catalog[s]]
    BY <1>1 DEF CommitCatalog, RowFor
  <1>5. ASSUME NEW q \in Top(t.quotes)
        PROVE  q[1] \in Symbols /\ catalog'[q[1]] = RowFor(r, t.quotes, q)
    <2>1. q \in t.quotes /\ q[1] \in t.own /\ q[1] \in Symbols
      BY <1>2, <1>3 DEF Firsts
    <2>2. (CHOOSE x \in t.quotes : x[1] = q[1]) = q
      BY <1>2, <2>1, RowOfFirst
    <2>3. catalog'[q[1]] = LET x == CHOOSE x \in t.quotes : x[1] = q[1] IN RowFor(r, t.quotes, x)
      BY <1>4, <2>1
    <2> QED  BY <2>1, <2>2, <2>3
  <1>6. \A s \in Symbols \ t.own :
          catalog'[s] = IF s \in t.others THEN [catalog[s] EXCEPT !.rank = 0] ELSE catalog[s]
    BY <1>4
  <1> QED  BY <1>1, <1>2, <1>5, <1>6

LEMMA CommitKeepsSelect ==
  ASSUME SelectInv, NEW r \in Requests, CommitCatalog(r)
  PROVE  SelectInv'
  <1>1. PICK quotes : quotes = task[r].quotes
    OBVIOUS
  <1>2. /\ Selected(quotes)
        /\ \A q \in Top(quotes) : q[1] \in Symbols /\ catalog'[q[1]] = RowFor(r, quotes, q)
        /\ \A s \in Symbols \ Firsts(Top(quotes)) :
             catalog'[s] = [catalog[s] EXCEPT !.rank = 0] \/ catalog'[s] = catalog[s]
    BY <1>1, CommittedRows
  <1>3. ASSUME NEW s \in Symbols
        PROVE  /\ catalog'[s] \in [run : SUBSET Requests, rank : Nat, cap : Nat]
               /\ catalog'[s].run = {} => catalog'[s].rank = 0
    <2>1. CASE s \in Firsts(Top(quotes))
      <3>1. PICK q \in Top(quotes) : q[1] = s
        BY <2>1 DEF Firsts
      <3>2. q \in quotes
        BY <3>1 DEF Top
      <3>3. q[2] \in Nat /\ RankOf(quotes, q) \in Nat
        BY <1>2, <3>2, SelectionIsTyped, RankIsPlace DEF Selected
      <3>4. catalog'[s] = RowFor(r, quotes, q)
        BY <1>2, <3>1
      <3> QED  BY <3>3, <3>4 DEF RowFor
    <2>2. CASE s \notin Firsts(Top(quotes))
      <3>1. /\ catalog[s] \in [run : SUBSET Requests, rank : Nat, cap : Nat]
            /\ catalog[s].run = {} => catalog[s].rank = 0
        BY DEF SelectInv, CatalogOK
      <3>2. catalog'[s] = [catalog[s] EXCEPT !.rank = 0] \/ catalog'[s] = catalog[s]
        BY <1>2, <2>2
      <3> QED  BY <3>1, <3>2
    <2> QED  BY <2>1, <2>2
  <1>4. CatalogOK'
    <2>1. catalog' = [s \in Symbols |-> catalog'[s]]
      BY DEF CommitCatalog
    <2> QED  BY <1>3, <2>1 DEF CatalogOK
  <1>5. TaskOK(task[r])'
    <2>1. PICK t : t = [NoTask EXCEPT !.at = "beat3"]
      OBVIOUS
    <2>2. task'[r] = t
      BY <2>1 DEF CommitCatalog
    <2>3. IsTask(t) /\ t.at = "beat3"
      BY <2>1 DEF IsTask, NoTask
    <2> QED  BY <2>2, <2>3 DEF TaskOK, IsTask
  <1>6. ASSUME NEW o \in Requests, o # r PROVE TaskOK(task[o])'
    <2>1. PICK t, alone : t = task[o] /\ alone = (t.alone /\ t.own = {})
      OBVIOUS
    <2>2. TaskOK(t) /\ IsTask(t) /\ alone \in BOOLEAN
      BY <2>1 DEF SelectInv, TaskOK
    <2>3. PICK u : u = [t EXCEPT !.alone = alone]
      OBVIOUS
    <2>4. task'[o] = u
      BY <1>6, <2>1, <2>3 DEF CommitCatalog
    <2>5. /\ IsTask(u) /\ u.at = t.at /\ u.quotes = t.quotes /\ u.own = t.own
          /\ u.alone = alone
      BY <2>2, <2>3 DEF IsTask
    <2>6. ~(u.at = "commit" /\ u.alone)
      <3>1. u.at = "commit" => u.own # {}
        BY <2>2, <2>5, TopIsEnough DEF TaskOK
      <3> QED  BY <2>1, <2>5, <3>1
    <2> QED  BY <2>2, <2>4, <2>5, <2>6 DEF TaskOK, IsTask
  <1>7. DOMAIN task' = Requests /\ task' = [o \in Requests |-> task'[o]]
    BY DEF CommitCatalog
  <1> QED  BY <1>4, <1>5, <1>6, <1>7 DEF SelectInv

LEMMA ExecuteKeepsSelect ==
  ASSUME SelectInv, NEW r \in Requests, Execute(r) \/ StatementFails(r)
  PROVE  SelectInv'
  <1>1. CASE Heartbeat(r)
    BY <1>1, HeartbeatKeepsSelect
  <1>2. CASE FetchAnswered(r) \/ NextEndpoint(r) \/ RetryEndpoint(r) \/ Unauthorized(r)
    BY <1>2, FetchKeepsSelect
  <1>3. CASE \E q \in task[r].quotes : Upsert(r, q)
    BY <1>3, UpsertKeepsSelect
  <1>4. CASE SeeRest(r)
    BY <1>4, SeeRestKeepsSelect
  <1>5. CASE CommitCatalog(r)
    BY <1>5, CommitKeepsSelect
  <1>6. CASE DeadlockVictim(r) \/ StatementFails(r)
    BY <1>6, RaiseKeepsSelect, GotoKeepsSelect DEF DeadlockVictim, StatementFails
  <1>7. CASE ReadRun(r)
    <2>1. PICK code : code = runs[r].code
      OBVIOUS
    <2>2. PICK t : t = [task[r] EXCEPT !.at = "succeed", !.code = code]
      OBVIOUS
    <2>3. IsTask(task[r]) /\ task' = [task EXCEPT ![r] = t]
      BY <1>7, <2>1, <2>2 DEF SelectInv, TaskOK, ReadRun
    <2>4. IsTask(t) /\ t.at = "succeed"
      BY <2>2, <2>3 DEF IsTask
    <2> QED  BY <1>7, <2>3, <2>4, IdleTaskOK, TaskWritten DEF ReadRun
  <1>8. CASE MarkSucceeded(r) \/ MarkFailed(r)
    <2>1. Goto(r, "end") /\ UNCHANGED catalog
      BY <1>8 DEF MarkSucceeded, MarkFailed
    <2> QED  BY <2>1, GotoKeepsSelect
  <1> QED  BY <1>1, <1>2, <1>3, <1>4, <1>5, <1>6, <1>7, <1>8 DEF Execute

LEMMA QuietKeepsSelect ==
  ASSUME SelectInv, UNCHANGED <<task, catalog>>
  PROVE  SelectInv'
  <1>1. \A r \in Requests : TaskOK(task[r])'
    BY DEF SelectInv, TaskOK, Exists
  <1> QED  BY <1>1 DEF SelectInv, CatalogOK

LEMMA SelectStep == SelectInv /\ [Next]_vars => SelectInv'
  <1> SUFFICES ASSUME SelectInv, [Next]_vars PROVE SelectInv'
    OBVIOUS
  <1>1. CASE \E q \in Requests : Execute(q) \/ StatementFails(q)
    BY <1>1, ExecuteKeepsSelect
  <1>2. CASE \/ \E q \in Requests : FindStale(q) \/ Recover(q) \/ Look(q) \/ Insert(q) \/ Age(q)
             \/ UNCHANGED vars
    <2>1. UNCHANGED <<task, catalog>>
      BY <1>2 DEF FindStale, Recover, Look, Insert, Age, vars
    <2> QED  BY <2>1, QuietKeepsSelect
  <1>3. ASSUME NEW q \in Requests, Spawn(q) PROVE SelectInv'
    <2>1. PICK t : t = [NoTask EXCEPT !.at = "beat1"]
      OBVIOUS
    <2>2. IsTask(t) /\ t.at = "beat1"
      BY <2>1 DEF IsTask, NoTask
    <2>3. task' = [task EXCEPT ![q] = t] /\ UNCHANGED catalog
      BY <1>3, <2>1 DEF Spawn
    <2> QED  BY <2>2, <2>3, IdleTaskOK, TaskWritten
  <1>4. CASE Crash
    <2>1. UNCHANGED catalog /\ DOMAIN task' = Requests /\ task' = [r \in Requests |-> task'[r]]
      BY <1>4 DEF Crash
    <2>2. ASSUME NEW r \in Requests PROVE TaskOK(task[r])'
      <3>1. PICK t : t = [NoTask EXCEPT !.at = "dead"]
        OBVIOUS
      <3>2. IsTask(t) /\ t.at = "dead"
        BY <3>1 DEF IsTask, NoTask
      <3>3. task'[r] = t \/ (task'[r] = task[r] /\ task[r].at = "none")
        BY <1>4, <3>1 DEF Crash
      <3> QED  BY <3>2, <3>3 DEF SelectInv, TaskOK, IsTask
    <2> QED  BY <2>1, <2>2 DEF SelectInv, CatalogOK
  <1> QED  BY <1>1, <1>2, <1>3, <1>4 DEF Next, Start

LEMMA SelectInit == Init => SelectInv
  <1> SUFFICES ASSUME Init PROVE SelectInv
    OBVIOUS
  <1>1. PICK t : t = NoTask
    OBVIOUS
  <1>2. IsTask(t) /\ t.at = "none"
    BY <1>1 DEF IsTask, NoTask
  <1>3. \A r \in Requests : task[r] = t
    BY <1>1 DEF Init
  <1>4. \A r \in Requests : TaskOK(task[r])
    BY <1>2, <1>3, IdleTaskOK
  <1>5. CatalogOK
    BY DEF Init, NoRow, CatalogOK
  <1> QED  BY <1>4, <1>5 DEF SelectInv, Init

(* What a run commits while it is alone. *)
LEMMA CommitIsOneSelection ==
  ASSUME SelectInv, NEW r \in Requests, CommitCatalog(r), task[r].alone
  PROVE  LET ranked == {s \in Symbols : catalog'[s].rank # 0}
             left == {q \in task[r].quotes : q[1] \notin ranked}
         IN  /\ {catalog'[s].rank : s \in ranked} = 1..Target /\ Cardinality(ranked) = Target
             /\ \A s \in ranked : catalog'[s].run = {r} /\ <<s, catalog'[s].cap>> \in task[r].quotes
             /\ \A s, t \in ranked : catalog'[s].rank < catalog'[t].rank =>
                  catalog'[s].cap > catalog'[t].cap \/ (catalog'[s].cap = catalog'[t].cap /\ s < t)
             /\ \A s \in ranked, q \in left : q[2] <= catalog'[s].cap
  <1> DEFINE ranked == {s \in Symbols : catalog'[s].rank # 0}
  <1>1. PICK quotes : quotes = task[r].quotes
    OBVIOUS
  <1>2. /\ Selected(quotes)
        /\ \A q \in Top(quotes) : q[1] \in Symbols /\ catalog'[q[1]] = RowFor(r, quotes, q)
        /\ \A s \in Symbols \ Firsts(Top(quotes)) :
             catalog'[s] = IF Exists(s) THEN [catalog[s] EXCEPT !.rank = 0] ELSE catalog[s]
    BY <1>1, CommittedRows
  <1>3. /\ Top(quotes) \in SUBSET quotes /\ Selection(quotes)
        /\ Cardinality(Firsts(Top(quotes))) = Target /\ Firsts(Top(quotes)) \subseteq Symbols
    BY <1>2, TopIsEnough DEF Selected
  <1>4. \A q \in quotes : /\ RankOf(quotes, q) \in Nat \ {0} /\ q[2] \in Nat /\ q[1] \in Nat
                          /\ q = <<q[1], q[2]>>
    <2>1. ASSUME NEW q \in quotes PROVE RankOf(quotes, q) \in Nat \ {0}
      BY <1>3, RankIsPlace
    <2>2. ASSUME NEW q \in quotes PROVE q[2] \in Nat /\ q[1] \in Nat /\ q = <<q[1], q[2]>>
      BY <1>3, SelectionIsTyped
    <2> QED  BY <2>1, <2>2
  <1>5. \A q \in Top(quotes) : /\ catalog'[q[1]].run = {r} /\ catalog'[q[1]].cap = q[2]
                               /\ catalog'[q[1]].rank = RankOf(quotes, q)
    <2>1. ASSUME NEW q \in Top(quotes)
          PROVE  /\ catalog'[q[1]].run = {r} /\ catalog'[q[1]].cap = q[2]
                 /\ catalog'[q[1]].rank = RankOf(quotes, q)
      <3>1. PICK row : row = catalog'[q[1]]
        OBVIOUS
      <3>2. row = RowFor(r, quotes, q)
        BY <1>2, <3>1
      <3>3. row.run = {r} /\ row.cap = q[2] /\ row.rank = RankOf(quotes, q)
        BY <3>2 DEF RowFor
      <3> QED  BY <3>1, <3>3
    <2> QED  BY <2>1
  <1>6. ranked = Firsts(Top(quotes))
    <2>1. ASSUME NEW s \in Firsts(Top(quotes)) PROVE catalog'[s].rank # 0
      BY <1>3, <1>4, <1>5 DEF Firsts
    <2>2. ASSUME NEW s \in Symbols \ Firsts(Top(quotes)) PROVE catalog'[s].rank = 0
      <3>1. /\ catalog[s] \in [run : SUBSET Requests, rank : Nat, cap : Nat]
            /\ catalog[s].run = {} => catalog[s].rank = 0
        BY DEF SelectInv, CatalogOK
      <3> QED  BY <1>2, <3>1 DEF Exists
    <2> QED  BY <1>3, <2>1, <2>2
  <1>7. \A s \in ranked : \E q \in Top(quotes) : q[1] = s
    BY <1>6 DEF Firsts
  <1>8. \A q \in Top(quotes) : q[1] \in ranked
    BY <1>6 DEF Firsts
  <1> HIDE DEF ranked
  <1>9. {catalog'[s].rank : s \in ranked} = 1..Target
    <2>1. {catalog'[s].rank : s \in ranked} = {RankOf(quotes, q) : q \in Top(quotes)}
      BY <1>5, <1>7, <1>8
    <2> QED  BY <1>2, <2>1, RanksAreAll DEF Selected
  <1>10. Cardinality(ranked) = Target
    BY <1>3, <1>6
  <1>11. ASSUME NEW s \in ranked
         PROVE  catalog'[s].run = {r} /\ <<s, catalog'[s].cap>> \in quotes
    BY <1>3, <1>4, <1>5, <1>7
  <1>12. ASSUME NEW s \in ranked, NEW t \in ranked, catalog'[s].rank < catalog'[t].rank
         PROVE  catalog'[s].cap > catalog'[t].cap \/ (catalog'[s].cap = catalog'[t].cap /\ s < t)
    <2>1. PICK p \in Top(quotes), q \in Top(quotes) : p[1] = s /\ q[1] = t
      BY <1>7
    <2>2. Before(p, q)
      BY <1>3, <1>5, <1>12, <2>1, RankIsOrder
    <2> QED  BY <1>5, <2>1, <2>2 DEF Before
  <1>13. ASSUME NEW s \in ranked, NEW q \in quotes, q[1] \notin ranked
         PROVE  q[2] <= catalog'[s].cap
    <2>1. PICK p \in Top(quotes) : p[1] = s
      BY <1>7
    <2>2. q \notin Top(quotes) /\ p \in quotes
      BY <1>3, <1>8, <1>13
    <2>3. RankOf(quotes, p) < RankOf(quotes, q)
      BY <1>4, <2>1, <2>2, SeedAssumption DEF Top
    <2>4. Before(p, q)
      BY <1>3, <2>2, <2>3, RankIsOrder
    <2>5. p[2] \in Nat /\ q[2] \in Nat /\ catalog'[s].cap = p[2]
      BY <1>4, <1>5, <2>1, <2>2
    <2> QED  BY <2>4, <2>5 DEF Before
  <1> QED  BY <1>1, <1>9, <1>10, <1>11, <1>12, <1>13 DEF ranked

LEMMA WrittenIsCommitted ==
  ASSUME SelectInv, [Next]_vars, NEW r \in written' \ written
  PROVE  r \in Requests /\ CommitCatalog(r)
  <1>1. written' # written
    OBVIOUS
  <1>2. ~ Crash
    BY <1>1 DEF Crash
  <1>3. PICK o \in Requests : Start(o) \/ Execute(o) \/ StatementFails(o) \/ Age(o)
    BY <1>1, <1>2 DEF Next, vars
  <1>4. ~ Start(o)
    BY <1>1 DEF Start, FindStale, Recover, Look, Insert, Spawn
  <1>5. ~ StatementFails(o) /\ ~ Age(o)
    BY <1>1 DEF StatementFails, Age
  <1>6. CommitCatalog(o)
    <2>1. ~ Heartbeat(o) /\ ~ FetchAnswered(o) /\ ~ NextEndpoint(o) /\ ~ RetryEndpoint(o)
      BY <1>1 DEF Heartbeat, FetchAnswered, NextEndpoint, RetryEndpoint
    <2>2. ~ Unauthorized(o) /\ ~ SeeRest(o) /\ ~ DeadlockVictim(o)
      BY <1>1 DEF Unauthorized, SeeRest, DeadlockVictim
    <2>3. \A q : ~ Upsert(o, q)
      BY <1>1 DEF Upsert
    <2>4. ~ ReadRun(o) /\ ~ MarkSucceeded(o) /\ ~ MarkFailed(o)
      BY <1>1 DEF ReadRun, MarkSucceeded, MarkFailed
    <2> QED  BY <1>3, <1>4, <1>5, <2>1, <2>2, <2>3, <2>4 DEF Execute
  <1> QED  BY <1>6 DEF CommitCatalog

(* A run that no other overtakes leaves exactly its own selection, for any
   answer of the provider, any target and any earlier catalog (_upsert_catalog). *)
THEOREM CatalogIsSelected == Spec => CatalogIsOneSelection
  <1>1. SelectInv /\ [Next]_vars =>
          [\A r \in written' \ written : task[r].alone =>
             LET ranked == {s \in Symbols : catalog'[s].rank # 0}
                 left == {q \in task[r].quotes : q[1] \notin ranked}
             IN  /\ {catalog'[s].rank : s \in ranked} = 1..Target /\ Cardinality(ranked) = Target
                 /\ \A s \in ranked : catalog'[s].run = {r} /\ <<s, catalog'[s].cap>> \in task[r].quotes
                 /\ \A s, t \in ranked : catalog'[s].rank < catalog'[t].rank =>
                      catalog'[s].cap > catalog'[t].cap \/ (catalog'[s].cap = catalog'[t].cap /\ s < t)
                 /\ \A s \in ranked, q \in left : q[2] <= catalog'[s].cap]_vars
    BY WrittenIsCommitted, CommitIsOneSelection
  <1> QED  BY <1>1, SelectInit, SelectStep, PTL DEF Spec, CatalogIsOneSelection
=============================================================================
