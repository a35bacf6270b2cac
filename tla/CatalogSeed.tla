---------------------------- MODULE CatalogSeed ----------------------------
(***************************************************************************)
(* Seeding the catalog of companies (workflows/maintenance/seed_service.py)*)
(* from the market data provider (providers/fmp_client.py). A request      *)
(* starts a run unless one is running; a run whose heartbeat is old is     *)
(* first declared failed. The run itself is a task that fetches two lists, *)
(* selects the largest companies, writes the catalog in one transaction    *)
(* and marks itself succeeded. Nothing tells a run that was declared       *)
(* failed to stop: two of them may write the catalog at once.              *)
(*                                                                         *)
(* Each step is one statement of PostgreSQL at READ COMMITTED, or one      *)
(* transaction that reads and writes a single row.                         *)
(***************************************************************************)
EXTENDS Naturals, FiniteSets

CONSTANTS
  Requests,     \* requests to start a run; a run is named by its request
  Symbols,      \* ticker symbols: numbers, in the order of the alphabet
  Markets,      \* what the provider may answer
  Target,       \* _target_catalog_size
  MinCap,       \* _min_market_cap
  Endpoints,    \* number of endpoints _request_with_fallback tries
  MaxRetries,   \* FmpClient._max_retries
  MaxCrashes    \* bound: how often the process dies

(* The symbols of the directory that pass _is_directory_candidate, and the
   rows of the screener: symbol and market capitalisation. *)
Market == [listed : SUBSET Symbols, quotes : SUBSET (Symbols \X Nat)]

ASSUME SeedAssumption ==
  /\ Symbols \subseteq Nat /\ IsFiniteSet(Symbols)
  /\ Markets \subseteq Market
  /\ Target \in Nat \ {0} /\ MinCap \in Nat
  /\ Endpoints \in Nat \ {0} /\ MaxRetries \in Nat \ {0} /\ MaxCrashes \in Nat

VARIABLES
  runs,      \* catalog_seed_runs: run -> row
  catalog,   \* stock_catalog: symbol -> row
  req,       \* request -> its progress
  task,      \* run -> the task that executes it
  written,   \* runs whose catalog was committed
  crashes

vars == <<runs, catalog, req, task, written, crashes>>

NoRow == [run |-> {}, rank |-> 0, cap |-> 0]  \* no such stock
NoRun == [status |-> "absent", code |-> "none", beat |-> "fresh"]
NoRequest == [at |-> "new", stale |-> {}]

NoTask == [at |-> "none", call |-> 1, endpoint |-> 1, attempt |-> 1,
           quotes |-> {},   \* eligible symbols with their market capitalisation
           own    |-> {},   \* symbols it has upserted, not committed
           others |-> {},   \* symbols its second UPDATE is to take out
           code   |-> "none",
           alone  |-> TRUE] \* no other run has committed a catalog meanwhile

Running == {r \in Requests : runs[r].status = "running"}

-----------------------------------------------------------------------------
(* _select_top_by_market_cap. Of several rows for a symbol the largest counts. *)
Eligible(m) ==
  {q \in m.quotes : /\ q[1] \in m.listed /\ q[2] > 0 /\ q[2] >= MinCap
                    /\ \A p \in m.quotes : p[1] = q[1] => p[2] <= q[2]}

Before(p, q) == p[2] > q[2] \/ (p[2] = q[2] /\ p[1] < q[1])
RankOf(quotes, q) == 1 + Cardinality({p \in quotes : Before(p, q)})
Top(quotes) == {q \in quotes : RankOf(quotes, q) <= Target}

-----------------------------------------------------------------------------
(* The operators named Mutant_... are faults a maintainer could introduce into
   a definition that follows them; the specification does not use them. *)
Mutant_NoRecovery(q) ==
  /\ req[q].at = "new"
  /\ req' = [req EXCEPT ![q] = [at |-> "look",
                                 stale |-> {r \in Running : runs[r].beat = "old"}]]
  /\ UNCHANGED <<runs, catalog, task, written, crashes>>

(* start_top_us_market_cap_seed. _recover_stale_runs reads the running runs
   and compares their heartbeats with the clock... *)
FindStale(q) ==
  /\ req[q].at = "new"
  /\ LET stale == {r \in Running : runs[r].beat = "old"}
     IN  req' = [req EXCEPT ![q] = [at |-> IF stale = {} THEN "look" ELSE "recover",
                                    stale |-> stale]]
  /\ UNCHANGED <<runs, catalog, task, written, crashes>>

(* ...and later fails the old ones, whatever they have become. *)
Recover(q) ==
  /\ req[q].at = "recover"
  /\ runs' = [r \in Requests |->
                IF r \in req[q].stale
                THEN [runs[r] EXCEPT !.status = "failed", !.code = "stale_run_recovered"]
                ELSE runs[r]]
  /\ req' = [req EXCEPT ![q].at = "look"]
  /\ UNCHANGED <<catalog, task, written, crashes>>

(* The request answers with the run it finds, or inserts a new one. *)
Look(q) ==
  /\ req[q].at = "look"
  /\ req' = [req EXCEPT ![q].at = IF Running = {} THEN "insert" ELSE "joined"]
  /\ UNCHANGED <<runs, catalog, task, written, crashes>>

Mutant_NoSingleton == FALSE

(* uq_catalog_seed_runs_running_singleton *)
Singleton == Running # {}

Insert(q) ==
  /\ req[q].at = "insert"
  /\ IF Singleton
     THEN /\ req' = [req EXCEPT ![q].at = "refused"]
          /\ UNCHANGED runs
     ELSE /\ req' = [req EXCEPT ![q].at = "spawn"]
          /\ runs' = [runs EXCEPT ![q] = [NoRun EXCEPT !.status = "running"]]
  /\ UNCHANGED <<catalog, task, written, crashes>>

Spawn(q) ==
  /\ req[q].at = "spawn"
  /\ req' = [req EXCEPT ![q].at = "started"]
  /\ task' = [task EXCEPT ![q] = [NoTask EXCEPT !.at = "beat1"]]
  /\ UNCHANGED <<runs, catalog, written, crashes>>

-----------------------------------------------------------------------------
Goto(r, label) == task' = [task EXCEPT ![r].at = label]

(* The except branches of _execute_seed: any exception ends in
   _mark_run_failed, and the open session rolls back. *)
Raise(r, code) ==
  task' = [task EXCEPT ![r] = [NoTask EXCEPT !.at = "failing", !.code = code]]

(* _heartbeat does not look at the status of the run. *)
Heartbeat(r) ==
  /\ task[r].at \in {"beat1", "beat2", "beat3"}
  /\ runs' = [runs EXCEPT ![r].beat = "fresh"]
  /\ Goto(r, CASE task[r].at = "beat1" -> "fetch"
               [] task[r].at = "beat2" -> "upsert"
               [] OTHER -> "mark")
  /\ UNCHANGED <<catalog, req, written, crashes>>

(* _request_json and _request_with_fallback. The directory is fetched first,
   then the screener; the library that is asked for the screener before the
   endpoints is one more way for it to answer. *)
FetchAnswered(r) ==
  /\ task[r].at = "fetch"
  /\ \/ /\ task[r].call = 1
        /\ task' = [task EXCEPT ![r].call = 2, ![r].endpoint = 1, ![r].attempt = 1]
     \/ /\ task[r].call = 2
        /\ \E m \in Markets :
             IF Cardinality(Top(Eligible(m))) = Target
             THEN task' = [task EXCEPT ![r] =
                             [NoTask EXCEPT !.at = "beat2", !.quotes = Eligible(m)]]
             ELSE Raise(r, "insufficient_universe")
  /\ UNCHANGED <<runs, catalog, req, written, crashes>>

(* The endpoint refuses for good, or its last attempt has failed. *)
NextEndpoint(r) ==
  /\ task[r].at = "fetch"
  /\ IF task[r].endpoint < Endpoints
     THEN task' = [task EXCEPT ![r].endpoint = @ + 1, ![r].attempt = 1]
     ELSE Raise(r, "all_endpoints_failed")
  /\ UNCHANGED <<runs, catalog, req, written, crashes>>

Mutant_RetryForever(r) ==
  /\ task[r].at = "fetch"
  /\ task' = [task EXCEPT ![r].attempt = (@ % MaxRetries) + 1]
  /\ UNCHANGED <<runs, catalog, req, written, crashes>>

(* Too many requests, a server error, a timeout: another attempt. *)
RetryEndpoint(r) ==
  /\ task[r].at = "fetch" /\ task[r].attempt < MaxRetries
  /\ task' = [task EXCEPT ![r].attempt = @ + 1]
  /\ UNCHANGED <<runs, catalog, req, written, crashes>>

Unauthorized(r) ==
  /\ task[r].at = "fetch"
  /\ Raise(r, "unauthorized")
  /\ UNCHANGED <<runs, catalog, req, written, crashes>>

-----------------------------------------------------------------------------
Exists(s) == catalog[s].run # {}
LockedByOthers(r) == UNION {task[o].own : o \in Requests \ {r}}

(* _upsert_catalog: INSERT ... ON CONFLICT takes the rows by rank, and waits
   for a symbol that another transaction has written. *)
Upsert(r, q) ==
  /\ task[r].at = "upsert" /\ q \in Top(task[r].quotes)
  /\ RankOf(task[r].quotes, q) = Cardinality(task[r].own) + 1
  /\ q[1] \notin LockedByOthers(r)
  /\ task' = [task EXCEPT ![r].own = @ \cup {q[1]},
                ![r].at = IF Cardinality(task[r].own) + 1 = Target THEN "rest" ELSE @]
  /\ UNCHANGED <<runs, catalog, req, written, crashes>>

Mutant_NoRest(r) ==
  /\ task[r].at = "rest"
  /\ task' = [task EXCEPT ![r].at = "commit"]
  /\ UNCHANGED <<runs, catalog, req, written, crashes>>

(* The UPDATE that takes all other stocks out of the selection sees those
   committed when it begins, and waits for the ones that are locked. *)
SeeRest(r) ==
  /\ task[r].at = "rest"
  /\ task' = [task EXCEPT ![r].at = "commit",
                ![r].others = {s \in Symbols : Exists(s)} \ task[r].own]
  /\ UNCHANGED <<runs, catalog, req, written, crashes>>

(* The rows it waits for are written by those who wait for its own. *)
WaitsFor(r) ==
  IF task[r].at = "commit" THEN {o \in Requests \ {r} : task[r].others \cap task[o].own # {}}
  ELSE IF task[r].at = "upsert"
  THEN {o \in Requests \ {r} : \E q \in Top(task[r].quotes) :
          RankOf(task[r].quotes, q) = Cardinality(task[r].own) + 1 /\ q[1] \in task[o].own}
  ELSE {}

(* PostgreSQL aborts one of the transactions that wait for each other. *)
DeadlockVictim(r) ==
  /\ \E cycle \in SUBSET Requests :
       r \in cycle /\ \A x \in cycle : WaitsFor(x) \cap cycle # {}
  /\ Raise(r, "unhandled_error")
  /\ UNCHANGED <<runs, catalog, req, written, crashes>>

CommitCatalog(r) ==
  /\ task[r].at = "commit" /\ WaitsFor(r) = {}
  /\ catalog' = [s \in Symbols |->
       IF s \in task[r].own
       THEN LET q == CHOOSE x \in task[r].quotes : x[1] = s
            IN  [run |-> {r}, rank |-> RankOf(task[r].quotes, q), cap |-> q[2]]
       ELSE IF s \in task[r].others THEN [catalog[s] EXCEPT !.rank = 0]
       ELSE catalog[s]]
  /\ written' = written \cup {r}
  /\ task' = [o \in Requests |->
       IF o = r THEN [NoTask EXCEPT !.at = "beat3"]
       ELSE [task[o] EXCEPT !.alone = @ /\ task[o].own = {}]]
  /\ UNCHANGED <<runs, req, crashes>>

(* _mark_run_succeeded reads the run... *)
ReadRun(r) ==
  /\ task[r].at = "mark"
  /\ task' = [task EXCEPT ![r].at = "succeed", ![r].code = runs[r].code]
  /\ UNCHANGED <<runs, catalog, req, written, crashes>>

(* ...and writes what differs from what it read: an error code that was set
   since then stays. *)
MarkSucceeded(r) ==
  /\ task[r].at = "succeed"
  /\ runs' = [runs EXCEPT ![r].status = "succeeded", ![r].beat = "fresh",
                          ![r].code = IF task[r].code = "none" THEN @ ELSE "none"]
  /\ Goto(r, "end")
  /\ UNCHANGED <<catalog, req, written, crashes>>

MarkFailed(r) ==
  /\ task[r].at = "failing"
  /\ runs' = [runs EXCEPT ![r].status = "failed", ![r].beat = "fresh",
                          ![r].code = task[r].code]
  /\ Goto(r, "end")
  /\ UNCHANGED <<catalog, req, written, crashes>>

Fallible == {"beat1", "fetch", "beat2", "upsert", "rest", "commit", "beat3", "mark", "succeed"}

(* A statement fails, or the provider's library. If it is the one that records
   a failure, the task ends and the run is left as it is. *)
StatementFails(r) ==
  /\ \/ task[r].at \in Fallible /\ Raise(r, "unhandled_error")
     \/ task[r].at = "failing" /\ Goto(r, "dead")
  /\ UNCHANGED <<runs, catalog, req, written, crashes>>

-----------------------------------------------------------------------------
(* Fifteen minutes without a heartbeat. *)
Age(r) ==
  /\ runs[r].status = "running" /\ runs[r].beat = "fresh"
  /\ runs' = [runs EXCEPT ![r].beat = "old"]
  /\ UNCHANGED <<catalog, req, task, written, crashes>>

(* The process dies with its requests and tasks. *)
Crash ==
  /\ crashes < MaxCrashes
  /\ crashes' = crashes + 1
  /\ req' = [q \in Requests |-> IF req[q].at = "new" THEN req[q]
                                ELSE [NoRequest EXCEPT !.at = "gone"]]
  /\ task' = [r \in Requests |-> IF task[r].at = "none" THEN task[r]
                                 ELSE [NoTask EXCEPT !.at = "dead"]]
  /\ UNCHANGED <<runs, catalog, written>>

-----------------------------------------------------------------------------
Init ==
  /\ runs = [r \in Requests |-> NoRun]
  /\ catalog = [s \in Symbols |-> NoRow]
  /\ req = [q \in Requests |-> NoRequest]
  /\ task = [r \in Requests |-> NoTask]
  /\ written = {} /\ crashes = 0

Start(q) == FindStale(q) \/ Recover(q) \/ Look(q) \/ Insert(q) \/ Spawn(q)

Execute(r) ==
  \/ Heartbeat(r)
  \/ FetchAnswered(r) \/ NextEndpoint(r) \/ RetryEndpoint(r) \/ Unauthorized(r)
  \/ \E q \in task[r].quotes : Upsert(r, q)
  \/ SeeRest(r) \/ CommitCatalog(r) \/ DeadlockVictim(r)
  \/ ReadRun(r) \/ MarkSucceeded(r) \/ MarkFailed(r)

Next ==
  \/ \E q \in Requests : Start(q) \/ Execute(q) \/ StatementFails(q) \/ Age(q)
  \/ Crash

Spec == Init /\ [][Next]_vars

(* The event loop runs the tasks and spawns those of the runs it inserted;
   PostgreSQL grants locks and breaks deadlocks; every call of the provider
   returns or times out. Nobody has to start a run. *)
FairSpec == Spec /\ WF_vars(\E r \in Requests : Spawn(r) \/ Execute(r))

-----------------------------------------------------------------------------
(* Two requests never have two runs going: however they overlap with each
   other, with recoveries and with the runs of earlier ones, at most one run
   counts as running. *)
SingleRun == Cardinality(Running) <= 1

(* A request never answers with a run that it has itself found to be late:
   the run of a process that died does not keep others from starting. *)
JoinsNoStaleRun ==
  [][\A q \in Requests : req[q].at = "look" /\ req'[q].at = "joined" =>
       Running \cap req[q].stale = {}]_vars

(* A catalog written while no other run committed one is exactly the
   selection of its run: as many ranked companies as are wanted, all of this
   run, ranked by market capitalisation and then by symbol, none of those left
   out larger than one of them, and none of an earlier selection still ranked. *)
CatalogIsOneSelection ==
  [][\A r \in written' \ written : task[r].alone =>
       LET ranked == {s \in Symbols : catalog'[s].rank # 0}
           left == {q \in task[r].quotes : q[1] \notin ranked}
       IN  /\ {catalog'[s].rank : s \in ranked} = 1..Target /\ Cardinality(ranked) = Target
           /\ \A s \in ranked : catalog'[s].run = {r} /\ <<s, catalog'[s].cap>> \in task[r].quotes
           /\ \A s, t \in ranked : catalog'[s].rank < catalog'[t].rank =>
                catalog'[s].cap > catalog'[t].cap \/ (catalog'[s].cap = catalog'[t].cap /\ s < t)
           /\ \A s \in ranked, q \in left : q[2] <= catalog'[s].cap]_vars

(* A run ends as succeeded or failed, whatever the provider answers and
   whichever runs write the catalog with it, unless the process died or the
   failure itself could not be recorded. *)
RunsEnd ==
  \A r \in Requests :
    runs[r].status = "running" ~>
      runs[r].status # "running" \/ crashes > 0 \/ task[r].at = "dead"
=============================================================================
