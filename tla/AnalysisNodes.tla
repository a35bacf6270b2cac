--------------------------- MODULE AnalysisNodes ---------------------------
(***************************************************************************)
(* The nodes of an analysis (workflows/analysis/nodes) for workflows of    *)
(* one symbol that run together: the research job that is polled           *)
(* (providers/gemini_deep_research.py), the valuation with its cache of    *)
(* company data (fmp_symbol_snapshots), the audit of the valuation and the *)
(* advice on it. What the orchestrator does around a node, and its events, *)
(* are in WorkflowRuns; the solver of the valuation is ReverseDcf.         *)
(*                                                                         *)
(* The texts of reports and what models answer are open, but for what the  *)
(* nodes check of an answer. Time is counted in one unit, whatever it is.  *)
(***************************************************************************)
EXTENDS ReverseDcf, FiniteSetsExt

CONSTANTS
  Workflows,
  Feed,          \* dataset -> the versions the provider publishes, one by one
  Absent,        \* a field that is missing or no number
  TTL,           \* _SNAPSHOT_TTL
  PollInterval, MaxWait,  \* settings of the research client
  Latency,       \* the longest that the provider takes to tell a status
  Answers,       \* lists of cases a model may answer with
  Advices,       \* answers for all profiles
  MaxTime        \* bound: the clock

Quarterly == {"quote", "profile", "quarterIncome", "quarterCashFlow", "quarterBalance"}
Annual == {"annualIncome", "annualCashFlow", "annualBalance"}
Datasets == DOMAIN Feed

(* The order in which they are read; "none" ends it, or the annual ones follow. *)
After == [quote |-> "profile", profile |-> "quarterIncome",
          quarterIncome |-> "quarterCashFlow", quarterCashFlow |-> "quarterBalance",
          quarterBalance |-> "none",
          annualIncome |-> "annualCashFlow", annualCashFlow |-> "annualBalance",
          annualBalance |-> "none"]

Cases == {"optimistic", "median", "conservative"}
Profiles == {"cash_preservation", "balanced_compounder", "capital_multiplier"}

VARIABLES
  now,
  published,  \* dataset -> when each of its versions came out
  cache,      \* dataset -> the committed rows that were fetched last
  wf          \* workflow -> its context and where it is

nodeVars == <<now, published, cache, wf>>
allVars == <<nodeVars, solver>>

Unread == [version |-> 0, fetched |-> 0, by |-> "nobody"]
NoSummary == [c \in Cases |-> NoGrowth]

New == [at |-> "new", deadline |-> 0, wake |-> 0, remote |-> "running", doneAt |-> 0,
        asked |-> 0, seen |-> "running", dataset |-> "quote", stamp |-> 0, rows |-> [d \in Datasets |-> Unread],
        summary |-> NoSummary, audit |-> NoSummary,
        advice |-> [p \in Profiles |-> NoSummary]]

Ended == {"done", "failed", "late", "rejected"}
Valued == {"commit", "audit", "advise", "done", "rejected"}

ASSUME NodesAssumption ==
  /\ TTL \in Nat /\ PollInterval \in Nat \ {0} /\ MaxWait \in Nat
  /\ Latency \in Nat /\ MaxTime \in Nat
  /\ Datasets = Quarterly \cup Annual
  /\ \A d \in Datasets : Len(Feed[d]) \in Nat \ {0}
  /\ "nobody" \notin Workflows

(* Between its data and its result the valuation awaits nothing: meanwhile
   nothing else happens in the process. *)
Calm == \A w \in Workflows : wf[w].at \notin {"value", "solve"}

Moves(w, from, record) ==
  /\ wf[w].at = from /\ Calm
  /\ wf' = [wf EXCEPT ![w] = record]

Goes(w, from, to) == Moves(w, from, [wf[w] EXCEPT !.at = to])

(* An exception ends the workflow; what its session has flushed is rolled back. *)
Fails(w) ==
  [New EXCEPT !.at = IF wf[w].at \in Valued THEN "rejected" ELSE "failed"]

-----------------------------------------------------------------------------
(* run_report, with the research endpoint (without it, the report is one call of
   a model): the provider works on its own and is asked for the status of the
   job, in a thread, with an interval after each answer, until the deadline. A
   job that was cancelled, and every status but two, counts as running. *)
StartResearch(w) ==
  /\ now + MaxWait <= MaxTime
  /\ Moves(w, "new", [New EXCEPT !.at = "poll", !.deadline = now + MaxWait])
  /\ UNCHANGED <<now, published, cache, solver>>

ProviderEnds(w, status) ==
  /\ wf[w].at \in {"poll", "ask", "sleep"} /\ wf[w].remote = "running" /\ Calm
  /\ wf' = [wf EXCEPT ![w].remote = status, ![w].doneAt = now]
  /\ UNCHANGED <<now, published, cache, solver>>

Ask(w) ==
  /\ now < wf[w].deadline
  /\ Moves(w, "poll", [wf[w] EXCEPT !.at = "ask", !.asked = now, !.seen = wf[w].remote])
  /\ UNCHANGED <<now, published, cache, solver>>

(* The operators named Mutant_... are faults a maintainer could introduce into
   a definition that follows them; the specification does not use them. *)
Mutant_SleepTwice(w) ==
  /\ \E status \in {wf[w].seen, wf[w].remote} :
       \/ status = "running"
          /\ Moves(w, "ask", [wf[w] EXCEPT !.at = "sleep", !.wake = now + 2 * PollInterval])
       \/ status = "completed" /\ Moves(w, "ask", [New EXCEPT !.at = "structure"])
       \/ status = "failed" /\ Moves(w, "ask", Fails(w))
  /\ UNCHANGED <<now, published, cache, solver>>

(* The answer: the status at some moment since it was asked for. *)
Poll(w) ==
  /\ \E status \in {wf[w].seen, wf[w].remote} :
       \/ status = "running"
          /\ Moves(w, "ask", [wf[w] EXCEPT !.at = "sleep", !.wake = now + PollInterval])
       \/ status = "completed" /\ Moves(w, "ask", [New EXCEPT !.at = "structure"])
       \/ status = "failed" /\ Moves(w, "ask", Fails(w))
  /\ UNCHANGED <<now, published, cache, solver>>

Wake(w) ==
  /\ now >= wf[w].wake
  /\ Goes(w, "sleep", "poll")
  /\ UNCHANGED <<now, published, cache, solver>>

(* provider_timeout: the loop ends without another look at the status. *)
GiveUp(w) ==
  /\ now >= wf[w].deadline
  /\ Goes(w, "poll", "late")
  /\ UNCHANGED <<now, published, cache, solver>>

(* The structured output is an answer of a model that fits a schema. *)
Structure(w) ==
  /\ Goes(w, "structure", "lookup")
  /\ UNCHANGED <<now, published, cache, solver>>

-----------------------------------------------------------------------------
(* _fetch_dataset_cached, for one dataset after the other *)
Mutant_FreshOneTooLong(row) == row.fetched + TTL >= now

(* snapshot.expires_at > now *)
Fresh(row) == row.fetched + TTL > now

(* What a workflow has read: v names the version of each dataset, 0 is none. *)
Read(w) == [d \in Datasets |-> wf[w].rows[d].version]
Rows(v, d) == IF v[d] = 0 THEN [count |-> 0] ELSE Feed[d][v[d]]

TooFewQuarters(v) ==
  \/ Rows(v, "quarterIncome").count < 4
  \/ Rows(v, "quarterCashFlow").count < 4
  \/ Rows(v, "quarterBalance").count < 1

(* The annual ones are read only if the quarters do not suffice. *)
Following(d, v) ==
  IF d = "quarterBalance" /\ TooFewQuarters(v) THEN "annualIncome" ELSE After[d]

Continue(w, row) ==
  LET d == wf[w].dataset
      next == Following(d, [Read(w) EXCEPT ![d] = row.version])
  IN  [wf[w] EXCEPT !.rows[d] = row, !.dataset = next, !.stamp = 0,
                    !.at = IF next = "none" THEN "value" ELSE "lookup"]

Lookup(w) ==
  /\ wf[w].at = "lookup"
  /\ \/ \E row \in cache[wf[w].dataset] :
           Fresh(row) /\ Moves(w, "lookup", Continue(w, [Unread EXCEPT !.version = row.version]))
     \/ /\ \A row \in cache[wf[w].dataset] : ~Fresh(row)
        /\ Moves(w, "lookup", [wf[w] EXCEPT !.at = "fetch", !.stamp = now])
  /\ UNCHANGED <<now, published, cache, solver>>

Mutant_FetchCommits(w) ==
  LET row == [version |-> Len(published[wf[w].dataset]), fetched |-> wf[w].stamp, by |-> w]
  IN  /\ Moves(w, "fetch", Continue(w, row))
      /\ cache' = [cache EXCEPT ![wf[w].dataset] = {row}]
      /\ UNCHANGED <<now, published, solver>>

(* The row bears the time before the request. It is flushed, not committed. *)
Fetch(w) ==
  /\ wf[w].at = "fetch"
  /\ Moves(w, "fetch", Continue(w, [version |-> Len(published[wf[w].dataset]),
                                    fetched |-> wf[w].stamp, by |-> w]))
  /\ UNCHANGED <<now, published, cache, solver>>

-----------------------------------------------------------------------------
(* _extract_market_inputs *)
Known(x) == x # Absent
Positive(x) == Known(x) /\ x > 0
Or(x, y) == IF Known(x) THEN x ELSE y

MarketCap(quote, profile) ==
  LET cap == Or(quote.cap, profile.cap)
      shares == Or(quote.shares, profile.shares)
  IN  IF Known(cap) \/ ~Known(quote.price) \/ ~Known(shares) THEN cap
      ELSE quote.price * shares

(* Missing shares are the capitalisation in units of the price. *)
SharesKnown(quote, profile) ==
  LET shares == Or(quote.shares, profile.shares)
  IN  IF Known(shares) THEN shares > 0 ELSE Positive(quote.price) /\ Known(Or(quote.cap, profile.cap))

MarketKnown(quote, profile) ==
  Positive(quote.price) /\ SharesKnown(quote, profile) /\ Positive(MarketCap(quote, profile))

(* _build_baseline: four quarters, or else the latest year *)
Four(v) == Rows(v, "quarterIncome").count = 4 /\ Rows(v, "quarterCashFlow").count = 4
HasYear(v) == Rows(v, "annualIncome").count >= 1 /\ Rows(v, "annualCashFlow").count >= 1

Income(v) == Rows(v, IF Four(v) THEN "quarterIncome" ELSE "annualIncome")
CashFlow(v) == Rows(v, IF Four(v) THEN "quarterCashFlow" ELSE "annualCashFlow")

Balance(v) ==
  Rows(v, IF Rows(v, "quarterBalance").count > 0 THEN "quarterBalance" ELSE "annualBalance")

(* In percent, 21 if it is unknown. *)
TaxRate(income) ==
  IF income.beforeTax <= 0 THEN 21
  ELSE LET rate == (100 * income.tax) \div income.beforeTax
       IN  IF rate < 0 THEN 0 ELSE IF rate > 50 THEN 50 ELSE rate

(* Amounts of the baseline year, in hundredths. The outflow for capital counts
   the same whether the provider gives it a sign or not: capex is its size. *)
FreeCashFlow(income, cash) ==
  income.ebit * (100 - TaxRate(income)) + 100 * (cash.depreciation - cash.capex - cash.workingCapital)

TargetValue(v) ==
  100 * (MarketCap(Rows(v, "quote"), Rows(v, "profile")) + Balance(v).debt - Balance(v).cash)

ToBeValued(v) == [target |-> TargetValue(v), flow |-> FreeCashFlow(Income(v), CashFlow(v))]

HasInputs(v) ==
  /\ MarketKnown(Rows(v, "quote"), Rows(v, "profile"))
  /\ Four(v) \/ HasYear(v)
  /\ Income(v).revenue > 0
  /\ TargetValue(v) > 0

(* Inputs, of which SolverAssumption speaks, holds what can come to be valued. *)
Versions == {v \in [Datasets -> UNION {0..Len(Feed[d]) : d \in Datasets}] :
               \A d \in Datasets : v[d] <= Len(Feed[d])}

Complete(v) ==
  /\ \A d \in Quarterly : v[d] # 0
  /\ TooFewQuarters(v) => \A d \in Annual : v[d] # 0

ASSUME InputsAssumption ==
  \A v \in Versions : Complete(v) /\ HasInputs(v) => ToBeValued(v) \in Inputs

Value(w) ==
  /\ wf[w].at = "value" /\ HasInputs(Read(w))
  /\ StartSolver(ToBeValued(Read(w)))
  /\ wf' = [wf EXCEPT ![w].at = "solve"]
  /\ UNCHANGED <<now, published, cache>>

NoValue(w) ==
  /\ wf[w].at = "value" /\ ~HasInputs(Read(w))
  /\ wf' = [wf EXCEPT ![w] = Fails(w)]
  /\ UNCHANGED <<now, published, cache, solver>>

Solve == SolverStep /\ UNCHANGED nodeVars

(* summary: the least, the middle and the greatest of the converged growths,
   twice each because the middle may be half way between two. *)
Solved == {n \in DOMAIN solver.grid : solver.grid[n].status = "converged"}
AtMost(g) == {n \in Solved : solver.grid[n].growth <= g}

(* The k-th of them in their order *)
Growth(k) == Min({g \in {solver.grid[n].growth : n \in Solved} : Cardinality(AtMost(g)) >= k})

Summary ==
  LET n == Cardinality(Solved)
  IN  IF n = 0 THEN NoSummary
      ELSE [optimistic |-> 2 * Growth(1), conservative |-> 2 * Growth(n),
            median |-> Growth((n + 1) \div 2) + Growth((n + 2) \div 2)]

TakeSummary(w) ==
  /\ wf[w].at = "solve"
  /\ EndSolver
  /\ wf' = [wf EXCEPT ![w].at = "commit", ![w].summary = Summary]
  /\ UNCHANGED <<now, published, cache>>

-----------------------------------------------------------------------------
(* The COMMIT after the valuation makes the fetched rows visible. A lookup
   takes the row that was fetched last, so that older ones do not matter. *)
Newest(rows) == {row \in rows : \A other \in rows : other.fetched <= row.fetched}

Cached(w) ==
  cache' = [d \in Datasets |->
              Newest(cache[d] \cup (IF wf[w].rows[d].by = w THEN {wf[w].rows[d]} ELSE {}))]

CommitValuation(w) ==
  /\ wf[w].at = "commit"
  /\ Cached(w)
  /\ Moves(w, "commit", [New EXCEPT !.at = "audit", !.summary = wf[w].summary])
  /\ UNCHANGED <<now, published, solver>>

(* The database has committed, but the workflow does not learn it. *)
CommitUnanswered(w) ==
  /\ wf[w].at = "commit"
  /\ Cached(w)
  /\ Moves(w, "commit", Fails(w))
  /\ UNCHANGED <<now, published, solver>>

-----------------------------------------------------------------------------
(* An answer lists cases and growths, here as deviations from what it was asked
   for. AuditGrowthLikelihoodEnvelope and AdvisorProfileEnvelope: three cases,
   each once. *)
EachOnce(list, names) ==
  Len(list) = Cardinality(names) /\ {list[n].name : n \in DOMAIN list} = names

(* _validate_case_cagrs *)
SameGrowths(cases) == \A n \in DOMAIN cases : cases[n].off = 0

GrowthsOf(w, cases) ==
  [c \in Cases |-> LET n == CHOOSE m \in DOMAIN cases : cases[m].name = c
                   IN  wf[w].summary[c] + cases[n].off]

(* Without a summary there is nothing to ask for. *)
Audit(w, cases) ==
  /\ wf[w].at = "audit" /\ wf[w].summary # NoSummary
  /\ EachOnce(cases, Cases) /\ SameGrowths(cases)
  /\ Moves(w, "audit", [wf[w] EXCEPT !.at = "advise", !.audit = GrowthsOf(w, cases)])
  /\ UNCHANGED <<now, published, cache, solver>>

Mutant_AdviseUnchecked(w, advice) ==
  /\ wf[w].at = "advise"
  /\ EachOnce(advice, Profiles)
  /\ \A n \in DOMAIN advice : EachOnce(advice[n].cases, Cases)
  /\ Moves(w, "advise", [wf[w] EXCEPT !.at = "done", !.advice =
       [p \in Profiles |-> GrowthsOf(w, advice[CHOOSE n \in DOMAIN advice : advice[n].name = p].cases)]])
  /\ UNCHANGED <<now, published, cache, solver>>

(* The answer must also be about the symbol and the years asked for (the audit's
   only about the symbol): those that are not raise like all others (NodeFails). *)
Advise(w, advice) ==
  /\ wf[w].at = "advise"
  /\ EachOnce(advice, Profiles)
  /\ \A n \in DOMAIN advice : EachOnce(advice[n].cases, Cases) /\ SameGrowths(advice[n].cases)
  /\ Moves(w, "advise", [wf[w] EXCEPT !.at = "done", !.advice =
       [p \in Profiles |-> GrowthsOf(w, advice[CHOOSE n \in DOMAIN advice : advice[n].name = p].cases)]])
  /\ UNCHANGED <<now, published, cache, solver>>

(* A provider or the database raises, an answer is refused, a node is timed out. *)
NodeFails(w) ==
  /\ wf[w].at \notin Ended \cup {"new"}
  /\ Moves(w, wf[w].at, Fails(w))
  /\ UNCHANGED <<now, published, cache, solver>>

-----------------------------------------------------------------------------
Publish(d) ==
  /\ Calm
  /\ Len(published[d]) < Len(Feed[d])
  /\ published' = [published EXCEPT ![d] = Append(@, now)]
  /\ UNCHANGED <<now, cache, wf, solver>>

(* The event loop wakes a task when it is due, before more time passes, and the
   provider tells a status within its latency. The client sets no bound for it. *)
Due(w) ==
  \/ wf[w].at = "poll"
  \/ wf[w].at = "ask" /\ now >= wf[w].asked + Latency
  \/ wf[w].at = "sleep" /\ now >= wf[w].wake

Tick ==
  /\ now < MaxTime /\ Calm
  /\ ~\E w \in Workflows : Due(w)
  /\ now' = now + 1
  /\ UNCHANGED <<published, cache, wf, solver>>

Init ==
  /\ SolverInit
  /\ now = 0
  /\ published = [d \in Datasets |-> <<0>>]
  /\ cache = [d \in Datasets |-> {}]
  /\ wf = [w \in Workflows |-> New]

Next ==
  \/ \E w \in Workflows :
       \/ StartResearch(w) \/ Ask(w) \/ Poll(w) \/ Wake(w) \/ GiveUp(w) \/ Structure(w)
       \/ \E status \in {"completed", "failed"} : ProviderEnds(w, status)
       \/ Lookup(w) \/ Fetch(w) \/ Value(w) \/ NoValue(w)
       \/ TakeSummary(w) \/ CommitValuation(w) \/ CommitUnanswered(w)
       \/ \E cases \in Answers : Audit(w, cases)
       \/ \E advice \in Advices : Advise(w, advice)
       \/ NodeFails(w)
  \/ Solve
  \/ \E d \in Datasets : Publish(d)
  \/ Tick

Spec == Init /\ [][Next]_allVars

-----------------------------------------------------------------------------
(* A research that is given up had not been completed when its status was last
   asked for, and that was no longer ago than an interval and the answer take;
   none is waited for longer than that after its deadline. *)
ResearchEndsInTime ==
  \A w \in Workflows :
    /\ wf[w].at = "late" /\ wf[w].remote = "completed" =>
         /\ wf[w].asked <= wf[w].doneAt
         /\ wf[w].deadline <= wf[w].doneAt + PollInterval + Latency
    /\ wf[w].at \in {"poll", "ask", "sleep"} => now < wf[w].deadline + PollInterval + Latency

(* What a valuation takes from the cache or from the provider is the version
   that is current, or was less than TTL ago. *)
ReadsAreRecent ==
  [][\A w \in Workflows, d \in Datasets :
       LET version == wf'[w].rows[d].version
       IN  version \notin {0, wf[w].rows[d].version} =>
             version = Len(published[d]) \/ published[d][version + 1] + TTL > now]_allVars

(* Data that no valuation came of are not kept for the next one: it asks the
   provider again. *)
OnlyValuedIsCached ==
  \A d \in Datasets : \A row \in cache[d] : wf[row.by].at \in Valued

(* The growths that the advice and the audit speak of are those of the valuation
   of the same workflow, which lie in the bracket and in their order. *)
AdviceMatchesValuation ==
  \A w \in Workflows : wf[w].at = "done" =>
    /\ \A p \in Profiles : wf[w].advice[p] = wf[w].summary
    /\ wf[w].audit = wf[w].summary
    /\ 2 * Low <= wf[w].summary["optimistic"]
    /\ wf[w].summary["optimistic"] <= wf[w].summary["median"]
    /\ wf[w].summary["median"] <= wf[w].summary["conservative"]
    /\ wf[w].summary["conservative"] <= 2 * High
=============================================================================
