-------------------------- MODULE MCAnalysisNodes --------------------------
(* A small instance of AnalysisNodes: two workflows; the income of a quarter  *)
(* is withdrawn, and the year before has none.                                *)
EXTENDS AnalysisNodes, TLC

CONSTANTS w1, w2

MCWorkflows == {w1, w2}
Symmetric == Permutations(MCWorkflows)
MCDiscountRates == <<3>>
MCTerminalRates == <<0, 1, 2>>
MCLow == -9

Incomes(count, revenue, ebit) ==
  [count |-> count, revenue |-> revenue, ebit |-> ebit, beforeTax |-> ebit, tax |-> 2]
CashFlows(count, capex) ==
  [count |-> count, depreciation |-> 2, capex |-> capex, workingCapital |-> 0]
Balances(count, debt, cash) == [count |-> count, debt |-> debt, cash |-> cash]

MCFeed ==
  [quote |-> <<[price |-> 10, shares |-> Absent, cap |-> Absent]>>,
   profile |-> <<[shares |-> 10, cap |-> Absent]>>,
   quarterIncome |-> <<Incomes(4, 40, 10), Incomes(3, 30, 8)>>,
   quarterCashFlow |-> <<CashFlows(4, 3)>>,
   quarterBalance |-> <<Balances(1, 20, 5)>>,
   annualIncome |-> <<Incomes(1, 0, 0)>>,
   annualCashFlow |-> <<CashFlows(1, 3)>>,
   annualBalance |-> <<Balances(1, 20, 5)>>]

MCInputs == {[target |-> 11500, flow |-> 700]}

Asked == <<"optimistic", "median", "conservative">>
Listed(names, offs) == [n \in 1..3 |-> [name |-> names[n], off |-> offs[n]]]
Right == Listed(Asked, <<0, 0, 0>>)
Swapped == Listed(<<"conservative", "median", "optimistic">>, <<0, 0, 0>>)
Wrong == Listed(Asked, <<0, 0, 1>>)
Twice == Listed(<<"optimistic", "optimistic", "median">>, <<0, 0, 0>>)
MCAnswers == {Right, Swapped, Wrong, Twice}

Advice(first) ==
  <<[name |-> "cash_preservation", cases |-> first],
    [name |-> "balanced_compounder", cases |-> Right],
    [name |-> "capital_multiplier", cases |-> Swapped]>>
MCAdvices == {Advice(cases) : cases \in MCAnswers}

(* The clock goes on to MaxTime for those whose research goes on. *)
LateTicksAreOfResearch ==
  now > 2 => \A w \in Workflows : wf[w].at \in {"new", "poll", "ask", "sleep"} \cup Ended
=============================================================================
