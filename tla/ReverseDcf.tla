----------------------------- MODULE ReverseDcf -----------------------------
(***************************************************************************)
(* The valuation of workflows/analysis/nodes/reverse_dcf.py: the growth of *)
(* revenue at which the discounted cash flows of a company are worth its   *)
(* enterprise value, searched by bisection for every scenario of a grid of *)
(* discount rates and terminal growth rates.                               *)
(*                                                                         *)
(* Rates are multiples of 1/Unit and amounts integers; the residual of a   *)
(* scenario is multiplied by its (positive) denominator, so that its sign  *)
(* and its size against the tolerance are exact. A double has a next       *)
(* number as an integer has: halving an interval comes to a stop. What is  *)
(* answered is rounded, to a grain that holds many such numbers.           *)
(***************************************************************************)
EXTENDS Integers, Sequences

CONSTANTS
  Unit,          \* a rate r stands for r/Unit
  DiscountRates, TerminalRates,  \* _DISCOUNT_RATES, _TERMINAL_GROWTH_RATES
  Years,         \* _PROJECTION_YEARS
  Low, High,     \* the bracket of the search
  Grain,         \* of the answers: four digits of a percentage
  MaxIterations,
  Precision,     \* the tolerance is 1/Precision of the target, but at least Least
  Least,
  Inputs,        \* what is to be valued: target value and free cash flow
  NoGrowth       \* None

VARIABLE solver  \* the loop over the scenarios and the bisection inside

Count == Len(DiscountRates) * Len(TerminalRates)

(* The scenarios in the order of the two loops. *)
Discount(n) == DiscountRates[1 + (n - 1) \div Len(TerminalRates)]
Terminal(n) == TerminalRates[1 + ((n - 1) % Len(TerminalRates))]

(* _ev_residual. The revenue of the baseline year cancels out: every margin
   is divided by it and multiplied by it again. *)
Denominator(n) == (Unit + Discount(n))^Years * (Discount(n) - Terminal(n))

Residual(i, n, g) ==
  LET r == Unit + Discount(n)
      d == Discount(n) - Terminal(n)
      sum[t \in 0..Years] == IF t = 0 THEN 0 ELSE sum[t - 1] * r + (Unit + g)^t
  IN  i.flow * (d * sum[Years] + (Unit + g)^Years * (Unit + Terminal(n)))
        - i.target * Denominator(n)

Larger(a, b) == IF a < b THEN b ELSE a
Tolerance(i, n) == Larger(i.target \div Precision, Least) * Denominator(n)
Near(f, i, n) == f <= Tolerance(i, n) /\ -f <= Tolerance(i, n)

(* f_low * f_high <= 0 *)
Opposite(f, g) == (f <= 0 /\ g >= 0) \/ (f >= 0 /\ g <= 0)

(* The length of the interval after n halvings at the most. *)
Width[n \in 0..MaxIterations] == IF n = 0 THEN High - Low ELSE (Width[n - 1] + 1) \div 2

(* round: the nearest multiple of the grain, of two the even one. The error of
   the multiplication by 100 before it is left out. *)
Rounded(g) ==
  LET over == g % Grain
      odd == g % (2 * Grain) >= Grain
  IN  IF 2 * over > Grain \/ (2 * over = Grain /\ odd) THEN g - over + Grain ELSE g - over

(* g is answered with growth: less than the grain tells them apart. *)
AnsweredAs(g, growth) == 2 * (growth - g) <= Grain /\ 2 * (g - growth) <= Grain

Between(f, a, b) == (a <= f /\ f <= b) \/ (b <= f /\ f <= a)

(* Cash flows are a multiple of a polynomial in 1 + growth that only rises: the
   residual rises or falls with the growth. The bracket is halved often enough,
   and rounding does not lead out of it. *)
ASSUME SolverAssumption ==
  /\ Low \in Int /\ High \in Int /\ Low < High
  /\ Grain \in Nat \ {0} /\ \A g \in Low..High : Rounded(g) \in Low..High
  /\ MaxIterations \in Nat \ {0}
  /\ Len(DiscountRates) \in Nat /\ Len(TerminalRates) \in Nat
  /\ \A i \in Inputs, n \in 1..Count :
       /\ Discount(n) \in Int /\ Terminal(n) \in Int
       /\ Terminal(n) < Discount(n) =>
            /\ Tolerance(i, n) \in Nat
            /\ \A g \in Low..High :
                 /\ Residual(i, n, g) \in Int
                 /\ Between(Residual(i, n, g), Residual(i, n, Low), Residual(i, n, High))
  /\ \A n \in 0..MaxIterations : Width[n] \in Nat
  /\ Width[0] = High - Low /\ Width[MaxIterations] <= 1
  /\ \A n \in 1..MaxIterations : Width[n] = (Width[n - 1] + 1) \div 2
  /\ NoGrowth \notin Int

Mid == (solver.low + solver.high) \div 2
This == Len(solver.grid) + 1
ResidualAt(g) == Residual(solver.input, This, g)

Idle == [at |-> "idle", input |-> CHOOSE i \in Inputs : TRUE, grid |-> <<>>,
         low |-> Low, high |-> High, fLow |-> 0, fHigh |-> 0, iterations |-> 0]

(* One scenario is answered; the next begins afresh. *)
Answered(growth, status) ==
  solver' = [Idle EXCEPT !.at = "scenario", !.input = solver.input,
                         !.grid = Append(solver.grid, [growth |-> growth, status |-> status])]

-----------------------------------------------------------------------------
StartSolver(i) ==
  /\ solver.at = "idle"
  /\ solver' = [Idle EXCEPT !.at = "scenario", !.input = i]

Bracketed ==
  /\ Terminal(This) < Discount(This)
  /\ Opposite(ResidualAt(Low), ResidualAt(High))

StartScenario ==
  /\ solver.at = "scenario" /\ This <= Count
  /\ Bracketed
  /\ solver' = [solver EXCEPT !.at = "halving",
                              !.fLow = ResidualAt(Low), !.fHigh = ResidualAt(High)]

NoBracket ==
  /\ solver.at = "scenario" /\ This <= Count
  /\ ~Bracketed
  /\ Answered(NoGrowth, "unbracketed")

Converge ==
  /\ solver.at = "halving" /\ solver.iterations < MaxIterations
  /\ Near(ResidualAt(Mid), solver.input, This)
  /\ Answered(Rounded(Mid), "converged")

(* The operators named Mutant_... are faults a maintainer could introduce into
   a definition that follows them; the specification does not use them. *)
Mutant_HalveTowardsHigh ==
  /\ solver.at = "halving" /\ solver.iterations < MaxIterations
  /\ ~Near(ResidualAt(Mid), solver.input, This)
  /\ solver' = IF Opposite(solver.fHigh, ResidualAt(Mid))
               THEN [solver EXCEPT !.high = Mid, !.fHigh = ResidualAt(Mid), !.iterations = @ + 1]
               ELSE [solver EXCEPT !.low = Mid, !.fLow = ResidualAt(Mid), !.iterations = @ + 1]

Halve ==
  /\ solver.at = "halving" /\ solver.iterations < MaxIterations
  /\ ~Near(ResidualAt(Mid), solver.input, This)
  /\ solver' = IF Opposite(solver.fLow, ResidualAt(Mid))
               THEN [solver EXCEPT !.high = Mid, !.fHigh = ResidualAt(Mid), !.iterations = @ + 1]
               ELSE [solver EXCEPT !.low = Mid, !.fLow = ResidualAt(Mid), !.iterations = @ + 1]

Exhausted ==
  /\ solver.at = "halving" /\ solver.iterations = MaxIterations
  /\ Answered(Rounded(Mid), "exhausted")

(* Every scenario has its answer; the node takes them, see Summary. *)
EndSolver ==
  /\ solver.at = "scenario" /\ This > Count
  /\ solver' = Idle

SolverStep == StartScenario \/ NoBracket \/ Converge \/ Halve \/ Exhausted

SolverInit == solver = Idle
SolverNext == (\E i \in Inputs : StartSolver(i)) \/ SolverStep \/ EndSolver
SolverSpec == SolverInit /\ [][SolverNext]_solver

-----------------------------------------------------------------------------
(* What a scenario is answered with: to half a grain, a growth that gives the
   target value to within the tolerance, or the one below the only place where
   the value crosses the target; or nothing, if no growth of the bracket gives
   it. The value of the answer itself may miss the tolerance. *)
SolverFindsRoot ==
  \A n \in DOMAIN solver.grid :
    LET answer == solver.grid[n]
        f(g) == Residual(solver.input, n, g)
    IN  /\ answer.status = "converged" =>
             /\ answer.growth \in Low..High
             /\ \E g \in Low..High : AnsweredAs(g, answer.growth) /\ Near(f(g), solver.input, n)
        /\ answer.status = "exhausted" =>
             /\ answer.growth \in Low..High
             /\ \E g \in Low..High - 1 :
                  AnsweredAs(g, answer.growth) /\ Opposite(f(g), f(g + 1))
        /\ answer.status = "unbracketed" /\ Terminal(n) < Discount(n) =>
             \A g \in Low..High : f(g) # 0
=============================================================================
