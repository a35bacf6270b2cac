------------------------ MODULE AnalysisNodes_proofs ------------------------
(***************************************************************************)
(* The nodes of any number of workflows of a symbol. First the valuation   *)
(* alone, for any rates, bracket and inputs of SolverAssumption: the       *)
(* bisection keeps a crossing between the ends of its interval. Then the   *)
(* nodes around it: the research that is polled, the cache of company      *)
(* data, the summary of the valuation and what is advised on it.           *)
(***************************************************************************)
EXTENDS AnalysisNodes, SequenceTheorems, FiniteSetTheorems, TLAPS

Answer == [growth : Int \cup {NoGrowth}, status : {"converged", "exhausted", "unbracketed"}]

SolverTypes ==
  solver \in [at : {"idle", "scenario", "halving"}, input : Inputs \cup {Idle.input},
              grid : Seq(Answer), low : Int, high : Int, fLow : Int, fHigh : Int,
              iterations : Nat]

(* What SolverFindsRoot says of one answer. *)
Sound(i, n, answer) ==
  /\ answer.status = "converged" =>
       /\ answer.growth \in Low..High
       /\ \E g \in Low..High : AnsweredAs(g, answer.growth) /\ Near(Residual(i, n, g), i, n)
  /\ answer.status = "exhausted" =>
       /\ answer.growth \in Low..High
       /\ \E g \in Low..High - 1 :
            AnsweredAs(g, answer.growth) /\ Opposite(Residual(i, n, g), Residual(i, n, g + 1))
  /\ answer.status = "unbracketed" /\ Terminal(n) < Discount(n) =>
       \A g \in Low..High : Residual(i, n, g) # 0

(* The interval holds a crossing and is as short as its halvings say. *)
HoldsCrossing ==
  /\ This \in 1..Count /\ Terminal(This) < Discount(This)
  /\ Low <= solver.low /\ solver.low < solver.high /\ solver.high <= High
  /\ solver.fLow = ResidualAt(solver.low) /\ solver.fHigh = ResidualAt(solver.high)
  /\ Opposite(solver.fLow, solver.fHigh)
  /\ solver.iterations <= MaxIterations
  /\ solver.high - solver.low <= Width[solver.iterations]

SolverInv ==
  /\ SolverTypes
  /\ solver.at # "idle" => solver.input \in Inputs
  /\ solver.at = "idle" => solver.grid = <<>>
  /\ solver.at = "scenario" => solver.low = Low /\ solver.high = High /\ solver.iterations = 0
  /\ solver.at = "halving" => HoldsCrossing
  /\ \A n \in DOMAIN solver.grid : Sound(solver.input, n, solver.grid[n])

-----------------------------------------------------------------------------
(* Halving keeps a crossing and shortens the interval, whatever the residual. *)
LEMMA MidIsInside ==
  ASSUME NEW a \in Int, NEW b \in Int, a < b
  PROVE  LET m == (a + b) \div 2 IN
           /\ m \in Int /\ a <= m /\ m < b
           /\ m - a <= (b - a + 1) \div 2 /\ b - m <= (b - a + 1) \div 2
  OBVIOUS

LEMMA CrossingIsInAHalf ==
  ASSUME NEW f \in Int, NEW g \in Int, NEW h \in Int,
         Opposite(f, h), ~Opposite(f, g)
  PROVE  Opposite(g, h)
  BY DEF Opposite

LEMMA BracketIsHalved ==
  /\ Low \in Int /\ High \in Int /\ Low < High /\ MaxIterations \in Nat \ {0}
  /\ Width[0] = High - Low /\ Width[MaxIterations] <= 1
  /\ \A n \in 0..MaxIterations : Width[n] \in Nat
  /\ \A n \in 1..MaxIterations : Width[n] = (Width[n - 1] + 1) \div 2
  BY SolverAssumption

(* The residual is a number at every growth of the bracket. *)
LEMMA ResidualIsNumber ==
  ASSUME NEW i \in Inputs, NEW n \in 1..Count, Terminal(n) < Discount(n),
         NEW g \in Low..High
  PROVE  /\ Residual(i, n, g) \in Int
         /\ Between(Residual(i, n, g), Residual(i, n, Low), Residual(i, n, High))
         /\ Tolerance(i, n) \in Nat
  BY SolverAssumption

(* A new scenario keeps what was answered before. *)
LEMMA AnsweredKeepsInv ==
  ASSUME SolverInv, solver.at # "idle", NEW growth, NEW status,
         Answered(growth, status),
         [growth |-> growth, status |-> status] \in Answer,
         Sound(solver.input, This, [growth |-> growth, status |-> status])
  PROVE  SolverInv'
  <1> DEFINE answer == [growth |-> growth, status |-> status]
  <1>1. solver.grid \in Seq(Answer) /\ solver.input \in Inputs
    BY DEF SolverInv, SolverTypes
  <1>2. solver' = [at |-> "scenario", input |-> solver.input,
                   grid |-> Append(solver.grid, answer), low |-> Low, high |-> High,
                   fLow |-> 0, fHigh |-> 0, iterations |-> 0]
    BY DEF Answered, Idle
  <1>3. SolverTypes'
    <2>1. Append(solver.grid, answer) \in Seq(Answer)
      BY <1>1
    <2> QED  BY <1>1, <1>2, <2>1, SolverAssumption DEF SolverTypes
  <1>4. \A n \in DOMAIN solver'.grid : Sound(solver'.input, n, solver'.grid[n])
    <2> SUFFICES ASSUME NEW n \in DOMAIN Append(solver.grid, answer)
                 PROVE  Sound(solver.input, n, Append(solver.grid, answer)[n])
      BY <1>2
    <2>1. CASE n \in DOMAIN solver.grid
      <3>1. Append(solver.grid, answer)[n] = solver.grid[n]
        BY <1>1, <2>1
      <3> QED  BY <2>1, <3>1 DEF SolverInv
    <2>2. CASE n \notin DOMAIN solver.grid
      <3>1. n = This /\ Append(solver.grid, answer)[n] = answer
        BY <1>1, <2>2 DEF This
      <3> QED  BY <3>1
    <2> QED  BY <2>1, <2>2
  <1> QED  BY <1>1, <1>2, <1>3, <1>4 DEF SolverInv, Sound

-----------------------------------------------------------------------------
(* Each operation of the solver *)
LEMMA StartSolverKeepsInv ==
  ASSUME SolverInv, NEW i \in Inputs, StartSolver(i)
  PROVE  SolverInv'
  <1>1. solver' = [at |-> "scenario", input |-> i, grid |-> <<>>, low |-> Low, high |-> High,
                   fLow |-> 0, fHigh |-> 0, iterations |-> 0]
    BY DEF StartSolver, Idle
  <1>2. SolverTypes'
    BY <1>1, SolverAssumption DEF SolverTypes
  <1> QED  BY <1>1, <1>2 DEF SolverInv

LEMMA StartScenarioKeepsInv ==
  ASSUME SolverInv, StartScenario
  PROVE  SolverInv'
  <1>1. /\ solver.at = "scenario" /\ solver.input \in Inputs /\ This \in 1..Count
        /\ solver.low = Low /\ solver.high = High /\ solver.iterations = 0
    BY DEF StartScenario, SolverInv, SolverTypes, This
  <1>2. Terminal(This) < Discount(This) /\ Opposite(ResidualAt(Low), ResidualAt(High))
    BY DEF StartScenario, Bracketed
  <1>3. ResidualAt(Low) \in Int /\ ResidualAt(High) \in Int
    <2>1. Low \in Low..High /\ High \in Low..High
      BY SolverAssumption
    <2> QED  BY <1>1, <1>2, <2>1, ResidualIsNumber DEF ResidualAt
  <1>4. solver' = [solver EXCEPT !.at = "halving", !.fLow = ResidualAt(Low),
                                 !.fHigh = ResidualAt(High)]
    BY DEF StartScenario
  <1>5. SolverTypes'
    BY <1>3, <1>4 DEF SolverInv, SolverTypes
  <1>6. /\ solver'.at = "halving" /\ solver'.input = solver.input /\ solver'.grid = solver.grid
        /\ solver'.low = Low /\ solver'.high = High /\ solver'.iterations = 0
        /\ solver'.fLow = ResidualAt(Low) /\ solver'.fHigh = ResidualAt(High)
    BY <1>1, <1>4 DEF SolverInv, SolverTypes
  <1>7. HoldsCrossing'
    BY <1>1, <1>2, <1>6, BracketIsHalved DEF HoldsCrossing, This, ResidualAt
  <1> QED  BY <1>1, <1>5, <1>6, <1>7 DEF SolverInv

(* Without a crossing between the ends, the residual keeps its sign. *)
LEMMA NoBracketKeepsInv ==
  ASSUME SolverInv, NoBracket
  PROVE  SolverInv'
  <1> DEFINE answer == [growth |-> NoGrowth, status |-> "unbracketed"]
  <1>1. /\ solver.at = "scenario" /\ solver.input \in Inputs /\ This \in 1..Count
        /\ ~Bracketed /\ Answered(NoGrowth, "unbracketed")
    BY DEF NoBracket, SolverInv, SolverTypes, This
  <1>2. ASSUME Terminal(This) < Discount(This), NEW g \in Low..High
        PROVE  Residual(solver.input, This, g) # 0
    <2>1. ~Opposite(ResidualAt(Low), ResidualAt(High))
      BY <1>1, <1>2 DEF Bracketed
    <2>2. Low \in Low..High /\ High \in Low..High
      BY SolverAssumption
    <2>3. /\ ResidualAt(Low) \in Int /\ ResidualAt(High) \in Int /\ ResidualAt(g) \in Int
          /\ Between(ResidualAt(g), ResidualAt(Low), ResidualAt(High))
      BY <1>1, <1>2, <2>2, ResidualIsNumber DEF ResidualAt
    <2> QED  BY <2>1, <2>3 DEF Opposite, Between, ResidualAt
  <1>3. Sound(solver.input, This, answer)
    BY <1>2 DEF Sound
  <1>4. answer \in Answer
    BY DEF Answer
  <1> QED  BY <1>1, <1>3, <1>4, AnsweredKeepsInv

(* The middle of the interval lies in the bracket. *)
LEMMA MidIsGrowth ==
  ASSUME SolverInv, solver.at = "halving"
  PROVE  /\ Mid \in Low..High - 1 /\ solver.input \in Inputs /\ This \in 1..Count
         /\ ResidualAt(Mid) \in Int /\ solver.low \in Low..High /\ solver.high \in Low..High
         /\ Terminal(This) < Discount(This)
         /\ solver.low <= Mid /\ Mid < solver.high
         /\ Mid - solver.low <= (solver.high - solver.low + 1) \div 2
         /\ solver.high - Mid <= (solver.high - solver.low + 1) \div 2
  <1>1. /\ HoldsCrossing /\ solver.input \in Inputs
        /\ solver.low \in Int /\ solver.high \in Int /\ Low \in Int /\ High \in Int
    BY BracketIsHalved DEF SolverInv, SolverTypes
  <1>2. /\ Mid \in Int /\ solver.low <= Mid /\ Mid < solver.high
        /\ Mid - solver.low <= (solver.high - solver.low + 1) \div 2
        /\ solver.high - Mid <= (solver.high - solver.low + 1) \div 2
    BY <1>1, MidIsInside DEF HoldsCrossing, Mid
  <1>3. Mid \in Low..High - 1 /\ Mid \in Low..High
    BY <1>1, <1>2 DEF HoldsCrossing
  <1> QED  BY <1>1, <1>2, <1>3, ResidualIsNumber DEF HoldsCrossing, ResidualAt

(* Rounding moves a growth by half a grain at the most. *)
LEMMA RoundedIsNear ==
  ASSUME NEW g \in Low..High
  PROVE  Rounded(g) \in Low..High /\ Rounded(g) \in Int /\ AnsweredAs(g, Rounded(g))
  <1>1. /\ Grain \in Nat \ {0} /\ Low \in Int /\ High \in Int
        /\ Rounded(g) \in Low..High /\ g \in Int
    BY SolverAssumption
  <1>2. PICK over \in 0..Grain - 1 : over = g % Grain
    BY <1>1
  <1>3. \/ 2 * over >= Grain /\ Rounded(g) = g - over + Grain
        \/ 2 * over <= Grain /\ Rounded(g) = g - over
    BY <1>1, <1>2 DEF Rounded
  <1> QED  BY <1>1, <1>2, <1>3 DEF AnsweredAs

LEMMA ConvergeKeepsInv ==
  ASSUME SolverInv, Converge
  PROVE  SolverInv'
  <1> DEFINE answer == [growth |-> Rounded(Mid), status |-> "converged"]
  <1>1. /\ solver.at = "halving" /\ Near(ResidualAt(Mid), solver.input, This)
        /\ Answered(Rounded(Mid), "converged")
    BY DEF Converge
  <1>2. Mid \in Low..High
    BY <1>1, MidIsGrowth, BracketIsHalved
  <1>3. Rounded(Mid) \in Low..High /\ Rounded(Mid) \in Int /\ AnsweredAs(Mid, Rounded(Mid))
    BY <1>2, RoundedIsNear
  <1>4. Sound(solver.input, This, answer)
    BY <1>1, <1>2, <1>3 DEF Sound, ResidualAt
  <1>5. answer \in Answer
    BY <1>3 DEF Answer
  <1> QED  BY <1>1, <1>4, <1>5, AnsweredKeepsInv

(* After the last halving the interval has length 1: its lower end answers. *)
LEMMA ExhaustedKeepsInv ==
  ASSUME SolverInv, Exhausted
  PROVE  SolverInv'
  <1> DEFINE answer == [growth |-> Rounded(Mid), status |-> "exhausted"]
  <1>1. /\ solver.at = "halving" /\ solver.iterations = MaxIterations
        /\ Answered(Rounded(Mid), "exhausted") /\ HoldsCrossing
    BY DEF Exhausted, SolverInv
  <1>2. solver.low \in Int /\ solver.high \in Int
    BY DEF SolverInv, SolverTypes
  <1>3. solver.high - solver.low <= 1
    BY <1>1, <1>2, BracketIsHalved DEF HoldsCrossing
  <1>4. solver.high = solver.low + 1
    BY <1>1, <1>2, <1>3 DEF HoldsCrossing
  <1>5. Mid = solver.low /\ Mid \in Low..High - 1 /\ Mid \in Int
    <2>1. Mid \in Low..High - 1 /\ solver.low <= Mid /\ Mid < solver.high
      BY <1>1, MidIsGrowth
    <2>2. Mid \in Int
      BY <2>1, BracketIsHalved
    <2> HIDE DEF Mid
    <2> QED  BY <1>2, <1>4, <2>1, <2>2
  <1>6. Opposite(ResidualAt(Mid), ResidualAt(Mid + 1))
    BY <1>1, <1>4, <1>5 DEF HoldsCrossing
  <1>7. Rounded(Mid) \in Low..High /\ Rounded(Mid) \in Int /\ AnsweredAs(Mid, Rounded(Mid))
    <2>1. Mid \in Low..High
      BY <1>5, BracketIsHalved
    <2> QED  BY <2>1, RoundedIsNear
  <1>8. Sound(solver.input, This, answer)
    BY <1>5, <1>6, <1>7 DEF Sound, ResidualAt
  <1>9. answer \in Answer
    BY <1>7 DEF Answer
  <1> QED  BY <1>1, <1>8, <1>9, AnsweredKeepsInv

(* Moving one end of the interval keeps the types. *)
LEMMA MovedEndKeepsTypes ==
  ASSUME SolverTypes, NEW m \in Int, NEW f \in Int,
         \/ solver' = [solver EXCEPT !.high = m, !.fHigh = f, !.iterations = @ + 1]
         \/ solver' = [solver EXCEPT !.low = m, !.fLow = f, !.iterations = @ + 1]
  PROVE  SolverTypes'
  <1>1. solver.iterations + 1 \in Nat
    BY DEF SolverTypes
  <1> DEFINE next == solver.iterations + 1
  <1> HIDE DEF next
  <1>2. CASE solver' = [solver EXCEPT !.high = m, !.fHigh = f, !.iterations = @ + 1]
    <2>1. solver' = [solver EXCEPT !.high = m, !.fHigh = f, !.iterations = next]
      BY <1>2 DEF next
    <2>2. next \in Nat
      BY <1>1 DEF next
    <2> QED  BY <2>1, <2>2 DEF SolverTypes
  <1>3. CASE solver' = [solver EXCEPT !.low = m, !.fLow = f, !.iterations = @ + 1]
    <2>1. solver' = [solver EXCEPT !.low = m, !.fLow = f, !.iterations = next]
      BY <1>3 DEF next
    <2>2. next \in Nat
      BY <1>1 DEF next
    <2> QED  BY <2>1, <2>2 DEF SolverTypes
  <1> QED  BY <1>2, <1>3

(* The half that is kept has residuals of opposite sign at its ends: since the
   residual in the middle is not near zero, the interval does not collapse. *)
LEMMA HalveKeepsInv ==
  ASSUME SolverInv, Halve
  PROVE  SolverInv'
  <1> DEFINE f == ResidualAt(Mid)
  <1>1. /\ solver.at = "halving" /\ solver.iterations < MaxIterations
        /\ ~Near(f, solver.input, This) /\ HoldsCrossing
    BY DEF Halve, SolverInv
  <1>2. /\ solver.low \in Int /\ solver.high \in Int /\ solver.iterations \in Nat
        /\ solver.fLow \in Int /\ solver.fHigh \in Int
    BY DEF SolverInv, SolverTypes
  <1>3. f \in Int /\ Mid \in Int /\ solver.low <= Mid /\ Mid < solver.high
    BY <1>1, MidIsGrowth, BracketIsHalved
  <1>4. f # 0
    <2>1. Tolerance(solver.input, This) \in Nat
      BY <1>1, MidIsGrowth, ResidualIsNumber, BracketIsHalved
    <2> QED  BY <1>1, <2>1 DEF Near
  <1>5. /\ solver.iterations + 1 \in 0..MaxIterations
        /\ Mid - solver.low <= Width[solver.iterations + 1]
        /\ solver.high - Mid <= Width[solver.iterations + 1]
    <2> DEFINE n == solver.iterations
    <2>1. n \in 0..MaxIterations /\ n + 1 \in 1..MaxIterations /\ n + 1 \in 0..MaxIterations
      BY <1>1, <1>2, BracketIsHalved
    <2>2. Width[n] \in Nat /\ Width[n + 1] = (Width[n] + 1) \div 2
      <3>1. (n + 1) - 1 = n
        BY <2>1
      <3> QED  BY <2>1, <3>1, BracketIsHalved
    <2>3. solver.high - solver.low <= Width[n]
      BY <1>1 DEF HoldsCrossing
    <2>4. (solver.high - solver.low + 1) \div 2 <= (Width[n] + 1) \div 2
      BY <1>2, <2>2, <2>3
    <2>5. /\ Mid - solver.low <= (solver.high - solver.low + 1) \div 2
          /\ solver.high - Mid <= (solver.high - solver.low + 1) \div 2
      BY <1>1, MidIsGrowth
    <2>6. (solver.high - solver.low + 1) \div 2 \in Int
      BY <1>2
    <2> HIDE DEF n
    <2>7. Mid - solver.low <= Width[n + 1] /\ solver.high - Mid <= Width[n + 1]
      BY <1>2, <1>3, <2>2, <2>4, <2>5, <2>6
    <2> QED  BY <2>1, <2>7 DEF n
  <1>8. /\ This \in 1..Count /\ Terminal(This) < Discount(This)
        /\ Low \in Int /\ High \in Int /\ MaxIterations \in Nat
        /\ Low <= solver.low /\ solver.high <= High
        /\ solver.fLow = ResidualAt(solver.low) /\ solver.fHigh = ResidualAt(solver.high)
    BY <1>1, BracketIsHalved DEF HoldsCrossing
  <1>6. CASE Opposite(solver.fLow, f)
    <2>1. solver' = [solver EXCEPT !.high = Mid, !.fHigh = f, !.iterations = @ + 1]
      BY <1>6 DEF Halve
    <2>2. SolverTypes'
      <3>1. PICK m \in Int, v \in Int : m = Mid /\ v = f
        BY <1>3
      <3> HIDE DEF f
      <3> QED  BY <2>1, <3>1, MovedEndKeepsTypes DEF SolverInv
    <2>3. /\ solver'.at = "halving" /\ solver'.input = solver.input /\ solver'.grid = solver.grid
          /\ solver'.low = solver.low /\ solver'.high = Mid
          /\ solver'.fLow = solver.fLow /\ solver'.fHigh = f
          /\ solver'.iterations = solver.iterations + 1
      BY <1>1, <2>1 DEF SolverInv, SolverTypes
    <2>4. solver.low # Mid
      BY <1>1, <1>2, <1>3, <1>4, <1>6 DEF HoldsCrossing, Opposite
    <2>5. HoldsCrossing'
      <3>1. This' = This /\ \A g : ResidualAt(g)' = ResidualAt(g)
        BY <2>3 DEF This, ResidualAt
      <3>2. /\ Low <= solver'.low /\ solver'.low < solver'.high /\ solver'.high <= High
            /\ solver'.iterations <= MaxIterations
            /\ solver'.high - solver'.low <= Width[solver'.iterations]
        BY <1>2, <1>3, <1>5, <1>8, <2>3, <2>4
      <3>3. /\ solver'.fLow = ResidualAt(solver'.low) /\ solver'.fHigh = ResidualAt(solver'.high)
            /\ Opposite(solver'.fLow, solver'.fHigh)
        BY <1>6, <1>8, <2>3
      <3> QED  BY <1>8, <3>1, <3>2, <3>3 DEF HoldsCrossing
    <2> QED  BY <1>1, <2>2, <2>3, <2>5 DEF SolverInv
  <1>7. CASE ~Opposite(solver.fLow, f)
    <2>1. solver' = [solver EXCEPT !.low = Mid, !.fLow = f, !.iterations = @ + 1]
      BY <1>7 DEF Halve
    <2>2. SolverTypes'
      <3>1. PICK m \in Int, v \in Int : m = Mid /\ v = f
        BY <1>3
      <3> HIDE DEF f
      <3> QED  BY <2>1, <3>1, MovedEndKeepsTypes DEF SolverInv
    <2>3. /\ solver'.at = "halving" /\ solver'.input = solver.input /\ solver'.grid = solver.grid
          /\ solver'.low = Mid /\ solver'.high = solver.high
          /\ solver'.fLow = f /\ solver'.fHigh = solver.fHigh
          /\ solver'.iterations = solver.iterations + 1
      BY <1>1, <2>1 DEF SolverInv, SolverTypes
    <2>4. Opposite(f, solver.fHigh)
      BY <1>1, <1>2, <1>3, <1>7, CrossingIsInAHalf DEF HoldsCrossing
    <2>5. HoldsCrossing'
      <3>1. This' = This /\ \A g : ResidualAt(g)' = ResidualAt(g)
        BY <2>3 DEF This, ResidualAt
      <3>2. /\ Low <= solver'.low /\ solver'.low < solver'.high /\ solver'.high <= High
            /\ solver'.iterations <= MaxIterations
            /\ solver'.high - solver'.low <= Width[solver'.iterations]
        BY <1>2, <1>3, <1>5, <1>8, <2>3
      <3>3. /\ solver'.fLow = ResidualAt(solver'.low) /\ solver'.fHigh = ResidualAt(solver'.high)
            /\ Opposite(solver'.fLow, solver'.fHigh)
        BY <1>8, <2>3, <2>4
      <3> QED  BY <1>8, <3>1, <3>2, <3>3 DEF HoldsCrossing
    <2> QED  BY <1>1, <2>2, <2>3, <2>5 DEF SolverInv
  <1> QED  BY <1>6, <1>7

LEMMA EndSolverKeepsInv ==
  ASSUME SolverInv, EndSolver
  PROVE  SolverInv'
  <1>1. solver' = [at |-> "idle", input |-> CHOOSE i \in Inputs : TRUE, grid |-> <<>>,
                   low |-> Low, high |-> High, fLow |-> 0, fHigh |-> 0, iterations |-> 0]
    BY DEF EndSolver, Idle
  <1>2. SolverTypes'
    BY <1>1, SolverAssumption DEF SolverTypes, Idle
  <1> QED  BY <1>1, <1>2 DEF SolverInv

LEMMA InitHasSolverInv == SolverInit => SolverInv
  BY SolverAssumption DEF SolverInit, SolverInv, SolverTypes, Idle

LEMMA NextKeepsSolverInv == SolverInv /\ [SolverNext]_solver => SolverInv'
  <1> SUFFICES ASSUME SolverInv, [SolverNext]_solver PROVE SolverInv'
    OBVIOUS
  <1>1. CASE \E i \in Inputs : StartSolver(i)
    BY <1>1, StartSolverKeepsInv
  <1>2. CASE StartScenario
    BY <1>2, StartScenarioKeepsInv
  <1>3. CASE NoBracket
    BY <1>3, NoBracketKeepsInv
  <1>4. CASE Converge
    BY <1>4, ConvergeKeepsInv
  <1>5. CASE Halve
    BY <1>5, HalveKeepsInv
  <1>6. CASE Exhausted
    BY <1>6, ExhaustedKeepsInv
  <1>7. CASE EndSolver
    BY <1>7, EndSolverKeepsInv
  <1>8. CASE UNCHANGED solver
    BY <1>8 DEF SolverInv, SolverTypes, HoldsCrossing, This, ResidualAt
  <1> QED
    BY <1>1, <1>2, <1>3, <1>4, <1>5, <1>6, <1>7, <1>8 DEF SolverNext, SolverStep

LEMMA SolverInvIsRight == SolverInv => SolverFindsRoot
  BY DEF SolverInv, SolverFindsRoot, Sound

-----------------------------------------------------------------------------
(* Whatever is to be valued, whatever the rates, the bracket and the grain: a
   scenario is answered, to half a grain, with a growth that gives the target to
   within the tolerance, or with the one at the only crossing, or it is refused
   because no growth of the bracket gives the target. *)
THEOREM SolverIsRight == SolverSpec => []SolverFindsRoot
  BY InitHasSolverInv, NextKeepsSolverInv, SolverInvIsRight, PTL DEF SolverSpec

-----------------------------------------------------------------------------
(* The order of numbers, from the least-number principle of the library. *)
LEMMA NatHasLeast ==
  ASSUME NEW S \in SUBSET Nat, S # {}
  PROVE  \E x \in S : \A y \in S : x <= y
  <1>1. IsWellFoundedOn({ss \in Nat \X Nat : ss[1] < ss[2]}, Nat)
    BY NatLessThanWellFounded DEF OpToRel
  <1>2. PICK R : R = {ss \in Nat \X Nat : ss[1] < ss[2]}
    OBVIOUS
  <1>3. PICK x \in S : \A y \in S : ~(<<y, x>> \in R)
    BY <1>1, <1>2, WFMin
  <1>4. \A y \in S : ~(y < x)
    BY <1>2, <1>3
  <1> QED  BY <1>3, <1>4

LEMMA IntervalHasEnds ==
  ASSUME NEW a \in Int, NEW b \in Int, NEW S \in SUBSET (a..b), S # {}
  PROVE  /\ Min(S) \in S /\ \A y \in S : Min(S) <= y
         /\ \E x \in S : \A y \in S : y <= x
  <1>1. \A x \in S : x \in Int /\ a <= x /\ x <= b
    OBVIOUS
  <1>2. PICK T : T = {x - a : x \in S}
    OBVIOUS
  <1>3. T \in SUBSET Nat /\ T # {}
    <2>1. ASSUME NEW t \in T PROVE t \in Nat
      BY <1>1, <1>2
    <2>2. PICK x : x \in S
      OBVIOUS
    <2>3. x - a \in T
      BY <1>2, <2>2
    <2> QED  BY <2>1, <2>3
  <1>4. PICK t \in T : \A u \in T : t <= u
    BY <1>3, NatHasLeast
  <1>5. PICK x \in S : t = x - a
    BY <1>2
  <1>6. \A y \in S : x <= y
    <2>1. ASSUME NEW y \in S PROVE x <= y
      <3>1. y - a \in T
        BY <1>2
      <3> QED  BY <1>1, <1>4, <1>5, <3>1
    <2> QED  BY <2>1
  <1>7. Min(S) \in S /\ \A y \in S : Min(S) <= y
    BY <1>6 DEF Min
  <1>8. PICK U : U = {b - y : y \in S}
    OBVIOUS
  <1>9. U \in SUBSET Nat /\ U # {}
    <2>1. ASSUME NEW u \in U PROVE u \in Nat
      BY <1>1, <1>8
    <2>2. b - x \in U
      BY <1>8
    <2> QED  BY <2>1, <2>2
  <1>10. PICK u \in U : \A v \in U : u <= v
    BY <1>9, NatHasLeast
  <1>11. PICK z \in S : u = b - z
    BY <1>8
  <1>12. \A y \in S : y <= z
    <2>1. ASSUME NEW y \in S PROVE y <= z
      <3>1. b - y \in U
        BY <1>8
      <3> QED  BY <1>1, <1>10, <1>11, <3>1
    <2> QED  BY <2>1
  <1> QED  BY <1>7, <1>12

(* The growths that converged lie in the bracket; the k-th of them is one of
   them, and no later one is smaller. *)
Converged == {solver.grid[n].growth : n \in Solved}

LEMMA SolvedIsFinite ==
  ASSUME SolverInv
  PROVE  /\ IsFiniteSet(Solved) /\ Cardinality(Solved) \in Nat
         /\ Converged \in SUBSET (Low..High)
         /\ \A g : AtMost(g) \in SUBSET Solved /\ Cardinality(AtMost(g)) \in Nat
  <1>1. solver.grid \in Seq(Answer)
    BY DEF SolverInv, SolverTypes
  <1>2. DOMAIN solver.grid = 1..Len(solver.grid) /\ Len(solver.grid) \in Nat
    BY <1>1
  <1>3. IsFiniteSet(DOMAIN solver.grid)
    BY <1>2, FS_Interval
  <1>4. IsFiniteSet(Solved) /\ Cardinality(Solved) \in Nat
    BY <1>3, FS_Subset, FS_CardinalityType DEF Solved
  <1>5. Converged \in SUBSET (Low..High)
    BY DEF Converged, Solved, SolverInv, Sound
  <1>6. ASSUME NEW g PROVE AtMost(g) \in SUBSET Solved /\ Cardinality(AtMost(g)) \in Nat
    <2>1. AtMost(g) \in SUBSET Solved
      BY DEF AtMost
    <2>2. IsFiniteSet(AtMost(g))
      BY <1>4, <2>1, FS_Subset
    <2> QED  BY <2>1, <2>2, FS_CardinalityType
  <1> QED  BY <1>4, <1>5, <1>6

LEMMA GrowthIsConverged ==
  ASSUME SolverInv, NEW k \in 1..Cardinality(Solved)
  PROVE  /\ Growth(k) \in Low..High
         /\ \A j \in 1..k : Growth(j) <= Growth(k)
  <1> DEFINE From(j) == {g \in Converged : Cardinality(AtMost(g)) >= j}
  <1>1. /\ Low \in Int /\ High \in Int /\ Cardinality(Solved) \in Nat
        /\ Converged \in SUBSET (Low..High)
        /\ \A g : Cardinality(AtMost(g)) \in Nat
    BY SolvedIsFinite, SolverAssumption
  <1>2. Solved # {}
    BY <1>1, FS_EmptySet
  <1>3. Converged # {}
    BY <1>2 DEF Converged
  <1>4. PICK top \in Converged : \A g \in Converged : g <= top
    BY <1>1, <1>3, IntervalHasEnds
  <1>5. AtMost(top) = Solved
    BY <1>4 DEF AtMost, Converged
  <1>6. ASSUME NEW j \in 1..k
        PROVE  Growth(j) \in From(j) /\ \A g \in From(j) : Growth(j) <= g
    <2>1. top \in From(j)
      BY <1>1, <1>4, <1>5
    <2>2. From(j) \in SUBSET (Low..High) /\ From(j) # {}
      BY <1>1, <2>1
    <2>3. Min(From(j)) \in From(j) /\ \A g \in From(j) : Min(From(j)) <= g
      <3> HIDE DEF From
      <3> QED  BY <1>1, <2>2, IntervalHasEnds
    <2>4. Growth(j) = Min(From(j))
      BY DEF Growth, Converged
    <2> QED  BY <2>3, <2>4
  <1>7. Growth(k) \in From(k)
    BY <1>1, <1>6
  <1>8. ASSUME NEW j \in 1..k PROVE Growth(j) <= Growth(k)
    <2>1. Growth(k) \in From(j)
      BY <1>1, <1>7
    <2> QED  BY <1>6, <2>1
  <1> QED  BY <1>1, <1>7, <1>8

(* The bracket holds the growths, and none of them is out of order. *)
InOrder(s) ==
  /\ 2 * Low <= s["optimistic"] /\ s["optimistic"] <= s["median"]
  /\ s["median"] <= s["conservative"] /\ s["conservative"] <= 2 * High

LEMMA SummaryIsInOrder ==
  ASSUME SolverInv
  PROVE  Summary = NoSummary \/ (Summary \in [Cases -> Int] /\ InOrder(Summary))
  <1> DEFINE n == Cardinality(Solved)
  <1>1. CASE n = 0
    BY <1>1 DEF Summary
  <1>2. CASE n # 0
    <2>1. n \in Nat \ {0} /\ Low \in Int /\ High \in Int
      BY <1>2, SolvedIsFinite, SolverAssumption
    <2>2. PICK i \in 1..n, j \in 1..n : i = (n + 1) \div 2 /\ j = (n + 2) \div 2
      BY <2>1
    <2>3. i <= j
      BY <2>1, <2>2
    <2>4. 1 \in 1..n /\ n \in 1..n /\ 1 \in 1..i /\ i \in 1..j /\ j \in 1..n
      BY <2>1, <2>2, <2>3
    <2>5. /\ Growth(1) \in Low..High /\ Growth(i) \in Low..High
          /\ Growth(j) \in Low..High /\ Growth(n) \in Low..High
      <3> HIDE DEF n
      <3> QED  BY <2>4, GrowthIsConverged DEF n
    <2>6. Growth(1) <= Growth(i) /\ Growth(i) <= Growth(j) /\ Growth(j) <= Growth(n)
      <3> HIDE DEF n
      <3> QED  BY <2>4, GrowthIsConverged DEF n
    <2>7. PICK a \in Int, b \in Int, c \in Int :
            a = 2 * Growth(1) /\ b = Growth(i) + Growth(j) /\ c = 2 * Growth(n)
      BY <2>1, <2>5
    <2>8. 2 * Low <= a /\ a <= b /\ b <= c /\ c <= 2 * High
      BY <2>1, <2>5, <2>6, <2>7
    <2>9. Summary = [optimistic |-> a, conservative |-> c, median |-> b]
      BY <1>2, <2>2, <2>7 DEF Summary
    <2>10. Summary \in [Cases -> Int]
      BY <2>9 DEF Cases
    <2> QED  BY <2>8, <2>9, <2>10 DEF InOrder
  <1> QED  BY <1>1, <1>2

-----------------------------------------------------------------------------
(* The nodes. What holds of a workflow is said of s, the record wf holds. *)
Growths == [Cases -> Int] \cup {NoSummary}
Row == [version : Nat, fetched : Nat, by : Workflows \cup {"nobody"}]
Places == {"new", "poll", "ask", "sleep", "structure", "lookup", "fetch", "value", "solve"}
            \cup Ended \cup Valued

Workflow ==
  [at : Places, deadline : Nat, wake : Nat, remote : {"running", "completed", "failed"},
   doneAt : Nat, asked : Nat, seen : {"running", "completed", "failed"}, dataset : Datasets \cup {"none"}, stamp : Nat, rows : [Datasets -> Row],
   summary : Growths, audit : Growths, advice : [Profiles -> Growths]]

NodesTypes ==
  /\ now \in Nat
  /\ published \in [Datasets -> Seq(Nat)]
  /\ cache \in [Datasets -> SUBSET Row]
  /\ wf \in [Workflows -> Workflow]

(* A job that had been completed when it was last asked for was seen to be. *)
SeenWhenAsked(s) == s.remote = "completed" => s.asked <= s.doneAt

(* A job that is asked for its status, or is about to be, is not asked late. *)
InTime(s) ==
  /\ s.at = "late" =>
       /\ SeenWhenAsked(s)
       /\ s.remote = "completed" => s.deadline <= s.doneAt + PollInterval + Latency
  /\ s.at = "poll" =>
       /\ SeenWhenAsked(s) /\ s.asked <= now
       /\ now < s.deadline + PollInterval + Latency
       /\ s.remote = "completed" => now <= s.doneAt + PollInterval + Latency
  /\ s.at = "ask" =>
       /\ s.seen # "completed" => SeenWhenAsked(s)
       /\ s.asked < s.deadline /\ s.asked <= now /\ now <= s.asked + Latency
  /\ s.at = "sleep" =>
       /\ SeenWhenAsked(s) /\ s.asked <= now /\ now <= s.wake
       /\ s.wake < s.deadline + PollInterval + Latency
       /\ s.wake <= s.asked + PollInterval + Latency

(* A row is of a version that was out, and the next one was not out before the
   time the row bears. *)
RowIsRight(row, d) ==
  /\ row.version <= Len(published[d]) /\ row.fetched <= now
  /\ row.version < Len(published[d]) => row.fetched <= published[d][row.version + 1]

(* The datasets that are read before one of them. *)
Before == [quote |-> {}, profile |-> {"quote"}, quarterIncome |-> {"quote", "profile"},
           quarterCashFlow |-> {"quote", "profile", "quarterIncome"},
           quarterBalance |-> Quarterly \ {"quarterBalance"},
           annualIncome |-> Quarterly, annualCashFlow |-> Quarterly \cup {"annualIncome"},
           annualBalance |-> Quarterly \cup {"annualIncome", "annualCashFlow"}]

VersionsOf(s) == [d \in Datasets |-> s.rows[d].version]

RowsAreRight(w, s) ==
  \A d \in Datasets :
    /\ RowIsRight(s.rows[d], d)
    /\ s.rows[d].by \in {w, "nobody"}
    /\ s.rows[d].by = w => s.rows[d].version # 0

ReadsInTurn(s) ==
  /\ s.at = "fetch" => s.stamp <= now
  /\ s.at = "structure" => s.dataset = "quote"
  /\ s.at \in {"lookup", "fetch"} =>
       s.dataset \in Datasets /\ \A d \in Before[s.dataset] : s.rows[d].version # 0
  /\ s.at = "value" => Complete(VersionsOf(s))

(* What is passed on from the valuation to the audit and the advice. *)
PassesOn(s) ==
  /\ s.at \in {"commit", "audit"} => s.summary = NoSummary \/ InOrder(s.summary)
  /\ s.at \in {"advise", "done"} =>
       s.summary # NoSummary /\ InOrder(s.summary) /\ s.audit = s.summary
  /\ s.at = "done" => \A p \in Profiles : s.advice[p] = s.summary

WorkflowInv(w, s) == InTime(s) /\ RowsAreRight(w, s) /\ ReadsInTurn(s) /\ PassesOn(s)

CacheInv ==
  /\ \A d \in Datasets : 1 <= Len(published[d]) /\ Len(published[d]) <= Len(Feed[d])
  /\ \A d \in Datasets : \A row \in cache[d] :
       /\ RowIsRight(row, d) /\ row.version # 0
       /\ row.by \in Workflows /\ wf[row.by].at \in Valued

NodesInv ==
  NodesTypes /\ CacheInv /\ \A w \in Workflows : WorkflowInv(w, wf[w])

-----------------------------------------------------------------------------
(* A step of one workflow: its record is as it should be, and what it has
   cached it may still have cached. *)
Advances(w) ==
  /\ UNCHANGED <<now, published>>
  /\ \E s \in Workflow :
       /\ wf' = [wf EXCEPT ![w] = s]
       /\ WorkflowInv(w, s)
       /\ wf[w].at \in Valued => s.at \in Valued

LEMMA AdvancingKeepsInv ==
  ASSUME NodesInv, NEW w \in Workflows, Advances(w),
         cache' \in [Datasets -> SUBSET Row],
         \A d \in Datasets : \A row \in cache'[d] : row \notin cache[d] =>
           /\ RowIsRight(row, d) /\ row.version # 0
           /\ row.by = w /\ wf[w].at \in Valued
  PROVE  NodesInv'
  <1>1. PICK s \in Workflow :
          /\ UNCHANGED <<now, published>> /\ wf' = [wf EXCEPT ![w] = s] /\ WorkflowInv(w, s)
          /\ wf[w].at \in Valued => s.at \in Valued
    BY DEF Advances
  <1>2. NodesTypes'
    BY <1>1 DEF NodesInv, NodesTypes
  <1>3. wf'[w] = s /\ \A o \in Workflows \ {w} : wf'[o] = wf[o]
    BY <1>1 DEF NodesInv, NodesTypes
  <1>4. \A d, row : RowIsRight(row, d)' <=> RowIsRight(row, d)
    BY <1>1 DEF RowIsRight
  <1>5. \A o \in Workflows : wf[o].at \in Valued => wf'[o].at \in Valued
    BY <1>1, <1>3
  <1>6. CacheInv'
    <2>1. ASSUME NEW d \in Datasets, NEW row \in cache'[d]
          PROVE  /\ RowIsRight(row, d) /\ row.version # 0
                 /\ row.by \in Workflows /\ wf'[row.by].at \in Valued
      BY <1>5 DEF NodesInv, CacheInv
    <2>2. \A d \in Datasets : 1 <= Len(published'[d]) /\ Len(published'[d]) <= Len(Feed[d])
      BY <1>1 DEF NodesInv, CacheInv
    <2> QED  BY <1>4, <2>1, <2>2 DEF CacheInv
  <1>7. ASSUME NEW o \in Workflows PROVE WorkflowInv(o, wf[o])'
    <2>1. WorkflowInv(o, wf'[o])
      BY <1>1, <1>3 DEF NodesInv
    <2> QED  BY <1>1, <2>1 DEF WorkflowInv, InTime, RowsAreRight, RowIsRight, ReadsInTurn, PassesOn
  <1> QED  BY <1>2, <1>6, <1>7 DEF NodesInv

(* What a workflow is at the start, and again once its data are committed. *)
LEMMA NewIsRight ==
  ASSUME NodesInv, NEW w \in Workflows, NEW s \in Workflow, s.rows = New.rows,
         s.dataset = "quote",
         s.at \in {"new", "structure", "failed", "rejected"}
  PROVE  WorkflowInv(w, s)
  <1>1. \A d \in Datasets : s.rows[d] = Unread
    BY DEF New
  <1>2. \A d \in Datasets : RowIsRight(Unread, d)
    <2>1. ASSUME NEW d \in Datasets PROVE RowIsRight(Unread, d)
      <3>1. published[d] \in Seq(Nat) /\ Len(published[d]) >= 1 /\ now \in Nat
        BY DEF NodesInv, NodesTypes, CacheInv
      <3>2. published[d][1] \in Nat
        BY <3>1
      <3> QED  BY <3>1, <3>2 DEF RowIsRight, Unread
    <2> QED  BY <2>1
  <1>3. RowsAreRight(w, s)
    BY <1>1, <1>2, NodesAssumption DEF RowsAreRight, Unread
  <1> QED  BY <1>3 DEF WorkflowInv, InTime, ReadsInTurn, PassesOn

LEMMA NewIsWorkflow == New \in Workflow
  <1>1. "quote" \in Datasets
    BY NodesAssumption DEF Quarterly
  <1>2. [d \in Datasets |-> Unread] \in [Datasets -> Row]
    BY DEF Unread, Row
  <1>3. NoSummary \in Growths /\ [p \in Profiles |-> NoSummary] \in [Profiles -> Growths]
    BY DEF Growths
  <1> QED  BY <1>1, <1>2, <1>3 DEF New, Workflow, Places

LEMMA FailingAdvances ==
  ASSUME NodesInv, NEW w \in Workflows, UNCHANGED <<now, published>>,
         wf' = [wf EXCEPT ![w] = Fails(w)]
  PROVE  Advances(w)
  <1>1. New \in Workflow
    BY NewIsWorkflow
  <1>2. PICK at \in {"failed", "rejected"} :
          Fails(w) = [New EXCEPT !.at = at] /\ (wf[w].at \in Valued => at = "rejected")
    BY DEF Fails
  <1>3. PICK s \in Workflow : s = [New EXCEPT !.at = at]
    BY <1>1 DEF Workflow, Places, Ended
  <1>4. s.at = at /\ s.rows = New.rows /\ s.dataset = "quote"
    BY <1>3 DEF New
  <1>5. WorkflowInv(w, s)
    BY <1>4, NewIsRight
  <1>6. wf' = [wf EXCEPT ![w] = s]
    BY <1>2, <1>3
  <1>7. wf[w].at \in Valued => s.at \in Valued
    BY <1>2, <1>4 DEF Valued
  <1> QED  BY <1>5, <1>6, <1>7 DEF Advances

(* The research. *)
LEMMA ResearchAdvances ==
  ASSUME NodesInv, NEW w \in Workflows,
         \/ StartResearch(w) \/ Ask(w) \/ Poll(w) \/ Wake(w) \/ GiveUp(w) \/ Structure(w)
         \/ \E status \in {"completed", "failed"} : ProviderEnds(w, status)
  PROVE  Advances(w) /\ UNCHANGED <<cache, solver>>
  <1> USE NodesAssumption
  <1>1. /\ wf \in [Workflows -> Workflow] /\ wf[w] \in Workflow /\ WorkflowInv(w, wf[w])
        /\ now \in Nat
        /\ UNCHANGED <<now, published, cache, solver>>
    BY DEF NodesInv, NodesTypes, StartResearch, Ask, Poll, Wake, GiveUp, Structure,
       ProviderEnds
  <1>2. CASE StartResearch(w)
    <2>1. PICK deadline \in Nat : deadline = now + MaxWait
      BY <1>1
    <2>2. PICK s \in Workflow :
            s = [New EXCEPT !.at = "poll", !.deadline = deadline]
      BY NewIsWorkflow DEF Workflow, Places
    <2>3. /\ s.at = "poll" /\ s.deadline = deadline /\ s.remote = "running" /\ s.asked = 0
          /\ s.rows = New.rows
      BY <2>2 DEF New
    <2>4. wf[w].at = "new" /\ wf' = [wf EXCEPT ![w] = s]
      BY <1>2, <2>1, <2>2 DEF StartResearch, Moves
    <2>5. RowsAreRight(w, s)
      <3>1. PICK t \in Workflow : t = New
        BY NewIsWorkflow
      <3>2. t.at = "new" /\ t.rows = New.rows /\ t.dataset = "quote"
        BY <3>1 DEF New
      <3>3. RowsAreRight(w, t)
        BY <3>2, NewIsRight DEF WorkflowInv
      <3> QED  BY <2>3, <3>2, <3>3 DEF RowsAreRight
    <2>6. InTime(s)
      BY <1>1, <2>1, <2>3 DEF InTime, SeenWhenAsked
    <2>7. WorkflowInv(w, s)
      BY <2>3, <2>5, <2>6 DEF WorkflowInv, ReadsInTurn, PassesOn
    <2> QED  BY <1>1, <2>4, <2>7 DEF Advances, Valued
  <1>3. ASSUME NEW status \in {"completed", "failed"}, ProviderEnds(w, status) PROVE Advances(w)
    <2>1. PICK s \in Workflow : s = [wf[w] EXCEPT !.remote = status, !.doneAt = now]
      BY <1>1 DEF Workflow
    <2>2. wf' = [wf EXCEPT ![w] = s] /\ wf[w].at \in {"poll", "ask", "sleep"}
      BY <1>1, <1>3, <2>1 DEF ProviderEnds
    <2>3. /\ s.at = wf[w].at /\ s.rows = wf[w].rows /\ s.doneAt = now
          /\ s.wake = wf[w].wake /\ s.deadline = wf[w].deadline
          /\ s.asked = wf[w].asked /\ s.asked \in Nat
      BY <1>1, <2>1 DEF Workflow
    <2>4. InTime(s)
      <3>1. InTime(wf[w]) /\ now \in Nat /\ PollInterval \in Nat /\ Latency \in Nat
        BY <1>1 DEF WorkflowInv
      <3> QED  BY <2>2, <2>3, <3>1 DEF InTime, SeenWhenAsked
    <2>5. RowsAreRight(w, s)
      BY <1>1, <2>3 DEF WorkflowInv, RowsAreRight
    <2>6. WorkflowInv(w, s)
      BY <2>2, <2>3, <2>4, <2>5 DEF WorkflowInv, ReadsInTurn, PassesOn
    <2> QED  BY <1>1, <2>2, <2>6 DEF Advances, Valued
  <1>9. CASE Ask(w)
    <2>1. PICK s \in Workflow :
            s = [wf[w] EXCEPT !.at = "ask", !.asked = now, !.seen = wf[w].remote]
      BY <1>1 DEF Workflow, Places
    <2>2. wf' = [wf EXCEPT ![w] = s] /\ wf[w].at = "poll" /\ now < wf[w].deadline
      BY <1>9, <2>1 DEF Ask, Moves
    <2>3. /\ s.at = "ask" /\ s.asked = now /\ s.seen = wf[w].remote /\ s.rows = wf[w].rows
          /\ s.deadline = wf[w].deadline /\ s.remote = wf[w].remote
      BY <1>1, <2>1 DEF Workflow
    <2>4. InTime(s)
      BY <1>1, <2>2, <2>3 DEF InTime, SeenWhenAsked
    <2>5. RowsAreRight(w, s)
      BY <1>1, <2>3 DEF WorkflowInv, RowsAreRight
    <2>6. WorkflowInv(w, s)
      BY <2>3, <2>4, <2>5 DEF WorkflowInv, ReadsInTurn, PassesOn
    <2> QED  BY <1>1, <2>2, <2>6 DEF Advances, Valued
  <1>4. CASE Poll(w)
    <2>1. CASE /\ "running" \in {wf[w].seen, wf[w].remote}
               /\ Moves(w, "ask", [wf[w] EXCEPT !.at = "sleep", !.wake = now + PollInterval])
      <3>1. PICK wake \in Nat : wake = now + PollInterval
        BY <1>1
      <3>2. PICK s \in Workflow : s = [wf[w] EXCEPT !.at = "sleep", !.wake = wake]
        BY <1>1 DEF Workflow, Places
      <3>3. wf' = [wf EXCEPT ![w] = s] /\ wf[w].at = "ask"
        BY <2>1, <3>1, <3>2 DEF Moves
      <3>4. /\ s.at = "sleep" /\ s.rows = wf[w].rows /\ s.remote = wf[w].remote
            /\ s.wake = wake /\ s.deadline = wf[w].deadline /\ wf[w].deadline \in Nat
            /\ s.asked = wf[w].asked /\ s.asked \in Nat /\ s.doneAt = wf[w].doneAt
        BY <1>1, <3>2 DEF Workflow
      <3>5. SeenWhenAsked(s)
        BY <1>1, <2>1, <3>3, <3>4 DEF WorkflowInv, InTime, SeenWhenAsked
      <3>6. /\ s.asked <= now /\ now <= s.asked + Latency /\ s.asked < s.deadline
        BY <1>1, <3>3, <3>4 DEF WorkflowInv, InTime
      <3>7. InTime(s)
        BY <1>1, <3>1, <3>4, <3>5, <3>6 DEF InTime
      <3>8. RowsAreRight(w, s)
        BY <1>1, <3>4 DEF WorkflowInv, RowsAreRight
      <3>9. WorkflowInv(w, s)
        BY <3>4, <3>7, <3>8 DEF WorkflowInv, ReadsInTurn, PassesOn
      <3> QED  BY <1>1, <3>3, <3>9 DEF Advances, Valued
    <2>2. CASE Moves(w, "ask", [New EXCEPT !.at = "structure"])
      <3>1. PICK s \in Workflow : s = [New EXCEPT !.at = "structure"]
        BY NewIsWorkflow DEF Workflow, Places
      <3>2. s.at = "structure" /\ s.rows = New.rows /\ s.dataset = "quote"
        BY <3>1 DEF New
      <3>3. wf' = [wf EXCEPT ![w] = s] /\ wf[w].at = "ask"
        BY <2>2, <3>1 DEF Moves
      <3>4. WorkflowInv(w, s)
        BY <3>2, NewIsRight
      <3> QED  BY <1>1, <3>3, <3>4 DEF Advances, Valued
    <2>3. CASE Moves(w, "ask", Fails(w))
      BY <1>1, <2>3, FailingAdvances DEF Moves
    <2> QED  BY <1>4, <2>1, <2>2, <2>3 DEF Poll
  (* A step that only goes on to another place. *)
  <1>5. ASSUME NEW s \in Workflow, wf' = [wf EXCEPT ![w] = s], wf[w].at \notin Valued,
               s.rows = wf[w].rows, s.at \in {"poll", "late", "lookup"},
               InTime(s), ReadsInTurn(s)
        PROVE  Advances(w)
    <2>1. RowsAreRight(w, s)
      BY <1>1, <1>5 DEF WorkflowInv, RowsAreRight
    <2>2. WorkflowInv(w, s)
      BY <1>5, <2>1 DEF WorkflowInv, PassesOn
    <2> QED  BY <1>1, <1>5, <2>2 DEF Advances
  <1>6. CASE Wake(w)
    <2>1. PICK s \in Workflow : s = [wf[w] EXCEPT !.at = "poll"]
      BY <1>1 DEF Workflow, Places, Ended
    <2>2. wf' = [wf EXCEPT ![w] = s] /\ wf[w].at = "sleep" /\ now >= wf[w].wake
      BY <1>6, <2>1 DEF Wake, Goes, Moves
    <2>3. /\ s.at = "poll" /\ s.deadline = wf[w].deadline /\ s.remote = wf[w].remote
          /\ s.doneAt = wf[w].doneAt /\ s.rows = wf[w].rows /\ s.asked = wf[w].asked
          /\ wf[w].doneAt \in Nat /\ wf[w].wake \in Nat /\ wf[w].deadline \in Nat
          /\ wf[w].asked \in Nat
      BY <1>1, <2>1 DEF Workflow
    <2>4. InTime(s)
      <3>1. /\ SeenWhenAsked(wf[w]) /\ wf[w].asked <= now /\ now <= wf[w].wake
            /\ wf[w].wake < wf[w].deadline + PollInterval + Latency
            /\ wf[w].wake <= wf[w].asked + PollInterval + Latency
        BY <1>1, <2>2 DEF WorkflowInv, InTime
      <3>2. now < s.deadline + PollInterval + Latency
        BY <1>1, <2>2, <2>3, <3>1
      <3>3. s.remote = "completed" =>
              s.asked <= s.doneAt /\ now <= s.doneAt + PollInterval + Latency
        BY <1>1, <2>2, <2>3, <3>1 DEF SeenWhenAsked
      <3> QED  BY <2>3, <3>1, <3>2, <3>3 DEF InTime, SeenWhenAsked
    <2>5. ReadsInTurn(s) /\ wf[w].at \notin Valued
      BY <2>2, <2>3 DEF ReadsInTurn, Valued
    <2> QED  BY <1>1, <1>5, <2>2, <2>3, <2>4, <2>5
  <1>7. CASE GiveUp(w)
    <2>1. PICK s \in Workflow : s = [wf[w] EXCEPT !.at = "late"]
      BY <1>1 DEF Workflow, Places, Ended
    <2>2. wf' = [wf EXCEPT ![w] = s] /\ wf[w].at = "poll" /\ now >= wf[w].deadline
      BY <1>7, <2>1 DEF GiveUp, Goes, Moves
    <2>3. /\ s.at = "late" /\ s.deadline = wf[w].deadline /\ s.remote = wf[w].remote
          /\ s.doneAt = wf[w].doneAt /\ s.rows = wf[w].rows /\ s.asked = wf[w].asked
          /\ wf[w].doneAt \in Nat /\ wf[w].wake \in Nat /\ wf[w].deadline \in Nat
          /\ wf[w].asked \in Nat
      BY <1>1, <2>1 DEF Workflow
    <2>4. InTime(s)
      <3>1. InTime(wf[w]) /\ now \in Nat /\ PollInterval \in Nat /\ Latency \in Nat
        BY <1>1 DEF WorkflowInv
      <3> QED  BY <2>2, <2>3, <3>1 DEF InTime, SeenWhenAsked
    <2>5. ReadsInTurn(s) /\ wf[w].at \notin Valued
      BY <2>2, <2>3 DEF ReadsInTurn, Valued
    <2> QED  BY <1>1, <1>5, <2>2, <2>3, <2>4, <2>5
  <1>8. CASE Structure(w)
    <2>1. PICK s \in Workflow : s = [wf[w] EXCEPT !.at = "lookup"]
      BY <1>1 DEF Workflow, Places
    <2>2. wf' = [wf EXCEPT ![w] = s] /\ wf[w].at = "structure"
      BY <1>8, <2>1 DEF Structure, Goes, Moves
    <2>3. s.at = "lookup" /\ s.dataset = "quote" /\ s.rows = wf[w].rows
      BY <1>1, <2>1, <2>2 DEF Workflow, WorkflowInv, ReadsInTurn
    <2>4. Before["quote"] = {} /\ "quote" \in Datasets
      BY DEF Before, Quarterly
    <2>5. InTime(s) /\ ReadsInTurn(s) /\ wf[w].at \notin Valued
      BY <2>2, <2>3, <2>4 DEF InTime, ReadsInTurn, Valued
    <2> QED  BY <1>1, <1>5, <2>2, <2>3, <2>5
  <1> QED  BY <1>1, <1>2, <1>3, <1>4, <1>6, <1>7, <1>8, <1>9

-----------------------------------------------------------------------------
(* The valuation reads one dataset after the other, and has read them all, or
   all it needs, when it begins. *)
LEMMA FollowingIsNext ==
  ASSUME NEW d \in Datasets, NEW v
  PROVE  LET next == Following(d, v)
         IN  /\ next # "none" => next \in Datasets /\ Before[next] \subseteq Before[d] \cup {d}
             /\ next = "none" => Quarterly \subseteq Before[d] \cup {d}
             /\ next = "none" /\ TooFewQuarters(v) => Annual \subseteq Before[d] \cup {d}
  <1> USE NodesAssumption DEF Quarterly, Annual, Following, After, Before
  <1>1. CASE d = "quarterBalance"
    BY <1>1
  <1>2. CASE d \in {"quote", "profile", "quarterIncome", "quarterCashFlow"}
    BY <1>2
  <1>3. CASE d \in {"annualIncome", "annualCashFlow", "annualBalance"}
    BY <1>3
  <1> QED  BY <1>1, <1>2, <1>3

LEMMA ContinuingAdvances ==
  ASSUME NodesInv, NEW w \in Workflows, wf[w].at \in {"lookup", "fetch"},
         NEW row \in Row, RowIsRight(row, wf[w].dataset),
         row.by \in {w, "nobody"}, row.version # 0,
         UNCHANGED <<now, published>>, wf' = [wf EXCEPT ![w] = Continue(w, row)]
  PROVE  Advances(w)
  <1>1. /\ wf[w] \in Workflow /\ WorkflowInv(w, wf[w])
        /\ wf[w].dataset \in Datasets /\ \A e \in Before[wf[w].dataset] : wf[w].rows[e].version # 0
    BY DEF NodesInv, NodesTypes, WorkflowInv, ReadsInTurn
  <1>2. PICK d \in Datasets : d = wf[w].dataset
    BY <1>1
  <1>3. PICK v : v = [Read(w) EXCEPT ![d] = row.version]
    OBVIOUS
  <1>4. PICK next : next = Following(d, v)
    OBVIOUS
  <1>5. /\ next # "none" => next \in Datasets /\ Before[next] \subseteq Before[d] \cup {d}
        /\ next = "none" => Quarterly \subseteq Before[d] \cup {d}
        /\ next = "none" /\ TooFewQuarters(v) => Annual \subseteq Before[d] \cup {d}
    BY <1>4, FollowingIsNext
  <1>6. PICK at \in {"value", "lookup"} : at = IF next = "none" THEN "value" ELSE "lookup"
    OBVIOUS
  <1>7. Continue(w, row)
          = [wf[w] EXCEPT !.rows[d] = row, !.dataset = next, !.stamp = 0, !.at = at]
    BY <1>2, <1>3, <1>4, <1>6 DEF Continue
  <1>8. PICK rows \in [Datasets -> Row] : rows = [wf[w].rows EXCEPT ![d] = row]
    BY <1>1 DEF Workflow
  <1>9. PICK s \in Workflow :
          s = [wf[w] EXCEPT !.rows = rows, !.dataset = next, !.stamp = 0, !.at = at]
    BY <1>1, <1>5 DEF Workflow, Places
  <1>10. s = Continue(w, row)
    BY <1>1, <1>7, <1>8, <1>9 DEF Workflow
  <1>11. s.rows = rows /\ s.dataset = next /\ s.at = at
    BY <1>1, <1>9 DEF Workflow
  <1>12. rows[d] = row /\ \A e \in Datasets \ {d} : rows[e] = wf[w].rows[e]
    BY <1>1, <1>8 DEF Workflow
  <1>13. RowsAreRight(w, s)
    BY <1>1, <1>2, <1>11, <1>12 DEF WorkflowInv, RowsAreRight
  <1>14. \A e \in Before[d] \cup {d} : e \in Datasets => rows[e].version # 0
    BY <1>1, <1>2, <1>12
  <1>15. VersionsOf(s) = v
    <2>1. \A e \in Datasets : VersionsOf(s)[e] = v[e]
      BY <1>3, <1>11, <1>12 DEF VersionsOf, Read
    <2> QED  BY <1>3, <2>1 DEF VersionsOf, Read
  <1>16. CASE next = "none"
    <2>1. s.at = "value"
      BY <1>6, <1>11, <1>16
    <2>2. Quarterly \subseteq Datasets /\ Annual \subseteq Datasets
      BY NodesAssumption
    <2>3. \A e \in Datasets : v[e] = rows[e].version
      BY <1>11, <1>15 DEF VersionsOf
    <2>4. Complete(v)
      BY <1>5, <1>14, <1>16, <2>2, <2>3 DEF Complete
    <2>5. WorkflowInv(w, s)
      BY <1>13, <1>15, <2>1, <2>4 DEF WorkflowInv, InTime, ReadsInTurn, PassesOn
    <2> QED  BY <1>10, <2>5 DEF Advances, Valued
  <1>17. CASE next # "none"
    <2>1. s.at = "lookup"
      BY <1>6, <1>11, <1>17
    <2>2. \A e \in Datasets : Before[e] \subseteq Datasets
      BY NodesAssumption DEF Before, Quarterly, Annual
    <2>3. s.dataset \in Datasets /\ \A e \in Before[s.dataset] : s.rows[e].version # 0
      BY <1>5, <1>11, <1>14, <1>17, <2>2
    <2>4. ReadsInTurn(s)
      BY <2>1, <2>3 DEF ReadsInTurn
    <2>5. WorkflowInv(w, s)
      BY <1>13, <2>1, <2>4 DEF WorkflowInv, InTime, PassesOn
    <2> QED  BY <1>10, <2>5 DEF Advances, Valued
  <1> QED  BY <1>16, <1>17

LEMMA ReadingAdvances ==
  ASSUME NodesInv, NEW w \in Workflows, Lookup(w) \/ Fetch(w)
  PROVE  Advances(w) /\ UNCHANGED <<cache, solver>>
  <1>1. /\ wf[w] \in Workflow /\ WorkflowInv(w, wf[w]) /\ wf[w].at \in {"lookup", "fetch"}
        /\ wf[w].dataset \in Datasets /\ now \in Nat
        /\ UNCHANGED <<now, published, cache, solver>>
    BY DEF NodesInv, NodesTypes, WorkflowInv, ReadsInTurn, Lookup, Fetch
  <1>2. PICK d \in Datasets : d = wf[w].dataset
    BY <1>1
  <1>3. published[d] \in Seq(Nat) /\ Len(published[d]) \in Nat /\ Len(published[d]) >= 1
    BY DEF NodesInv, NodesTypes, CacheInv
  <1>4. CASE Lookup(w)
    <2>1. ASSUME NEW old \in cache[d],
                 Moves(w, "lookup", Continue(w, [Unread EXCEPT !.version = old.version]))
          PROVE  Advances(w)
      <3>1. /\ old.version \in Nat /\ old.version <= Len(published[d]) /\ old.version # 0
        BY DEF NodesInv, NodesTypes, CacheInv, RowIsRight, Row
      <3>2. PICK row \in Row : row = [Unread EXCEPT !.version = old.version]
        BY <3>1 DEF Unread, Row
      <3>3. row.version = old.version /\ row.fetched = 0 /\ row.by = "nobody"
        BY <3>2 DEF Unread
      <3>4. row.version < Len(published[d]) => published[d][row.version + 1] \in Nat
        BY <1>3, <3>1, <3>3
      <3>5. RowIsRight(row, d)
        BY <1>1, <3>1, <3>3, <3>4 DEF RowIsRight
      <3> QED  BY <1>1, <1>2, <2>1, <3>1, <3>2, <3>3, <3>5, ContinuingAdvances DEF Moves
    <2>2. CASE Moves(w, "lookup", [wf[w] EXCEPT !.at = "fetch", !.stamp = now])
      <3>1. PICK s \in Workflow : s = [wf[w] EXCEPT !.at = "fetch", !.stamp = now]
        BY <1>1 DEF Workflow, Places
      <3>2. wf' = [wf EXCEPT ![w] = s] /\ wf[w].at = "lookup"
        BY <2>2, <3>1 DEF Moves
      <3>3. s.at = "fetch" /\ s.stamp = now /\ s.rows = wf[w].rows /\ s.dataset = wf[w].dataset
        BY <1>1, <3>1 DEF Workflow
      <3>4. RowsAreRight(w, s)
        BY <1>1, <3>3 DEF WorkflowInv, RowsAreRight
      <3>5. ReadsInTurn(s)
        BY <1>1, <3>2, <3>3 DEF WorkflowInv, ReadsInTurn
      <3>6. WorkflowInv(w, s)
        BY <3>3, <3>4, <3>5 DEF WorkflowInv, InTime, PassesOn
      <3> QED  BY <1>1, <3>2, <3>6 DEF Advances, Valued
    <2> QED  BY <1>1, <1>2, <1>4, <2>1, <2>2 DEF Lookup
  <1>5. CASE Fetch(w)
    <2>1. wf[w].stamp \in Nat /\ wf[w].stamp <= now
      BY <1>1, <1>5 DEF Fetch, WorkflowInv, ReadsInTurn, Workflow
    <2>2. PICK row \in Row :
            row = [version |-> Len(published[d]), fetched |-> wf[w].stamp, by |-> w]
      BY <1>3, <2>1 DEF Row
    <2>3. RowIsRight(row, d) /\ row.by = w /\ row.version # 0
      BY <1>3, <2>1, <2>2 DEF RowIsRight
    <2>4. wf' = [wf EXCEPT ![w] = Continue(w, row)]
      BY <1>2, <1>5, <2>2 DEF Fetch, Moves
    <2> QED  BY <1>1, <1>2, <2>3, <2>4, ContinuingAdvances
  <1> QED  BY <1>1, <1>4, <1>5

-----------------------------------------------------------------------------
(* What a valuation starts from is among Inputs: the solver takes each of its
   own steps, whatever the workflows do. *)
LEMMA ReadIsVersions ==
  ASSUME NodesInv, NEW w \in Workflows
  PROVE  Read(w) \in Versions /\ Read(w) = VersionsOf(wf[w])
  <1>1. ASSUME NEW d \in Datasets
        PROVE  /\ wf[w].rows[d].version \in 0..Len(Feed[d]) /\ Len(Feed[d]) \in Nat
    <2>1. wf[w].rows[d].version \in Nat /\ published[d] \in Seq(Nat) /\ Len(published[d]) \in Nat
      BY DEF NodesInv, NodesTypes, Workflow, Row
    <2>2. wf[w].rows[d].version <= Len(published[d]) /\ Len(published[d]) <= Len(Feed[d])
      BY DEF NodesInv, WorkflowInv, RowsAreRight, RowIsRight, CacheInv
    <2>3. Len(Feed[d]) \in Nat
      BY NodesAssumption
    <2> QED  BY <2>1, <2>2, <2>3
  <1>2. \A d \in Datasets : Read(w)[d] = wf[w].rows[d].version
    BY DEF Read
  <1>3. Read(w) \in [Datasets -> UNION {0..Len(Feed[d]) : d \in Datasets}]
    BY <1>1 DEF Read
  <1> QED  BY <1>1, <1>2, <1>3 DEF Versions, Read, VersionsOf

LEMMA ValuingAdvances ==
  ASSUME NodesInv, NEW w \in Workflows, Value(w) \/ NoValue(w)
  PROVE  Advances(w) /\ cache' = cache /\ [SolverNext]_solver
  <1>1. /\ wf[w] \in Workflow /\ WorkflowInv(w, wf[w]) /\ wf[w].at = "value"
        /\ UNCHANGED <<now, published, cache>>
    BY DEF NodesInv, NodesTypes, Value, NoValue
  <1>2. CASE Value(w)
    <2>1. PICK s \in Workflow : s = [wf[w] EXCEPT !.at = "solve"]
      BY <1>1 DEF Workflow, Places
    <2>2. wf' = [wf EXCEPT ![w] = s]
      BY <1>1, <1>2, <2>1 DEF Value
    <2>3. s.at = "solve" /\ s.rows = wf[w].rows
      BY <1>1, <2>1 DEF Workflow
    <2>4. RowsAreRight(w, s)
      BY <1>1, <2>3 DEF WorkflowInv, RowsAreRight
    <2>5. WorkflowInv(w, s)
      BY <2>3, <2>4 DEF WorkflowInv, InTime, ReadsInTurn, PassesOn
    <2>6. Complete(Read(w))
      BY <1>1, ReadIsVersions DEF WorkflowInv, ReadsInTurn
    <2>7. ToBeValued(Read(w)) \in Inputs
      BY <1>2, <2>6, ReadIsVersions, InputsAssumption DEF Value
    <2>8. SolverNext
      BY <1>2, <2>7 DEF Value, SolverNext
    <2> QED  BY <1>1, <2>2, <2>5, <2>8 DEF Advances, Valued
  <1>3. CASE NoValue(w)
    BY <1>1, <1>3, FailingAdvances DEF NoValue
  <1> QED  BY <1>2, <1>3

LEMMA SummarisingAdvances ==
  ASSUME NodesInv, SolverInv, NEW w \in Workflows, TakeSummary(w)
  PROVE  Advances(w) /\ cache' = cache /\ SolverNext
  <1>1. /\ wf[w] \in Workflow /\ WorkflowInv(w, wf[w]) /\ wf[w].at = "solve"
        /\ UNCHANGED <<now, published, cache>> /\ SolverNext
    BY DEF NodesInv, NodesTypes, TakeSummary, SolverNext
  <1>2. PICK g \in Growths : g = Summary /\ (g = NoSummary \/ InOrder(g))
    BY SummaryIsInOrder DEF Growths
  <1>3. PICK s \in Workflow : s = [wf[w] EXCEPT !.at = "commit", !.summary = g]
    BY <1>1 DEF Workflow, Places, Valued
  <1>4. wf' = [wf EXCEPT ![w] = s]
    BY <1>1, <1>2, <1>3 DEF TakeSummary
  <1>5. s.at = "commit" /\ s.summary = g /\ s.rows = wf[w].rows
    BY <1>1, <1>3 DEF Workflow
  <1>6. RowsAreRight(w, s)
    BY <1>1, <1>5 DEF WorkflowInv, RowsAreRight
  <1>7. WorkflowInv(w, s)
    BY <1>2, <1>5, <1>6 DEF WorkflowInv, InTime, ReadsInTurn, PassesOn
  <1> QED  BY <1>1, <1>4, <1>7 DEF Advances, Valued

LEMMA CommittingAdvances ==
  ASSUME NodesInv, NEW w \in Workflows, CommitValuation(w) \/ CommitUnanswered(w)
  PROVE  /\ Advances(w) /\ UNCHANGED solver
         /\ cache' \in [Datasets -> SUBSET Row]
         /\ \A d \in Datasets : \A row \in cache'[d] : row \notin cache[d] =>
              /\ RowIsRight(row, d) /\ row.version # 0
              /\ row.by = w /\ wf[w].at \in Valued
  <1>1. /\ wf[w] \in Workflow /\ WorkflowInv(w, wf[w]) /\ wf[w].at = "commit"
        /\ UNCHANGED <<now, published, solver>> /\ Cached(w)
        /\ cache \in [Datasets -> SUBSET Row]
    BY DEF NodesInv, NodesTypes, CommitValuation, CommitUnanswered
  <1>2. ASSUME NEW d \in Datasets
        PROVE  /\ cache'[d] \subseteq cache[d] \cup {wf[w].rows[d]}
               /\ \A row \in cache'[d] : row \notin cache[d] => row.by = w
    BY <1>1 DEF Cached, Newest
  <1>3. ASSUME NEW d \in Datasets, NEW row \in cache'[d], row \notin cache[d]
        PROVE  /\ RowIsRight(row, d) /\ row.version # 0
               /\ row.by = w /\ wf[w].at \in Valued
    <2>1. row = wf[w].rows[d] /\ row.by = w
      BY <1>2, <1>3
    <2> QED  BY <1>1, <2>1 DEF WorkflowInv, RowsAreRight, Valued
  <1>4. cache' \in [Datasets -> SUBSET Row]
    <2>1. \A d \in Datasets : wf[w].rows[d] \in Row
      BY <1>1 DEF Workflow
    <2>2. \A d \in Datasets : cache'[d] \in SUBSET Row
      BY <1>1, <1>2, <2>1
    <2>3. cache' = [d \in Datasets |-> cache'[d]]
      BY <1>1 DEF Cached
    <2> QED  BY <2>2, <2>3
  <1>5. CASE CommitValuation(w)
    <2>1. PICK g \in Growths : g = wf[w].summary
      BY <1>1 DEF Workflow
    <2>2. PICK s \in Workflow : s = [New EXCEPT !.at = "audit", !.summary = g]
      BY NewIsWorkflow DEF Workflow, Places, Valued
    <2>3. s.at = "audit" /\ s.summary = g /\ s.rows = New.rows
      BY <2>2 DEF New
    <2>4. wf' = [wf EXCEPT ![w] = s]
      BY <1>5, <2>1, <2>2 DEF CommitValuation, Moves
    <2>5. PICK t \in Workflow : t = New
      BY NewIsWorkflow
    <2>6. t.at = "new" /\ t.rows = New.rows /\ t.dataset = "quote"
      BY <2>5 DEF New
    <2>7. RowsAreRight(w, t)
      BY <2>6, NewIsRight DEF WorkflowInv
    <2>8. RowsAreRight(w, s)
      BY <2>3, <2>6, <2>7 DEF RowsAreRight
    <2>9. g = NoSummary \/ InOrder(g)
      BY <1>1, <2>1 DEF WorkflowInv, PassesOn
    <2>10. WorkflowInv(w, s)
      BY <2>3, <2>8, <2>9 DEF WorkflowInv, InTime, ReadsInTurn, PassesOn
    <2>11. Advances(w)
      BY <1>1, <2>3, <2>4, <2>10 DEF Advances, Valued
    <2> QED  BY <1>1, <1>3, <1>4, <2>11
  <1>6. CASE CommitUnanswered(w)
    <2>1. Advances(w)
      BY <1>1, <1>6, FailingAdvances DEF CommitUnanswered, Moves
    <2> QED  BY <1>1, <1>3, <1>4, <2>1
  <1> QED  BY <1>5, <1>6

-----------------------------------------------------------------------------
(* An answer that passes the checks speaks of the growths it was asked for. *)
LEMMA CheckedGrowths ==
  ASSUME NEW w \in Workflows, wf[w].summary \in [Cases -> Int],
         NEW cases, EachOnce(cases, Cases), SameGrowths(cases)
  PROVE  GrowthsOf(w, cases) = wf[w].summary
  <1>1. ASSUME NEW c \in Cases PROVE GrowthsOf(w, cases)[c] = wf[w].summary[c]
    <2>1. PICK n : n = CHOOSE m \in DOMAIN cases : cases[m].name = c
      OBVIOUS
    <2>2. \E m \in DOMAIN cases : cases[m].name = c
      BY DEF EachOnce
    <2>3. n \in DOMAIN cases
      BY <2>1, <2>2
    <2>4. cases[n].off = 0
      BY <2>3 DEF SameGrowths
    <2>5. GrowthsOf(w, cases)[c] = wf[w].summary[c] + cases[n].off
      BY <2>1 DEF GrowthsOf
    <2> QED  BY <2>4, <2>5
  <1>2. GrowthsOf(w, cases) = [c \in Cases |-> GrowthsOf(w, cases)[c]]
    BY DEF GrowthsOf
  <1> QED  BY <1>1, <1>2

LEMMA AuditingAdvances ==
  ASSUME NodesInv, NEW w \in Workflows, NEW cases, Audit(w, cases)
  PROVE  Advances(w) /\ UNCHANGED <<cache, solver>>
  <1>1. /\ wf[w] \in Workflow /\ WorkflowInv(w, wf[w]) /\ wf[w].at = "audit"
        /\ wf[w].summary # NoSummary
        /\ UNCHANGED <<now, published, cache, solver>>
    BY DEF NodesInv, NodesTypes, Audit
  <1>2. wf[w].summary \in [Cases -> Int] /\ InOrder(wf[w].summary)
    BY <1>1 DEF Workflow, Growths, WorkflowInv, PassesOn
  <1>3. GrowthsOf(w, cases) = wf[w].summary
    BY <1>2, CheckedGrowths DEF Audit
  <1>4. PICK s \in Workflow : s = [wf[w] EXCEPT !.at = "advise", !.audit = wf[w].summary]
    BY <1>1 DEF Workflow, Places, Valued
  <1>5. wf' = [wf EXCEPT ![w] = s]
    BY <1>3, <1>4 DEF Audit, Moves
  <1>6. /\ s.at = "advise" /\ s.summary = wf[w].summary /\ s.audit = wf[w].summary
        /\ s.rows = wf[w].rows
    BY <1>1, <1>4 DEF Workflow
  <1>7. RowsAreRight(w, s)
    BY <1>1, <1>6 DEF WorkflowInv, RowsAreRight
  <1>8. WorkflowInv(w, s)
    BY <1>1, <1>2, <1>6, <1>7 DEF WorkflowInv, InTime, ReadsInTurn, PassesOn
  <1> QED  BY <1>1, <1>5, <1>6, <1>8 DEF Advances, Valued

LEMMA AdvisingAdvances ==
  ASSUME NodesInv, NEW w \in Workflows, NEW advice, Advise(w, advice)
  PROVE  Advances(w) /\ UNCHANGED <<cache, solver>>
  <1>1. /\ wf[w] \in Workflow /\ WorkflowInv(w, wf[w]) /\ wf[w].at = "advise"
        /\ UNCHANGED <<now, published, cache, solver>>
    BY DEF NodesInv, NodesTypes, Advise
  <1>2. /\ wf[w].summary # NoSummary /\ InOrder(wf[w].summary)
        /\ wf[w].audit = wf[w].summary
    BY <1>1 DEF WorkflowInv, PassesOn
  <1>3. wf[w].summary \in [Cases -> Int]
    BY <1>1, <1>2 DEF Workflow, Growths
  <1>4. ASSUME NEW p \in Profiles
        PROVE  GrowthsOf(w, advice[CHOOSE n \in DOMAIN advice : advice[n].name = p].cases)
                 = wf[w].summary
    <2>1. PICK n : n = CHOOSE m \in DOMAIN advice : advice[m].name = p
      OBVIOUS
    <2>2. \E m \in DOMAIN advice : advice[m].name = p
      BY DEF Advise, EachOnce
    <2>3. n \in DOMAIN advice
      BY <2>1, <2>2
    <2>4. EachOnce(advice[n].cases, Cases) /\ SameGrowths(advice[n].cases)
      BY <2>3 DEF Advise
    <2> QED  BY <1>3, <2>1, <2>4, CheckedGrowths
  <1>5. PICK given \in [Profiles -> Growths] : given = [p \in Profiles |-> wf[w].summary]
    BY <1>3 DEF Growths
  <1>6. given = [p \in Profiles |->
                   GrowthsOf(w, advice[CHOOSE n \in DOMAIN advice : advice[n].name = p].cases)]
    BY <1>4, <1>5
  <1>7. PICK s \in Workflow : s = [wf[w] EXCEPT !.at = "done", !.advice = given]
    BY <1>1 DEF Workflow, Places, Ended
  <1>8. wf' = [wf EXCEPT ![w] = s]
    BY <1>6, <1>7 DEF Advise, Moves
  <1>9. /\ s.at = "done" /\ s.summary = wf[w].summary /\ s.audit = wf[w].audit
        /\ s.rows = wf[w].rows /\ s.advice = given
    BY <1>1, <1>7 DEF Workflow
  <1>10. RowsAreRight(w, s)
    BY <1>1, <1>9 DEF WorkflowInv, RowsAreRight
  <1>11. WorkflowInv(w, s)
    BY <1>2, <1>5, <1>9, <1>10 DEF WorkflowInv, InTime, ReadsInTurn, PassesOn
  <1> QED  BY <1>1, <1>8, <1>9, <1>11 DEF Advances, Valued


-----------------------------------------------------------------------------
(* The steps that are none of one workflow: the solver's, a publication of the
   provider, and the clock. *)
LEMMA SolvingKeepsInv ==
  ASSUME NodesInv, UNCHANGED nodeVars
  PROVE  NodesInv'
  BY DEF nodeVars, NodesInv, NodesTypes, CacheInv, WorkflowInv, InTime, RowsAreRight, RowIsRight,
         ReadsInTurn, PassesOn

LEMMA PublishKeepsInv ==
  ASSUME NodesInv, NEW e \in Datasets, Publish(e)
  PROVE  NodesInv'
  <1>1. /\ published \in [Datasets -> Seq(Nat)] /\ now \in Nat
        /\ published' = [published EXCEPT ![e] = Append(published[e], now)]
        /\ Len(published[e]) < Len(Feed[e])
        /\ UNCHANGED <<now, cache, wf>>
    BY DEF NodesInv, NodesTypes, Publish
  <1>2. published' \in [Datasets -> Seq(Nat)]
    BY <1>1
  <1>3. ASSUME NEW d \in Datasets
        PROVE  /\ published[d] \in Seq(Nat) /\ Len(published[d]) \in Nat
               /\ published'[d] = published[d] \/ (d = e /\ published'[d] = Append(published[d], now))
    BY <1>1
  <1>4. ASSUME NEW d \in Datasets, NEW row \in Row, RowIsRight(row, d)
        PROVE  RowIsRight(row, d)'
    <2>1. row.version \in Nat /\ row.fetched \in Nat
      BY <1>4 DEF Row
    <2>2. CASE published'[d] = Append(published[d], now)
      <3>1. /\ Len(published'[d]) = Len(published[d]) + 1
            /\ published'[d][Len(published[d]) + 1] = now
            /\ \A n \in 1..Len(published[d]) : published'[d][n] = published[d][n]
        BY <1>3, <2>2
      <3>2. row.version <= Len(published[d]) /\ row.fetched <= now /\ Len(published[d]) \in Nat
        BY <1>3, <1>4 DEF RowIsRight
      <3>3. row.version <= Len(published'[d]) /\ row.fetched <= now'
        BY <1>1, <2>1, <3>1, <3>2
      <3>4. CASE row.version < Len(published[d])
        <4>1. row.version + 1 \in 1..Len(published[d])
          BY <2>1, <3>2, <3>4
        <4>2. row.fetched <= published'[d][row.version + 1]
          BY <1>4, <3>1, <3>4, <4>1 DEF RowIsRight
        <4> QED  BY <3>3, <4>2 DEF RowIsRight
      <3>5. CASE row.version = Len(published[d])
        BY <3>1, <3>2, <3>3, <3>5 DEF RowIsRight
      <3> QED  BY <2>1, <3>2, <3>4, <3>5
    <2> QED  BY <1>1, <1>3, <1>4, <2>2 DEF RowIsRight
  <1>5. \A d \in Datasets : 1 <= Len(published'[d]) /\ Len(published'[d]) <= Len(Feed[d])
    <2>1. ASSUME NEW d \in Datasets
          PROVE  1 <= Len(published'[d]) /\ Len(published'[d]) <= Len(Feed[d])
      <3>1. 1 <= Len(published[d]) /\ Len(published[d]) <= Len(Feed[d]) /\ Len(Feed[d]) \in Nat
        BY NodesAssumption DEF NodesInv, CacheInv
      <3>2. published'[d] = Append(published[d], now) => Len(published'[d]) = Len(published[d]) + 1
        BY <1>3
      <3> QED  BY <1>1, <1>3, <3>1, <3>2
    <2> QED  BY <2>1
  <1>6. CacheInv'
    <2>1. ASSUME NEW d \in Datasets, NEW row \in cache'[d]
          PROVE  /\ RowIsRight(row, d)' /\ row.version # 0
                 /\ row.by \in Workflows /\ wf'[row.by].at \in Valued
      <3>1. row \in cache[d] /\ row \in Row
        BY <1>1, <2>1 DEF NodesInv, NodesTypes
      <3> QED  BY <1>1, <1>4, <3>1 DEF NodesInv, CacheInv
    <2> QED  BY <1>5, <2>1 DEF CacheInv
  <1>7. ASSUME NEW w \in Workflows PROVE WorkflowInv(w, wf[w])'
    <2>1. wf'[w] = wf[w] /\ WorkflowInv(w, wf[w]) /\ wf[w] \in Workflow
      BY <1>1 DEF NodesInv, NodesTypes
    <2>2. RowsAreRight(w, wf[w])'
      <3>1. ASSUME NEW d \in Datasets PROVE RowIsRight(wf[w].rows[d], d)'
        BY <1>1, <1>4, <2>1 DEF WorkflowInv, RowsAreRight, Workflow
      <3> QED  BY <2>1, <3>1 DEF WorkflowInv, RowsAreRight
    <2> QED  BY <1>1, <2>1, <2>2 DEF WorkflowInv, InTime, ReadsInTurn, PassesOn
  <1>8. NodesTypes'
    BY <1>1, <1>2 DEF NodesInv, NodesTypes
  <1> QED  BY <1>6, <1>7, <1>8 DEF NodesInv

LEMMA TickKeepsInv ==
  ASSUME NodesInv, Tick
  PROVE  NodesInv'
  <1>1. /\ now \in Nat /\ now' = now + 1 /\ UNCHANGED <<published, cache, wf>>
        /\ \A w \in Workflows : ~Due(w)
    BY DEF NodesInv, NodesTypes, Tick
  <1>2. NodesTypes'
    BY <1>1 DEF NodesInv, NodesTypes
  <1>3. ASSUME NEW d \in Datasets, NEW row \in Row, RowIsRight(row, d)
        PROVE  RowIsRight(row, d)'
    BY <1>1, <1>3 DEF RowIsRight, Row
  <1>4. CacheInv'
    <2>1. ASSUME NEW d \in Datasets, NEW row \in cache'[d]
          PROVE  /\ RowIsRight(row, d)' /\ row.version # 0
                 /\ row.by \in Workflows /\ wf'[row.by].at \in Valued
      <3>1. row \in cache[d] /\ row \in Row
        BY <1>1, <2>1 DEF NodesInv, NodesTypes
      <3> QED  BY <1>1, <1>3, <3>1 DEF NodesInv, CacheInv
    <2>2. \A d \in Datasets : 1 <= Len(published'[d]) /\ Len(published'[d]) <= Len(Feed[d])
      BY <1>1 DEF NodesInv, CacheInv
    <2> QED  BY <2>1, <2>2 DEF CacheInv
  <1>5. ASSUME NEW w \in Workflows PROVE WorkflowInv(w, wf[w])'
    <2>1. /\ wf'[w] = wf[w] /\ WorkflowInv(w, wf[w]) /\ wf[w] \in Workflow
          /\ wf[w].at # "poll" /\ (wf[w].at = "sleep" => ~(now >= wf[w].wake))
          /\ wf[w].at = "ask" => ~(now >= wf[w].asked + Latency)
          /\ wf[w].stamp \in Nat /\ wf[w].wake \in Nat /\ wf[w].deadline \in Nat
          /\ wf[w].asked \in Nat
      BY <1>1 DEF NodesInv, NodesTypes, Due, Workflow
    <2>2. RowsAreRight(w, wf[w])'
      <3>1. ASSUME NEW d \in Datasets PROVE RowIsRight(wf[w].rows[d], d)'
        BY <1>1, <1>3, <2>1 DEF WorkflowInv, RowsAreRight, Workflow
      <3> QED  BY <2>1, <3>1 DEF WorkflowInv, RowsAreRight
    <2>3. InTime(wf[w])'
      BY <1>1, <2>1, NodesAssumption DEF WorkflowInv, InTime, SeenWhenAsked
    <2>4. ReadsInTurn(wf[w])'
      BY <1>1, <2>1 DEF WorkflowInv, ReadsInTurn, VersionsOf
    <2> QED  BY <2>1, <2>2, <2>3, <2>4 DEF WorkflowInv, PassesOn
  <1> QED  BY <1>2, <1>4, <1>5 DEF NodesInv

-----------------------------------------------------------------------------
LEMMA InitHasNodesInv == Init => NodesInv /\ SolverInv
  <1> SUFFICES ASSUME Init PROVE NodesInv /\ SolverInv
    OBVIOUS
  <1>1. /\ now = 0 /\ published = [d \in Datasets |-> <<0>>]
        /\ cache = [d \in Datasets |-> {}] /\ wf = [w \in Workflows |-> New]
    BY DEF Init
  <1>2. NodesTypes
    BY <1>1, NewIsWorkflow DEF NodesTypes
  <1>3. CacheInv
    BY <1>1, NodesAssumption DEF CacheInv
  <1>4. ASSUME NEW w \in Workflows PROVE WorkflowInv(w, wf[w])
    <2>1. PICK s \in Workflow : s = New
      BY NewIsWorkflow
    <2>2. /\ wf[w] = s /\ s.at = "new" /\ s.dataset = "quote"
          /\ \A d \in Datasets : s.rows[d] = Unread
      BY <1>1, <2>1 DEF New
    <2>3. \A d \in Datasets : RowIsRight(Unread, d)
      BY <1>1 DEF RowIsRight, Unread
    <2>4. RowsAreRight(w, s)
      BY <2>2, <2>3, NodesAssumption DEF RowsAreRight, Unread
    <2> QED  BY <2>2, <2>4 DEF WorkflowInv, InTime, ReadsInTurn, PassesOn
  <1> QED  BY <1>2, <1>3, <1>4, InitHasSolverInv DEF NodesInv, Init

LEMMA UncachedKeepsInv ==
  ASSUME NodesInv, NEW w \in Workflows, Advances(w), UNCHANGED cache
  PROVE  NodesInv'
  <1>1. cache' \in [Datasets -> SUBSET Row]
    BY DEF NodesInv, NodesTypes
  <1> QED  BY <1>1, AdvancingKeepsInv

LEMMA NextKeepsNodesInv ==
  ASSUME NodesInv, SolverInv, [Next]_allVars
  PROVE  NodesInv' /\ [SolverNext]_solver
  <1>1. ASSUME NEW w \in Workflows,
               \/ StartResearch(w) \/ Ask(w) \/ Poll(w) \/ Wake(w) \/ GiveUp(w) \/ Structure(w)
               \/ \E status \in {"completed", "failed"} : ProviderEnds(w, status)
        PROVE  NodesInv' /\ UNCHANGED solver
    <2>1. Advances(w) /\ UNCHANGED <<cache, solver>>
      BY <1>1, ResearchAdvances
    <2> QED  BY <2>1, UncachedKeepsInv
  <1>2. ASSUME NEW w \in Workflows, Lookup(w) \/ Fetch(w)
        PROVE  NodesInv' /\ UNCHANGED solver
    BY <1>2, ReadingAdvances, UncachedKeepsInv
  <1>3. ASSUME NEW w \in Workflows, Value(w) \/ NoValue(w)
        PROVE  NodesInv' /\ [SolverNext]_solver
    BY <1>3, ValuingAdvances, UncachedKeepsInv
  <1>4. ASSUME NEW w \in Workflows, TakeSummary(w)
        PROVE  NodesInv' /\ SolverNext
    BY <1>4, SummarisingAdvances, UncachedKeepsInv
  <1>5. ASSUME NEW w \in Workflows, CommitValuation(w) \/ CommitUnanswered(w)
        PROVE  NodesInv' /\ UNCHANGED solver
    <2>1. /\ Advances(w) /\ UNCHANGED solver
          /\ cache' \in [Datasets -> SUBSET Row]
          /\ \A d \in Datasets : \A row \in cache'[d] : row \notin cache[d] =>
               /\ RowIsRight(row, d) /\ row.version # 0
               /\ row.by = w /\ wf[w].at \in Valued
      BY <1>5, CommittingAdvances
    <2> QED  BY <2>1, AdvancingKeepsInv
  <1>6. ASSUME NEW w \in Workflows, NEW cases \in Answers, Audit(w, cases)
        PROVE  NodesInv' /\ UNCHANGED solver
    BY <1>6, AuditingAdvances, UncachedKeepsInv
  <1>7. ASSUME NEW w \in Workflows, NEW advice \in Advices, Advise(w, advice)
        PROVE  NodesInv' /\ UNCHANGED solver
    BY <1>7, AdvisingAdvances, UncachedKeepsInv
  <1>8. ASSUME NEW w \in Workflows, NodeFails(w)
        PROVE  NodesInv' /\ UNCHANGED solver
    <2>1. UNCHANGED <<now, published, cache, solver>> /\ wf' = [wf EXCEPT ![w] = Fails(w)]
      BY <1>8 DEF NodeFails, Moves
    <2>2. Advances(w)
      BY <2>1, FailingAdvances
    <2> QED  BY <2>1, <2>2, UncachedKeepsInv
  <1>9. ASSUME Solve PROVE NodesInv' /\ SolverNext
    BY <1>9, SolvingKeepsInv DEF Solve, SolverNext
  <1>10. ASSUME NEW d \in Datasets, Publish(d) PROVE NodesInv' /\ UNCHANGED solver
    BY <1>10, PublishKeepsInv DEF Publish
  <1>11. ASSUME Tick PROVE NodesInv' /\ UNCHANGED solver
    BY <1>11, TickKeepsInv DEF Tick
  <1>12. ASSUME UNCHANGED allVars PROVE NodesInv' /\ UNCHANGED solver
    <2>1. UNCHANGED nodeVars /\ UNCHANGED solver
      BY <1>12 DEF allVars
    <2> QED  BY <2>1, SolvingKeepsInv
  <1> QED
    BY <1>1, <1>2, <1>3, <1>4, <1>5, <1>6, <1>7, <1>8, <1>9, <1>10, <1>11, <1>12 DEF Next

-----------------------------------------------------------------------------
(* What a step may read. *)
Recent(d, version) ==
  version = Len(published[d]) \/ published[d][version + 1] + TTL > now

ReadsRecently ==
  \A w \in Workflows, d \in Datasets :
    LET version == wf'[w].rows[d].version
    IN  version \notin {0, wf[w].rows[d].version} => Recent(d, version)

(* A step that sets the record of one workflow, and reads nothing. *)
LEMMA SteppingReadsNothing ==
  ASSUME NodesInv, NEW w \in Workflows, NEW s, wf' = [wf EXCEPT ![w] = s],
         s.rows = wf[w].rows \/ s.rows = New.rows
  PROVE  ReadsRecently
  <1>1. wf'[w] = s /\ \A o \in Workflows \ {w} : wf'[o] = wf[o]
    BY DEF NodesInv, NodesTypes
  <1>2. \A d \in Datasets : New.rows[d].version = 0
    BY DEF New, Unread
  <1> QED  BY <1>1, <1>2 DEF ReadsRecently

LEMMA FailingReadsNothing ==
  ASSUME NodesInv, NEW w \in Workflows, wf' = [wf EXCEPT ![w] = Fails(w)]
  PROVE  ReadsRecently
  <1>1. PICK at \in {"failed", "rejected"} : Fails(w) = [New EXCEPT !.at = at]
    BY DEF Fails
  <1>2. PICK s \in Workflow : s = [New EXCEPT !.at = at]
    BY NewIsWorkflow DEF Workflow, Places, Ended
  <1>3. s.rows = New.rows /\ wf' = [wf EXCEPT ![w] = s]
    BY <1>1, <1>2 DEF New
  <1> QED  BY <1>3, SteppingReadsNothing

(* Continuing with a row reads its version, of the dataset it is of. *)
LEMMA ContinuingReads ==
  ASSUME NodesInv, NEW w \in Workflows, wf[w].dataset \in Datasets, NEW row \in Row,
         Recent(wf[w].dataset, row.version), wf' = [wf EXCEPT ![w] = Continue(w, row)]
  PROVE  ReadsRecently
  <1>1. wf[w] \in Workflow /\ \A o \in Workflows \ {w} : wf'[o] = wf[o]
    BY DEF NodesInv, NodesTypes
  <1>2. wf'[w] = Continue(w, row)
    BY DEF NodesInv, NodesTypes
  <1>3. PICK d \in Datasets : d = wf[w].dataset
    OBVIOUS
  <1>4. wf'[w].rows = [wf[w].rows EXCEPT ![d] = row]
    <2>1. PICK next : next = Following(d, [Read(w) EXCEPT ![d] = row.version])
      OBVIOUS
    <2>2. PICK at : at = IF next = "none" THEN "value" ELSE "lookup"
      OBVIOUS
    <2>3. PICK rows : rows = [wf[w].rows EXCEPT ![d] = row]
      OBVIOUS
    <2>4. PICK s : s = [wf[w] EXCEPT !.rows = rows, !.dataset = next, !.stamp = 0, !.at = at]
      OBVIOUS
    <2>5. s.rows = rows
      BY <1>1, <2>4 DEF Workflow
    <2>6. Continue(w, row) = s
      BY <1>1, <1>3, <2>1, <2>2, <2>3, <2>4 DEF Continue, Workflow
    <2> QED  BY <1>2, <2>3, <2>5, <2>6
  <1>5. wf'[w].rows[d] = row /\ \A e \in Datasets \ {d} : wf'[w].rows[e] = wf[w].rows[e]
    BY <1>1, <1>4 DEF Workflow
  <1> QED  BY <1>1, <1>3, <1>5 DEF ReadsRecently

LEMMA ReadingIsRecent ==
  ASSUME NodesInv, NEW w \in Workflows, Lookup(w) \/ Fetch(w)
  PROVE  ReadsRecently
  <1>1. /\ wf[w] \in Workflow /\ WorkflowInv(w, wf[w]) /\ wf[w].at \in {"lookup", "fetch"}
        /\ wf[w].dataset \in Datasets /\ now \in Nat
    BY DEF NodesInv, NodesTypes, WorkflowInv, ReadsInTurn, Lookup, Fetch
  <1>2. PICK d \in Datasets : d = wf[w].dataset
    BY <1>1
  <1>3. published[d] \in Seq(Nat) /\ Len(published[d]) \in Nat
    BY DEF NodesInv, NodesTypes
  <1>4. CASE Lookup(w)
    <2>1. ASSUME NEW old \in cache[d], Fresh(old),
                 Moves(w, "lookup", Continue(w, [Unread EXCEPT !.version = old.version]))
          PROVE  ReadsRecently
      <3>1. old.version \in Nat /\ old.fetched \in Nat /\ RowIsRight(old, d)
        BY DEF NodesInv, NodesTypes, CacheInv, Row
      <3>2. PICK row \in Row : row = [Unread EXCEPT !.version = old.version]
        BY <3>1 DEF Unread, Row
      <3>3. row.version = old.version
        BY <3>2 DEF Unread
      <3>4. old.version < Len(published[d]) =>
              /\ published[d][old.version + 1] \in Nat
              /\ old.fetched <= published[d][old.version + 1]
        BY <1>3, <3>1 DEF RowIsRight
      <3>5. old.version = Len(published[d]) \/ old.version < Len(published[d])
        BY <1>3, <3>1 DEF RowIsRight
      <3>6. old.version < Len(published[d]) => published[d][old.version + 1] + TTL > now
        <4>1. TTL \in Nat /\ old.fetched + TTL > now
          BY <2>1, NodesAssumption DEF Fresh
        <4>2. SUFFICES ASSUME old.version < Len(published[d])
                       PROVE  published[d][old.version + 1] + TTL > now
          OBVIOUS
        <4>3. PICK t \in Nat : t = published[d][old.version + 1] /\ old.fetched <= t
          BY <3>4, <4>2
        <4> QED  BY <1>1, <3>1, <4>1, <4>3
      <3>7. Recent(d, row.version)
        BY <3>3, <3>5, <3>6 DEF Recent
      <3> QED  BY <1>1, <1>2, <2>1, <3>2, <3>7, ContinuingReads DEF Moves
    <2>2. CASE Moves(w, "lookup", [wf[w] EXCEPT !.at = "fetch", !.stamp = now])
      <3>1. PICK s \in Workflow : s = [wf[w] EXCEPT !.at = "fetch", !.stamp = now]
        BY <1>1 DEF Workflow, Places
      <3>2. wf' = [wf EXCEPT ![w] = s] /\ s.rows = wf[w].rows
        BY <1>1, <2>2, <3>1 DEF Moves, Workflow
      <3> QED  BY <3>2, SteppingReadsNothing
    <2> QED  BY <1>2, <1>4, <2>1, <2>2 DEF Lookup
  <1>5. CASE Fetch(w)
    <2>1. wf[w].stamp \in Nat
      BY <1>1 DEF Workflow
    <2>2. PICK row \in Row :
            row = [version |-> Len(published[d]), fetched |-> wf[w].stamp, by |-> w]
      BY <1>3, <2>1 DEF Row
    <2>3. Recent(d, row.version)
      BY <2>2 DEF Recent
    <2>4. wf' = [wf EXCEPT ![w] = Continue(w, row)]
      BY <1>2, <1>5, <2>2 DEF Fetch, Moves
    <2> QED  BY <1>1, <1>2, <2>3, <2>4, ContinuingReads
  <1> QED  BY <1>4, <1>5

(* All other steps of a workflow keep what it has read, or forget it. *)
LEMMA OthersReadNothing ==
  ASSUME NodesInv, SolverInv, NEW w \in Workflows,
         \/ StartResearch(w) \/ Ask(w) \/ Poll(w) \/ Wake(w) \/ GiveUp(w) \/ Structure(w)
         \/ \E status \in {"completed", "failed"} : ProviderEnds(w, status)
         \/ Value(w) \/ NoValue(w) \/ TakeSummary(w)
         \/ CommitValuation(w) \/ CommitUnanswered(w)
         \/ \E cases \in Answers : Audit(w, cases)
         \/ \E advice \in Advices : Advise(w, advice)
         \/ NodeFails(w)
  PROVE  ReadsRecently
  <1>1. wf[w] \in Workflow /\ wf \in [Workflows -> Workflow]
    BY DEF NodesInv, NodesTypes
  <1>2. CASE StartResearch(w)
    <2>1. PICK s : s = [New EXCEPT !.at = "poll", !.deadline = now + MaxWait]
      OBVIOUS
    <2>2. s.rows = New.rows /\ wf' = [wf EXCEPT ![w] = s]
      BY <1>2, <2>1 DEF StartResearch, Moves, New
    <2> QED  BY <2>2, SteppingReadsNothing
  <1>3. CASE Poll(w)
    <2>1. CASE Moves(w, "ask", [wf[w] EXCEPT !.at = "sleep", !.wake = now + PollInterval])
      <3>1. PICK s : s = [wf[w] EXCEPT !.at = "sleep", !.wake = now + PollInterval]
        OBVIOUS
      <3>2. s.rows = wf[w].rows /\ wf' = [wf EXCEPT ![w] = s]
        BY <1>1, <2>1, <3>1 DEF Moves, Workflow
      <3> QED  BY <3>2, SteppingReadsNothing
    <2>2. CASE Moves(w, "ask", [New EXCEPT !.at = "structure"])
      <3>1. PICK s : s = [New EXCEPT !.at = "structure"]
        OBVIOUS
      <3>2. s.rows = New.rows /\ wf' = [wf EXCEPT ![w] = s]
        BY <2>2, <3>1 DEF Moves, New
      <3> QED  BY <3>2, SteppingReadsNothing
    <2>3. CASE Moves(w, "ask", Fails(w))
      BY <2>3, FailingReadsNothing DEF Moves
    <2> QED  BY <1>3, <2>1, <2>2, <2>3 DEF Poll
  <1>12. CASE Ask(w)
    <2>1. PICK s : s = [wf[w] EXCEPT !.at = "ask", !.asked = now, !.seen = wf[w].remote]
      OBVIOUS
    <2>2. s.rows = wf[w].rows /\ wf' = [wf EXCEPT ![w] = s]
      BY <1>1, <1>12, <2>1 DEF Ask, Moves, Workflow
    <2> QED  BY <2>2, SteppingReadsNothing
  <1>4. ASSUME NEW at, wf' = [wf EXCEPT ![w] = [wf[w] EXCEPT !.at = at]]
        PROVE  ReadsRecently
    <2>1. PICK s : s = [wf[w] EXCEPT !.at = at]
      OBVIOUS
    <2>2. s.rows = wf[w].rows /\ wf' = [wf EXCEPT ![w] = s]
      BY <1>1, <1>4, <2>1 DEF Workflow
    <2> QED  BY <2>2, SteppingReadsNothing
  <1>5. CASE Wake(w) \/ GiveUp(w) \/ Structure(w) \/ Value(w)
    BY <1>4, <1>5 DEF Wake, GiveUp, Structure, Goes, Moves, Value
  <1>6. ASSUME NEW status \in {"completed", "failed"}, ProviderEnds(w, status)
        PROVE  ReadsRecently
    <2>1. PICK s : s = [wf[w] EXCEPT !.remote = status, !.doneAt = now]
      OBVIOUS
    <2>2. s.rows = wf[w].rows /\ wf' = [wf EXCEPT ![w] = s]
      BY <1>1, <1>6, <2>1 DEF ProviderEnds, Workflow
    <2> QED  BY <2>2, SteppingReadsNothing
  <1>7. CASE NoValue(w) \/ CommitUnanswered(w) \/ NodeFails(w)
    BY <1>7, FailingReadsNothing DEF NoValue, CommitUnanswered, NodeFails, Moves
  <1>8. CASE TakeSummary(w)
    <2>1. PICK s : s = [wf[w] EXCEPT !.at = "commit", !.summary = Summary]
      OBVIOUS
    <2>2. s.rows = wf[w].rows /\ wf' = [wf EXCEPT ![w] = s]
      BY <1>1, <1>8, <2>1 DEF TakeSummary, Workflow
    <2> QED  BY <2>2, SteppingReadsNothing
  <1>9. CASE CommitValuation(w)
    <2>1. PICK s : s = [New EXCEPT !.at = "audit", !.summary = wf[w].summary]
      OBVIOUS
    <2>2. s.rows = New.rows /\ wf' = [wf EXCEPT ![w] = s]
      BY <1>9, <2>1 DEF CommitValuation, Moves, New
    <2> QED  BY <2>2, SteppingReadsNothing
  <1>10. ASSUME NEW cases \in Answers, Audit(w, cases) PROVE ReadsRecently
    <2>1. PICK s : s = [wf[w] EXCEPT !.at = "advise", !.audit = GrowthsOf(w, cases)]
      OBVIOUS
    <2>2. s.rows = wf[w].rows /\ wf' = [wf EXCEPT ![w] = s]
      BY <1>1, <1>10, <2>1 DEF Audit, Moves, Workflow
    <2> QED  BY <2>2, SteppingReadsNothing
  <1>11. ASSUME NEW advice \in Advices, Advise(w, advice) PROVE ReadsRecently
    <2>1. PICK given :
            given = [p \in Profiles |->
                       GrowthsOf(w, advice[CHOOSE n \in DOMAIN advice : advice[n].name = p].cases)]
      OBVIOUS
    <2>2. PICK s : s = [wf[w] EXCEPT !.at = "done", !.advice = given]
      OBVIOUS
    <2>3. wf' = [wf EXCEPT ![w] = s]
      BY <1>11, <2>1, <2>2 DEF Advise, Moves
    <2>4. s.rows = wf[w].rows
      BY <1>1, <2>2 DEF Workflow
    <2> QED  BY <2>3, <2>4, SteppingReadsNothing
  <1> QED
    BY <1>2, <1>3, <1>5, <1>6, <1>7, <1>8, <1>9, <1>10, <1>11, <1>12

LEMMA NextReadsRecently ==
  ASSUME NodesInv, SolverInv, [Next]_allVars
  PROVE  ReadsRecently
  <1>1. CASE UNCHANGED wf
    BY <1>1 DEF ReadsRecently
  <1>2. CASE \E w \in Workflows : Lookup(w) \/ Fetch(w)
    BY <1>2, ReadingIsRecent
  <1>3. CASE Solve \/ Tick \/ \E d \in Datasets : Publish(d)
    BY <1>1, <1>3 DEF Solve, Tick, Publish, nodeVars
  <1>4. CASE UNCHANGED allVars
    BY <1>1, <1>4 DEF allVars, nodeVars
  <1>5. CASE Next /\ ~(Solve \/ Tick \/ \E d \in Datasets : Publish(d))
    <2>1. PICK w \in Workflows :
            \/ StartResearch(w) \/ Ask(w) \/ Poll(w) \/ Wake(w) \/ GiveUp(w) \/ Structure(w)
            \/ \E status \in {"completed", "failed"} : ProviderEnds(w, status)
            \/ Lookup(w) \/ Fetch(w) \/ Value(w) \/ NoValue(w)
            \/ TakeSummary(w) \/ CommitValuation(w) \/ CommitUnanswered(w)
            \/ \E cases \in Answers : Audit(w, cases)
            \/ \E advice \in Advices : Advise(w, advice)
            \/ NodeFails(w)
      BY <1>5 DEF Next
    <2> QED  BY <1>2, <2>1, OthersReadNothing
  <1> QED  BY <1>3, <1>4, <1>5

-----------------------------------------------------------------------------
AnalysisInv == NodesInv /\ SolverInv

LEMMA NextKeepsAnalysisInv ==
  AnalysisInv /\ [Next]_allVars => AnalysisInv' /\ [SolverNext]_solver
  BY NextKeepsNodesInv, NextKeepsSolverInv DEF AnalysisInv

LEMMA ResearchIsInTime == AnalysisInv => ResearchEndsInTime
  <1> SUFFICES ASSUME AnalysisInv, NEW w \in Workflows
               PROVE  /\ wf[w].at = "late" /\ wf[w].remote = "completed" =>
                           /\ wf[w].asked <= wf[w].doneAt
                           /\ wf[w].deadline <= wf[w].doneAt + PollInterval + Latency
                      /\ wf[w].at \in {"poll", "ask", "sleep"} =>
                           now < wf[w].deadline + PollInterval + Latency
    BY DEF ResearchEndsInTime
  <1>1. /\ InTime(wf[w]) /\ now \in Nat /\ PollInterval \in Nat \ {0} /\ Latency \in Nat
        /\ wf[w].wake \in Nat /\ wf[w].deadline \in Nat /\ wf[w].asked \in Nat
    BY NodesAssumption DEF AnalysisInv, NodesInv, NodesTypes, WorkflowInv, Workflow
  <1> QED  BY <1>1 DEF InTime, SeenWhenAsked

LEMMA CachedWereValued == AnalysisInv => OnlyValuedIsCached
  BY DEF AnalysisInv, NodesInv, CacheInv, OnlyValuedIsCached

LEMMA AdviceIsOfSummary == AnalysisInv => AdviceMatchesValuation
  BY DEF AnalysisInv, NodesInv, WorkflowInv, PassesOn, InOrder, AdviceMatchesValuation

LEMMA AnalysisHasInv == Spec => []AnalysisInv
  <1>1. Init => AnalysisInv
    BY InitHasNodesInv DEF AnalysisInv
  <1> QED  BY <1>1, NextKeepsAnalysisInv, PTL DEF Spec

(* The nodes use the solver as it is meant to be used: it is started with what
   its assumptions speak of, when it is idle, and its answers are taken when all
   its scenarios have one. *)
THEOREM NodesRunSolver == Spec => SolverSpec
  <1>1. Init => SolverInit
    BY DEF Init
  <1> QED  BY <1>1, AnalysisHasInv, NextKeepsAnalysisInv, PTL DEF Spec, SolverSpec

(* So what the valuation of a workflow answers is right, too. *)
THEOREM AnalysisSolverFindsRoot == Spec => []SolverFindsRoot
  BY NodesRunSolver, SolverIsRight, PTL

(* For every interval, deadline and latency: a research given up had not been
   completed when it was last asked for, an interval and an answer before its
   deadline at the most, and none is waited for longer than that after it
   (run_report). *)
THEOREM ResearchIsTimely == Spec => []ResearchEndsInTime
  BY AnalysisHasInv, ResearchIsInTime, PTL

(* The rows of a valuation that failed are never seen by another one
   (_fetch_dataset_cached flushes, the orchestrator commits). *)
THEOREM CacheIsOfValued == Spec => []OnlyValuedIsCached
  BY AnalysisHasInv, CachedWereValued, PTL

(* The growths that audit and advice speak of are those of the summary of the
   same workflow, which are in the bracket and in their order. *)
THEOREM AdviceIsOfValuation == Spec => []AdviceMatchesValuation
  BY AnalysisHasInv, AdviceIsOfSummary, PTL

(* Whatever the TTL and however often the provider publishes, a valuation reads
   a version that is current or was less than TTL ago (_fetch_dataset_cached). *)
THEOREM AnalysisReadsAreRecent == Spec => ReadsAreRecent
  <1>1. AnalysisInv /\ [Next]_allVars => ReadsRecently
    BY NextReadsRecently DEF AnalysisInv
  <1>2. ReadsRecently =>
          \A w \in Workflows, d \in Datasets :
            LET version == wf'[w].rows[d].version
            IN  version \notin {0, wf[w].rows[d].version} =>
                  version = Len(published[d]) \/ published[d][version + 1] + TTL > now
    BY DEF ReadsRecently, Recent
  <1> QED  BY <1>1, <1>2, AnalysisHasInv, PTL DEF Spec, ReadsAreRecent

=============================================================================
