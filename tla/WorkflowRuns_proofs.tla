------------------------ MODULE WorkflowRuns_proofs ------------------------
(***************************************************************************)
(* The trail and the state of an analysis workflow, and the snapshot of    *)
(* its symbol, are right for any number of workflows and nodes, and with   *)
(* any number of heartbeats, stall events, database failures and crashes.  *)
(***************************************************************************)
EXTENDS WorkflowRuns, FiniteSetTheorems, TLAPS

TaskTypes == [at : Points, step : 0..NumSteps, seq : Nat, fresh : BOOLEAN]

(* The numbers of a trail are those up to its length... *)
NumberedOf(w) ==
  /\ IsFiniteSet(Of(w))
  /\ {e.seq : e \in Of(w)} = 1..Cardinality(Of(w))

(* ...and a number that was read is one of them, or the next. *)
NumbersRead ==
  /\ \A w \in Workflows : task[w].seq <= Cardinality(Of(w)) + 1
  /\ \A w \in monitor.on : monitor.seq \in 1..Cardinality(Of(w)) + 1

(* A task at one of these points has made a transition, so that the symbol
   has a snapshot. *)
Working == {"step", "started", "node", "beat", "succeeded", "persist", "finish"}

TasksRight ==
  \A w \in Workflows :
    /\ state[w] = "absent" => task[w].at = "none"
    /\ task[w].seq # NoSeq => task[w].at \in Appending
    /\ task[w].at \in Working => snapshot # NoRow
    /\ task[w].seq # NoSeq /\ task[w].at \in Transitions /\ ~task[w].fresh =>
         snapshot # NoRow

TrailInv ==
  /\ TypeOK
  /\ TasksRight
  /\ \A w \in Workflows : NumberedOf(w)
  /\ NumbersRead

(* Only the task of a workflow changes its state: what a transition found
   allowed when it read its number is still allowed when it commits. *)
StateInv ==
  /\ \A w \in Workflows :
       task[w].seq # NoSeq /\ task[w].at \in Transitions =>
         state[w] \in WorkflowStates /\ NewState(task[w].at) \in Allowed[state[w]]
  /\ \A e \in events : e.type \in Transitions => state[e.workflow] # "absent"
  /\ StateIsLastTransition

(* A node has been started and has succeeded, and since then only it and the
   nodes after it have appended events. *)
NodeDone(w, s) ==
  \E a, b \in Of(w) :
    /\ a.type = "started" /\ b.type = "succeeded" /\ a.step = s /\ b.step = s
    /\ a.seq < b.seq
    /\ \A e \in Of(w) : e.seq > b.seq /\ e.type # "stalled" => e.step >= s

Finished(w) == \E e \in Of(w) : e.type = "finish"

(* How far the trail of a workflow is when its task is where it is. *)
ProgressOf(w) ==
  /\ \A e \in Of(w) : e.type # "stalled" => e.step <= task[w].step
  /\ \A s \in 1..NumSteps :
       s < task[w].step \/ (s = task[w].step /\ task[w].at \in {"persist", "finish"}) =>
         NodeDone(w, s)
  /\ task[w].at \in {"node", "beat", "succeeded"} =>
       \E a \in Of(w) : a.type = "started" /\ a.step = task[w].step
  /\ task[w].at \in {"none", "queued"} => task[w].step = 0
  /\ task[w].at = "finish" \/ Finished(w) => task[w].step = NumSteps

(* What a task has persisted is in the snapshot, or what another has. *)
RefreshedBy(w) ==
  \A s \in 1..NumSteps :
    s < task[w].step \/ (task[w].at = "finish" \/ Finished(w)) =>
      snapshot \in Details /\ snapshot[s] \in Workflows

ProgressInv ==
  /\ \A w \in Workflows : ProgressOf(w) /\ RefreshedBy(w)
  /\ CompletedAfterAllNodes

-----------------------------------------------------------------------------
(* An event that takes a free number of those that may have been read takes
   the next one. *)
LEMMA EventIsNext ==
  ASSUME NEW w \in Workflows, NumberedOf(w), events \subseteq Event,
         NEW x \in Event, x.workflow = w,
         x.seq <= Cardinality(Of(w)) + 1, ~Taken(w, x.seq),
         events' = events \cup {x}
  PROVE  /\ Cardinality(Of(w)) \in Nat
         /\ Of(w)' = Of(w) \cup {x} /\ x \notin Of(w)
         /\ Cardinality(Of(w)') = Cardinality(Of(w)) + 1
         /\ x.seq = Cardinality(Of(w)) + 1
         /\ \A e \in Of(w) : e.seq < x.seq
         /\ NumberedOf(w)'
         /\ \A v \in Workflows \ {w} : Of(v)' = Of(v)
  <1> DEFINE n == Cardinality(Of(w))
  <1>1. n \in Nat
    BY FS_CardinalityType DEF NumberedOf
  <1>2. {e.seq : e \in Of(w)} = 1..n
    BY DEF NumberedOf
  <1>3. x.seq \in Nat \ {0} /\ x.seq \notin 1..n
    BY <1>2 DEF Event, Taken
  <1> HIDE DEF n
  <1>4. x.seq = n + 1
    BY <1>1, <1>3 DEF n
  <1>5. \A e \in Of(w) : e.seq < x.seq
    BY <1>1, <1>2, <1>4
  <1>6. x \notin Of(w)
    BY <1>2, <1>3
  <1>7. Of(w)' = Of(w) \cup {x} /\ \A v \in Workflows \ {w} : Of(v)' = Of(v)
    BY DEF Of
  <1>8. IsFiniteSet(Of(w)') /\ Cardinality(Of(w)') = n + 1
    BY <1>6, <1>7, FS_AddElement DEF NumberedOf, n
  <1>9. {e.seq : e \in Of(w)'} = 1..(n + 1)
    <2>1. {e.seq : e \in Of(w)'} = {e.seq : e \in Of(w)} \cup {x.seq}
      BY <1>7
    <2>2. (1..n) \cup {n + 1} = 1..(n + 1)
      BY <1>1
    <2> QED  BY <1>2, <1>4, <2>1, <2>2
  <1> QED  BY <1>1, <1>4, <1>5, <1>6, <1>7, <1>8, <1>9 DEF NumberedOf, n

LEMMA NextSeqIsNext ==
  ASSUME NEW w \in Workflows, NumberedOf(w)
  PROVE  NextSeq(w) = Cardinality(Of(w)) + 1 /\ Cardinality(Of(w)) \in Nat
  <1> DEFINE n == Cardinality(Of(w))
             seqs == {e.seq : e \in Of(w)}
  <1>1. n \in Nat /\ seqs = 1..n
    BY FS_CardinalityType DEF NumberedOf
  <1>2. CASE Of(w) = {}
    BY <1>2, FS_EmptySet DEF NextSeq
  <1>3. CASE Of(w) # {}
    <2>1. seqs # {}
      BY <1>3
    <2> DEFINE last == CHOOSE m \in seqs : \A e \in Of(w) : e.seq <= m
    <2>2. n \in seqs /\ \A e \in Of(w) : e.seq <= n
      <3>1. \A e \in Of(w) : e.seq \in 1..n
        BY <1>1
      <3> QED  BY <1>1, <2>1, <3>1
    <2>3. last \in seqs /\ \A e \in Of(w) : e.seq <= last
      BY <2>2
    <2>4. last = n
      <3>1. PICK e \in Of(w) : e.seq = n
        BY <2>2
      <3> HIDE DEF last
      <3> QED  BY <1>1, <2>3, <3>1
    <2>5. NextSeq(w) = 1 + last
      BY <1>3 DEF NextSeq
    <2> HIDE DEF last
    <2> QED  BY <1>1, <2>4, <2>5
  <1> QED  BY <1>2, <1>3

(* What Goto does to a task. *)
LEMMA GotoMoves ==
  ASSUME task \in [Workflows -> TaskTypes], NEW w \in Workflows, NEW p \in Points, Goto(w, p)
  PROVE  /\ task' \in [Workflows -> TaskTypes]
         /\ task'[w].at = p /\ task'[w].step = task[w].step
         /\ task'[w].seq = 0 /\ task'[w].fresh = FALSE
         /\ \A v \in Workflows \ {w} : task'[v] = task[v]
  BY DEF Goto, TaskTypes, NoSeq

LEMMA AfterMoves ==
  ASSUME task \in [Workflows -> TaskTypes], NEW w \in Workflows,
         task[w].at \in Appending, task' = [task EXCEPT ![w] = After(w)]
  PROVE  /\ task' \in [Workflows -> TaskTypes]
         /\ task'[w] = After(w) /\ task'[w].seq = 0 /\ task'[w].fresh = FALSE
         /\ task'[w].step = IF task[w].at = "queued" THEN 1 ELSE task[w].step
         /\ task'[w].at = CASE task[w].at = "queued" -> "step"
                            [] task[w].at = "step" -> "started"
                            [] task[w].at \in {"started", "beat"} -> "node"
                            [] task[w].at = "succeeded" -> "persist"
                            [] task[w].at = "nodefail" -> "mark"
                            [] task[w].at \in {"finish", "fail"} -> "end"
         /\ \A v \in Workflows \ {w} : task'[v] = task[v]
  <1> DEFINE next == CASE task[w].at = "queued" -> "step"
                       [] task[w].at = "step" -> "started"
                       [] task[w].at \in {"started", "beat"} -> "node"
                       [] task[w].at = "succeeded" -> "persist"
                       [] task[w].at = "nodefail" -> "mark"
                       [] task[w].at \in {"finish", "fail"} -> "end"
             one == IF task[w].at = "queued" THEN 1 ELSE task[w].step
  <1>1. next \in Points
    BY DEF Appending, MainPoints, OwnSession, Points
  <1>2. task[w] \in TaskTypes
    OBVIOUS
  <1>3. one \in 0..NumSteps
    BY <1>2, RunsAssumption DEF TaskTypes
  <1>4. After(w) = [task[w] EXCEPT !.at = next, !.seq = 0, !.fresh = FALSE, !.step = one]
    BY DEF After, NoSeq
  <1> HIDE DEF next, one
  <1>5. After(w) = [at |-> next, step |-> one, seq |-> 0, fresh |-> FALSE]
    BY <1>2, <1>4 DEF TaskTypes
  <1>6. After(w) \in TaskTypes
    BY <1>1, <1>3, <1>5 DEF TaskTypes
  <1>7. task'[w] = After(w) /\ \A v \in Workflows \ {w} : task'[v] = task[v]
    OBVIOUS
  <1>8. task' \in [Workflows -> TaskTypes]
    BY <1>6
  <1>9. /\ task'[w].at = next /\ task'[w].step = one
        /\ task'[w].seq = 0 /\ task'[w].fresh = FALSE
    BY <1>5, <1>7
  <1> QED  BY <1>7, <1>8, <1>9, Zenon DEF next, one

LEMMA BrokenIsPoint ==
  ASSUME NEW w \in Workflows, task[w].at \in Appending \cup {"node", "persist", "mark"}
  PROVE  Broken(w) \in {"dead", "nodefail", "mark"}
  BY DEF Broken, Appending, MainPoints, OwnSession

-----------------------------------------------------------------------------
(* Types of what several actions write *)
LEMMA TypesOfTables ==
  ASSUME TypeOK
  PROVE  /\ task \in [Workflows -> TaskTypes] /\ NoDetails \in Details
         /\ snapshot \in Details \cup {NoRow} /\ events \subseteq Event
  BY RunsAssumption DEF TypeOK, TaskTypes, NoDetails, Details

LEMMA OneMoreFault ==
  ASSUME TypeOK, MoreTroubles
  PROVE  /\ [count EXCEPT !.faults = @ + 1]
              \in [beats : 0..MaxBeats, stalls : 0..MaxTroubles, faults : 0..MaxTroubles]
         /\ [count EXCEPT !.stalls = @ + 1]
              \in [beats : 0..MaxBeats, stalls : 0..MaxTroubles, faults : 0..MaxTroubles]
  <1> DEFINE f == count.faults + 1
             s == count.stalls + 1
  <1>1. count \in [beats : 0..MaxBeats, stalls : 0..MaxTroubles, faults : 0..MaxTroubles]
    BY DEF TypeOK
  <1>2. f \in 0..MaxTroubles /\ s \in 0..MaxTroubles
    BY <1>1, RunsAssumption DEF MoreTroubles
  <1> HIDE DEF f, s
  <1>3. /\ [count EXCEPT !.faults = f]
              \in [beats : 0..MaxBeats, stalls : 0..MaxTroubles, faults : 0..MaxTroubles]
        /\ [count EXCEPT !.stalls = s]
              \in [beats : 0..MaxBeats, stalls : 0..MaxTroubles, faults : 0..MaxTroubles]
    BY <1>1, <1>2
  <1> QED  BY <1>3 DEF f, s

(* A step that appends nothing: a task may go on, or give up the number that
   it has read, and so may the monitor. *)
LEMMA QuietKeepsTrail ==
  ASSUME TrailInv, TypeOK', UNCHANGED <<state, events, snapshot>>,
         \A v \in Workflows :
           \/ task'[v] = task[v]
           \/ /\ task'[v].seq = 0 /\ task[v].at # "none"
              /\ task'[v].at \in Working => task[v].at \in Working,
         \/ monitor'.on \subseteq monitor.on /\ monitor'.seq = monitor.seq
         \/ monitor'.on = {}
  PROVE  TrailInv'
  <1>1. TasksRight'
    BY DEF TrailInv, TasksRight, NoSeq
  <1>2. \A w \in Workflows : Of(w)' = Of(w) /\ NumberedOf(w)' /\ Cardinality(Of(w)) \in Nat
    BY FS_CardinalityType DEF TrailInv, NumberedOf, Of
  <1>3. NumbersRead'
    <2>1. ASSUME NEW w \in Workflows PROVE task'[w].seq <= Cardinality(Of(w)') + 1
      BY <1>2, <2>1 DEF TrailInv, NumbersRead
    <2>2. ASSUME NEW w \in monitor'.on PROVE monitor'.seq \in 1..Cardinality(Of(w)') + 1
      <3>1. w \in Workflows
        BY DEF TypeOK
      <3> QED  BY <1>2, <3>1 DEF TrailInv, NumbersRead
    <2> QED  BY <2>1, <2>2 DEF NumbersRead
  <1> QED  BY <1>1, <1>2, <1>3 DEF TrailInv

-----------------------------------------------------------------------------
(* Each operation keeps the trail. *)
LEMMA StartWorkflowTrail ==
  ASSUME TrailInv, NEW w \in Workflows, StartWorkflow(w)
  PROVE  TrailInv'
  <1>1. /\ task' \in [Workflows -> TaskTypes]
        /\ task'[w].at = "queued" /\ task'[w].seq = 0
        /\ \A v \in Workflows \ {w} : task'[v] = task[v]
    <2>1. "queued" \in Points
      BY DEF Points, Appending, MainPoints
    <2> QED  BY <2>1, GotoMoves, TypesOfTables DEF TrailInv, StartWorkflow
  <1>2. state' = [state EXCEPT ![w] = "queued"] /\ UNCHANGED <<coded, events, snapshot, monitor, count>>
    BY DEF StartWorkflow
  <1>3. TypeOK'
    BY <1>1, <1>2 DEF TrailInv, TypeOK, TaskTypes, WorkflowStates
  <1>4. TasksRight'
    <2> SUFFICES ASSUME NEW v \in Workflows
                 PROVE  /\ state'[v] = "absent" => task'[v].at = "none"
                        /\ task'[v].seq # NoSeq => task'[v].at \in Appending
                        /\ task'[v].at \in Working => snapshot' # NoRow
                        /\ task'[v].seq # NoSeq /\ task'[v].at \in Transitions /\ ~task'[v].fresh =>
                             snapshot' # NoRow
      BY DEF TasksRight
    <2>1. CASE v = w
      BY <1>1, <1>2, <2>1 DEF TrailInv, TypeOK, NoSeq, Working
    <2>2. CASE v # w
      BY <1>1, <1>2, <2>2 DEF TrailInv, TypeOK, TasksRight
    <2> QED  BY <2>1, <2>2
  <1>5. \A v \in Workflows : Of(v)' = Of(v) /\ NumberedOf(v)' /\ Cardinality(Of(v)) \in Nat
    BY <1>2, FS_CardinalityType DEF TrailInv, NumberedOf, Of
  <1>6. NumbersRead'
    <2>1. ASSUME NEW v \in Workflows PROVE task'[v].seq <= Cardinality(Of(v)') + 1
      BY <1>1, <1>5, <2>1 DEF TrailInv, NumbersRead
    <2>2. ASSUME NEW v \in monitor'.on PROVE monitor'.seq \in 1..Cardinality(Of(v)') + 1
      BY <1>2, <1>5 DEF TrailInv, NumbersRead, TypeOK
    <2> QED  BY <2>1, <2>2 DEF NumbersRead
  <1> QED  BY <1>3, <1>4, <1>5, <1>6 DEF TrailInv

LEMMA ReadSeqTrail ==
  ASSUME TrailInv, NEW w \in Workflows, ReadSeq(w)
  PROVE  TrailInv'
  <1> DEFINE first == task[w].at \in Transitions /\ snapshot = NoRow
             n == Cardinality(Of(w)) + 1
  <1>1. n \in Nat \ {0} /\ NextSeq(w) = n
    BY NextSeqIsNext DEF TrailInv
  <1>2. task' = [task EXCEPT ![w].seq = NextSeq(w), ![w].fresh = first]
    BY DEF ReadSeq
  <1>3. /\ UNCHANGED <<state, coded, events, snapshot, monitor, count>>
        /\ task[w].at \in Appending /\ task \in [Workflows -> TaskTypes]
    BY TypesOfTables DEF ReadSeq, TrailInv
  <1>4. first \in BOOLEAN
    OBVIOUS
  <1> HIDE DEF first, n
  <1>5. /\ task' \in [Workflows -> TaskTypes]
        /\ task'[w].at = task[w].at /\ task'[w].seq = n /\ task'[w].fresh = first
        /\ \A v \in Workflows \ {w} : task'[v] = task[v]
    BY <1>1, <1>2, <1>3, <1>4 DEF TaskTypes
  <1>6. TypeOK'
    BY <1>3, <1>5 DEF TrailInv, TypeOK, TaskTypes
  <1>7. TasksRight'
    <2> SUFFICES ASSUME NEW v \in Workflows
                 PROVE  /\ state'[v] = "absent" => task'[v].at = "none"
                        /\ task'[v].seq # NoSeq => task'[v].at \in Appending
                        /\ task'[v].at \in Working => snapshot' # NoRow
                        /\ task'[v].seq # NoSeq /\ task'[v].at \in Transitions /\ ~task'[v].fresh =>
                             snapshot' # NoRow
      BY DEF TasksRight
    <2>1. CASE v = w
      BY <1>3, <1>5, <2>1 DEF TrailInv, TasksRight, first
    <2>2. CASE v # w
      BY <1>3, <1>5, <2>2 DEF TrailInv, TasksRight
    <2> QED  BY <2>1, <2>2
  <1>8. \A v \in Workflows : Of(v)' = Of(v) /\ NumberedOf(v)' /\ Cardinality(Of(v)) \in Nat
    BY <1>3, FS_CardinalityType DEF TrailInv, NumberedOf, Of
  <1>9. NumbersRead'
    <2>1. ASSUME NEW v \in Workflows PROVE task'[v].seq <= Cardinality(Of(v)') + 1
      <3>1. CASE v = w
        BY <1>1, <1>5, <1>8, <3>1 DEF n
      <3>2. CASE v # w
        BY <1>5, <1>8, <3>2 DEF TrailInv, NumbersRead
      <3> QED  BY <3>1, <3>2
    <2>2. ASSUME NEW v \in monitor'.on PROVE monitor'.seq \in 1..Cardinality(Of(v)') + 1
      BY <1>3, <1>8 DEF TrailInv, NumbersRead, TypeOK
    <2> QED  BY <2>1, <2>2 DEF NumbersRead
  <1> QED  BY <1>6, <1>7, <1>8, <1>9 DEF TrailInv

-----------------------------------------------------------------------------
(* The event that a task appends *)
Appended(w, x) ==
  /\ x.workflow = w /\ x.type = task[w].at /\ x.step = task[w].step /\ x.seq = task[w].seq
  /\ x.state = IF task[w].at \in Transitions THEN NewState(task[w].at) ELSE state[w]
  /\ events' = events \cup {x}
  /\ state' = [state EXCEPT ![w] = x.state]

LEMMA EventAppended ==
  ASSUME TrailInv, NEW w \in Workflows, CommitEvent(w)
  PROVE  \E x \in Event : Appended(w, x)
  <1> DEFINE at == task[w].at
             result == IF at \in Transitions THEN NewState(at) ELSE state[w]
             x == [workflow |-> w, seq |-> task[w].seq, type |-> at,
                   step |-> task[w].step, state |-> result]
  <1>1. /\ at \in Appending /\ task[w].seq # NoSeq
        /\ events' = events \cup {x} /\ state' = [state EXCEPT ![w] = result]
    BY DEF CommitEvent
  <1>2. task[w] \in TaskTypes
    BY TypesOfTables DEF TrailInv
  <1>3. result \in WorkflowStates
    <2>1. CASE at \in Transitions
      BY <2>1 DEF Transitions, MainPoints, NewState, WorkflowStates, Terminal
    <2>2. CASE at \notin Transitions
      <3>1. at # "none"
        BY <1>1 DEF Appending, MainPoints, OwnSession
      <3> QED  BY <2>2, <3>1 DEF TrailInv, TypeOK, TasksRight
    <2> QED  BY <2>1, <2>2
  <1> HIDE DEF result, at
  <1>4. x \in Event
    BY <1>1, <1>2, <1>3 DEF Event, TaskTypes, NoSeq
  <1>5. Appended(w, x)
    BY <1>1 DEF Appended, result, at
  <1> QED  BY <1>4, <1>5

(* What the COMMIT of a transition makes of the snapshot *)
LEMMA SnapshotProjected ==
  ASSUME TrailInv, NEW w \in Workflows, CommitEvent(w)
  PROVE  /\ task[w].at \in Transitions => snapshot' \in Details
         /\ snapshot # NoRow => snapshot' = snapshot
         /\ snapshot' \in Details \cup {NoRow}
  <1>1. snapshot \in Details \cup {NoRow} /\ NoDetails \in Details
    BY TypesOfTables DEF TrailInv
  <1>2. task[w].fresh => snapshot = NoRow
    BY DEF CommitEvent, Refused, InsertedSince
  <1>3. task[w].at \in Transitions /\ ~task[w].fresh => snapshot # NoRow
    BY DEF CommitEvent, TrailInv, TasksRight
  <1>4. snapshot' = IF task[w].at \in Transitions THEN Projected(w) ELSE snapshot
    BY DEF CommitEvent
  <1> QED  BY <1>1, <1>2, <1>3, <1>4 DEF Projected

LEMMA CommitEventTrail ==
  ASSUME TrailInv, NEW w \in Workflows, CommitEvent(w)
  PROVE  TrailInv'
  <1>1. PICK x \in Event : Appended(w, x)
    BY EventAppended
  <1>2. /\ x.workflow = w /\ x.seq <= Cardinality(Of(w)) + 1 /\ ~Taken(w, x.seq)
        /\ events' = events \cup {x} /\ state' = [state EXCEPT ![w] = x.state]
    BY <1>1 DEF Appended, CommitEvent, Refused, TrailInv, NumbersRead
  <1>3. /\ task[w].at \in Appending /\ task' = [task EXCEPT ![w] = After(w)]
        /\ task \in [Workflows -> TaskTypes] /\ events \subseteq Event
        /\ \A v \in Workflows : NumberedOf(v)
        /\ UNCHANGED <<monitor, count>>
    BY TypesOfTables DEF CommitEvent, TrailInv
  <1>4. /\ Cardinality(Of(w)) \in Nat
        /\ Cardinality(Of(w)') = Cardinality(Of(w)) + 1
        /\ NumberedOf(w)'
        /\ \A v \in Workflows \ {w} : Of(v)' = Of(v)
    BY <1>2, <1>3, EventIsNext
  <1>5. /\ task' \in [Workflows -> TaskTypes]
        /\ task'[w].seq = 0
        /\ task'[w].at \in Working => task[w].at \in Transitions \cup Working
        /\ \A v \in Workflows \ {w} : task'[v] = task[v]
    <2>1. task'[w].at \in Working => task[w].at \in Transitions \cup Working
      <3>1. task[w].at \in {"queued", "step", "started", "beat", "succeeded", "nodefail",
                            "finish", "fail"}
        BY <1>3 DEF Appending, MainPoints, OwnSession
      <3>2. /\ task[w].at = "nodefail" => task'[w].at = "mark"
            /\ task[w].at \in {"finish", "fail"} => task'[w].at = "end"
        BY <1>3, AfterMoves
      <3> QED  BY <3>1, <3>2 DEF Working, Transitions, MainPoints
    <2> QED  BY <1>3, <2>1, AfterMoves
  <1>6. /\ task[w].at \in Transitions => snapshot' \in Details
        /\ snapshot # NoRow => snapshot' = snapshot
        /\ snapshot' \in Details \cup {NoRow}
    BY SnapshotProjected
  <1>7. TypeOK'
    <2>1. state' \in [Workflows -> {"absent"} \cup WorkflowStates]
      BY <1>2 DEF TrailInv, TypeOK, Event
    <2>2. coded' \subseteq Workflows
      BY DEF CommitEvent, TrailInv, TypeOK
    <2> QED  BY <1>2, <1>3, <1>5, <1>6, <2>1, <2>2 DEF TrailInv, TypeOK, TaskTypes
  <1>8. x.state # "absent" /\ state \in [Workflows -> {"absent"} \cup WorkflowStates]
    BY DEF Event, WorkflowStates, Terminal, TrailInv, TypeOK
  <1>9. snapshot # NoRow => snapshot' # NoRow
    BY <1>6
  <1>10. TasksRight'
    <2> SUFFICES ASSUME NEW v \in Workflows
                 PROVE  /\ state'[v] = "absent" => task'[v].at = "none"
                        /\ task'[v].seq # NoSeq => task'[v].at \in Appending
                        /\ task'[v].at \in Working => snapshot' # NoRow
                        /\ task'[v].seq # NoSeq /\ task'[v].at \in Transitions /\ ~task'[v].fresh =>
                             snapshot' # NoRow
      BY DEF TasksRight
    <2>1. CASE v = w
      <3>1. task[w].at \in Transitions => snapshot' # NoRow
        BY <1>6, RunsAssumption
      <3>2. task[w].at \in Working => snapshot' # NoRow
        BY <1>9 DEF TrailInv, TasksRight
      <3> QED  BY <1>2, <1>5, <1>8, <2>1, <3>1, <3>2 DEF NoSeq
    <2>2. CASE v # w
      BY <1>2, <1>5, <1>8, <1>9, <2>2 DEF TrailInv, TasksRight
    <2> QED  BY <2>1, <2>2
  <1>11. \A v \in Workflows : NumberedOf(v)' /\ Cardinality(Of(v)) \in Nat
    BY <1>3, <1>4, FS_CardinalityType DEF NumberedOf
  <1>12. NumbersRead'
    <2>1. ASSUME NEW v \in Workflows
          PROVE  Cardinality(Of(v)) <= Cardinality(Of(v)') /\ Cardinality(Of(v)') \in Nat
      BY <1>4, <1>11
    <2>2. ASSUME NEW v \in Workflows PROVE task'[v].seq <= Cardinality(Of(v)') + 1
      <3>1. task[v].seq \in Nat /\ task[v].seq <= Cardinality(Of(v)) + 1
        BY <1>3 DEF TrailInv, NumbersRead, TaskTypes
      <3> QED  BY <1>5, <1>11, <2>1, <3>1
    <2>3. ASSUME NEW v \in monitor'.on PROVE monitor'.seq \in 1..Cardinality(Of(v)') + 1
      <3>1. v \in Workflows /\ monitor.seq \in 1..Cardinality(Of(v)) + 1
        BY <1>3 DEF TrailInv, NumbersRead, TypeOK
      <3> QED  BY <1>3, <1>11, <2>1, <3>1
    <2> QED  BY <2>2, <2>3 DEF NumbersRead
  <1> QED  BY <1>7, <1>10, <1>11, <1>12 DEF TrailInv

-----------------------------------------------------------------------------
(* The steps of a task that append nothing *)
LEMMA EventRefusedTrail ==
  ASSUME TrailInv, NEW w \in Workflows, EventRefused(w)
  PROVE  TrailInv'
  <1> DEFINE p == IF InsertedSince(w) THEN "outrun" ELSE Broken(w)
  <1>1. /\ p \in {"outrun", "dead", "nodefail", "mark"} /\ Goto(w, p)
        /\ task[w].at \in Appending
        /\ UNCHANGED <<state, coded, events, snapshot, monitor, count>>
    BY BrokenIsPoint DEF EventRefused
  <1> HIDE DEF p
  <1>2. p \in Points /\ p \notin Working
    BY <1>1 DEF Points, Appending, OwnSession, Working
  <1>3. /\ task' \in [Workflows -> TaskTypes] /\ task'[w].seq = 0 /\ task'[w].at = p
        /\ \A v \in Workflows \ {w} : task'[v] = task[v]
    BY <1>1, <1>2, GotoMoves, TypesOfTables DEF TrailInv
  <1>4. TypeOK'
    BY <1>1, <1>3 DEF TrailInv, TypeOK, TaskTypes
  <1> QED  BY <1>1, <1>2, <1>3, <1>4, QuietKeepsTrail DEF Appending, MainPoints, OwnSession

LEMMA HeartbeatTrail ==
  ASSUME TrailInv, NEW w \in Workflows, Heartbeat(w)
  PROVE  TrailInv'
  <1> DEFINE b == count.beats + 1
  <1>1. /\ task[w].at = "node" /\ Goto(w, "beat")
        /\ count' = [count EXCEPT !.beats = b]
        /\ UNCHANGED <<state, coded, events, snapshot, monitor>>
    BY DEF Heartbeat
  <1>2. /\ task' \in [Workflows -> TaskTypes] /\ task'[w].seq = 0
        /\ \A v \in Workflows \ {w} : task'[v] = task[v]
    BY <1>1, GotoMoves, TypesOfTables DEF TrailInv, Points, Appending, OwnSession
  <1>3. b \in 0..MaxBeats
    BY RunsAssumption DEF Heartbeat, TrailInv, TypeOK
  <1> HIDE DEF b
  <1>4. TypeOK'
    BY <1>1, <1>2, <1>3 DEF TrailInv, TypeOK, TaskTypes
  <1> QED  BY <1>1, <1>2, <1>4, QuietKeepsTrail DEF Working

LEMMA NodeEndsTrail ==
  ASSUME TrailInv, NEW w \in Workflows, NodeEnds(w)
  PROVE  TrailInv'
  <1>1. PICK p \in {"succeeded", "nodefail"} : Goto(w, p)
    BY DEF NodeEnds
  <1>2. /\ task[w].at = "node"
        /\ UNCHANGED <<state, coded, events, snapshot, monitor, count>>
    BY DEF NodeEnds
  <1>3. /\ task' \in [Workflows -> TaskTypes] /\ task'[w].seq = 0
        /\ \A v \in Workflows \ {w} : task'[v] = task[v]
    <2>1. p \in Points
      BY DEF Points, Appending, OwnSession
    <2> QED  BY <1>1, <2>1, GotoMoves, TypesOfTables DEF TrailInv
  <1>4. TypeOK'
    BY <1>2, <1>3 DEF TrailInv, TypeOK, TaskTypes
  <1> QED  BY <1>2, <1>3, <1>4, QuietKeepsTrail DEF Working

LEMMA MarkFailedTrail ==
  ASSUME TrailInv, NEW w \in Workflows, MarkFailed(w)
  PROVE  TrailInv'
  <1>1. /\ task[w].at = "mark" /\ Goto(w, "fail") /\ coded' = coded \cup {w}
        /\ UNCHANGED <<state, events, snapshot, monitor, count>>
    BY DEF MarkFailed
  <1>2. /\ task' \in [Workflows -> TaskTypes] /\ task'[w].seq = 0 /\ task'[w].at = "fail"
        /\ \A v \in Workflows \ {w} : task'[v] = task[v]
    BY <1>1, GotoMoves, TypesOfTables DEF TrailInv, Points, Appending, OwnSession
  <1>3. TypeOK'
    BY <1>1, <1>2 DEF TrailInv, TypeOK, TaskTypes
  <1> QED  BY <1>1, <1>2, <1>3, QuietKeepsTrail DEF Working

LEMMA TaskFaultTrail ==
  ASSUME TrailInv, NEW w \in Workflows, TaskFault(w)
  PROVE  TrailInv'
  <1>1. PICK p \in {"dead", "nodefail", "mark"} : Goto(w, p)
    <2>1. Goto(w, Broken(w)) \/ Goto(w, "mark")
      BY DEF TaskFault
    <2>2. task[w].at \in Appending \cup {"node", "persist", "mark"}
      BY DEF TaskFault
    <2> QED  BY <2>1, <2>2, BrokenIsPoint
  <1>2. /\ task[w].at \in Appending \cup {"node", "persist", "mark"}
        /\ count' = [count EXCEPT !.faults = @ + 1] /\ MoreTroubles
        /\ UNCHANGED <<state, coded, events, snapshot, monitor>>
    BY DEF TaskFault
  <1>3. /\ task' \in [Workflows -> TaskTypes] /\ task'[w].seq = 0 /\ task'[w].at = p
        /\ \A v \in Workflows \ {w} : task'[v] = task[v]
    <2>1. p \in Points
      BY DEF Points, Appending, OwnSession
    <2> QED  BY <1>1, <2>1, GotoMoves, TypesOfTables DEF TrailInv
  <1>4. count' \in [beats : 0..MaxBeats, stalls : 0..MaxTroubles, faults : 0..MaxTroubles]
    BY <1>2, OneMoreFault DEF TrailInv
  <1>5. TypeOK'
    BY <1>2, <1>3, <1>4 DEF TrailInv, TypeOK, TaskTypes
  <1> QED  BY <1>2, <1>3, <1>5, QuietKeepsTrail DEF Working, Appending, MainPoints, OwnSession

LEMMA CrashTrail ==
  ASSUME TrailInv, Crash
  PROVE  TrailInv'
  <1>1. /\ task' = [w \in Workflows |->
                      IF task[w].at \in {"none", "end", "outrun"} THEN task[w]
                      ELSE [task[w] EXCEPT !.at = "dead", !.seq = 0, !.fresh = FALSE]]
        /\ monitor' = [monitor EXCEPT !.todo = {}, !.on = {}, !.seq = 0]
        /\ count' = [count EXCEPT !.faults = @ + 1] /\ MoreTroubles
        /\ UNCHANGED <<state, coded, events, snapshot>>
    BY DEF Crash, NoSeq
  <1>2. task \in [Workflows -> TaskTypes] /\ "dead" \in Points /\ "dead" \notin Working
    BY TypesOfTables DEF TrailInv, Points, Working
  <1>3. ASSUME NEW v \in Workflows
        PROVE  /\ task'[v] \in TaskTypes
               /\ \/ task'[v] = task[v]
                  \/ task'[v].seq = 0 /\ task'[v].at = "dead" /\ task[v].at # "none"
    BY <1>1, <1>2 DEF TaskTypes
  <1>4. task' \in [Workflows -> TaskTypes]
    BY <1>1, <1>3
  <1>5. count' \in [beats : 0..MaxBeats, stalls : 0..MaxTroubles, faults : 0..MaxTroubles]
    BY <1>1, OneMoreFault DEF TrailInv
  <1>6. TypeOK' /\ monitor'.on = {}
    BY <1>1, <1>4, <1>5 DEF TrailInv, TypeOK, TaskTypes
  <1> QED  BY <1>1, <1>2, <1>3, <1>6, QuietKeepsTrail

(* The next node, or the end. *)
LEMMA PersistMoves ==
  ASSUME TrailInv, NEW w \in Workflows, Persist(w)
  PROVE  /\ task[w].at = "persist" /\ task[w].seq = 0 /\ task'[w].seq = 0
         /\ UNCHANGED <<state, coded, events, monitor, count>>
         /\ task' \in [Workflows -> TaskTypes]
         /\ task[w].step < NumSteps =>
              task'[w].at = "step" /\ task'[w].step = task[w].step + 1
         /\ ~(task[w].step < NumSteps) =>
              task'[w].at = "finish" /\ task'[w].step = task[w].step
         /\ \A v \in Workflows \ {w} : task'[v] = task[v]
         /\ snapshot \in Details /\ snapshot' = [snapshot EXCEPT ![task[w].step] = w]
  <1> DEFINE p == IF task[w].step < NumSteps THEN "step" ELSE "finish"
             one == IF task[w].step < NumSteps THEN task[w].step + 1 ELSE task[w].step
  <1>1. /\ task[w].at = "persist" /\ snapshot' = [snapshot EXCEPT ![task[w].step] = w]
        /\ UNCHANGED <<state, coded, events, monitor, count>>
        /\ task' = [task EXCEPT ![w].at = p, ![w].step = one]
    BY DEF Persist, StoreArtifact, WithArtifact
  <1>2. task \in [Workflows -> TaskTypes] /\ task[w] \in TaskTypes
    BY TypesOfTables DEF TrailInv
  <1>3. p \in Points /\ one \in 0..NumSteps
    BY <1>2, RunsAssumption DEF Points, Appending, MainPoints, TaskTypes
  <1>4. task[w].seq = 0
    BY <1>1 DEF TrailInv, TasksRight, Appending, MainPoints, OwnSession, NoSeq
  <1>5. snapshot \in Details
    BY <1>1, TypesOfTables DEF TrailInv, TasksRight, Working
  <1> HIDE DEF p, one
  <1>6. /\ task' \in [Workflows -> TaskTypes]
        /\ task'[w].at = p /\ task'[w].step = one /\ task'[w].seq = task[w].seq
        /\ \A v \in Workflows \ {w} : task'[v] = task[v]
    BY <1>1, <1>2, <1>3 DEF TaskTypes
  <1> QED  BY <1>1, <1>4, <1>5, <1>6 DEF p, one

LEMMA PersistTrail ==
  ASSUME TrailInv, NEW w \in Workflows, Persist(w)
  PROVE  TrailInv'
  <1>1. /\ UNCHANGED <<state, coded, events, monitor, count>>
        /\ task[w].at = "persist" /\ task'[w].seq = 0
        /\ task' \in [Workflows -> TaskTypes]
        /\ \A v \in Workflows \ {w} : task'[v] = task[v]
    BY PersistMoves
  <1>2. snapshot' \in Details /\ snapshot' # NoRow
    BY PersistMoves, RunsAssumption DEF Details
  <1>3. TypeOK'
    BY <1>1, <1>2 DEF TrailInv, TypeOK, TaskTypes
  <1>4. TasksRight'
    BY <1>1, <1>2 DEF TrailInv, TasksRight, NoSeq
  <1>5. \A v \in Workflows : Of(v)' = Of(v) /\ NumberedOf(v)' /\ Cardinality(Of(v)) \in Nat
    BY <1>1, FS_CardinalityType DEF TrailInv, NumberedOf, Of
  <1>6. NumbersRead'
    <2>1. ASSUME NEW v \in Workflows PROVE task'[v].seq <= Cardinality(Of(v)') + 1
      BY <1>1, <1>5, <2>1 DEF TrailInv, NumbersRead
    <2>2. ASSUME NEW v \in monitor'.on PROVE monitor'.seq \in 1..Cardinality(Of(v)') + 1
      BY <1>1, <1>5 DEF TrailInv, NumbersRead, TypeOK
    <2> QED  BY <2>1, <2>2 DEF NumbersRead
  <1> QED  BY <1>3, <1>4, <1>5, <1>6 DEF TrailInv

-----------------------------------------------------------------------------
(* The stall monitor *)
LEMMA LookTrail ==
  ASSUME TrailInv, Scan \/ \E w \in Workflows : Skip(w)
  PROVE  TrailInv'
  <1>1. /\ UNCHANGED <<state, coded, events, snapshot, task, count>>
        /\ monitor'.on = monitor.on /\ monitor'.seq = monitor.seq
        /\ monitor' \in [todo : SUBSET Workflows, on : SUBSET Workflows, seq : Nat]
    BY DEF TrailInv, TypeOK, Scan, Skip
  <1>2. TypeOK'
    BY <1>1 DEF TrailInv, TypeOK
  <1> QED  BY <1>1, <1>2, QuietKeepsTrail

LEMMA ReadStalledTrail ==
  ASSUME TrailInv, NEW w \in Workflows, ReadStalled(w)
  PROVE  TrailInv'
  <1> DEFINE n == Cardinality(Of(w)) + 1
  <1>1. n \in Nat \ {0} /\ NextSeq(w) = n
    BY NextSeqIsNext DEF TrailInv
  <1>2. /\ monitor' = [monitor EXCEPT !.seq = NextSeq(w), !.on = {w}]
        /\ count' = [count EXCEPT !.stalls = @ + 1] /\ MoreTroubles
        /\ UNCHANGED <<state, coded, events, snapshot, task>>
    BY DEF ReadStalled
  <1> HIDE DEF n
  <1>3. /\ monitor' \in [todo : SUBSET Workflows, on : SUBSET Workflows, seq : Nat]
        /\ monitor'.on = {w} /\ monitor'.seq = n
    BY <1>1, <1>2 DEF TrailInv, TypeOK
  <1>4. TypeOK'
    <2>1. count' \in [beats : 0..MaxBeats, stalls : 0..MaxTroubles, faults : 0..MaxTroubles]
      BY <1>2, OneMoreFault DEF TrailInv
    <2> QED  BY <1>2, <1>3, <2>1 DEF TrailInv, TypeOK
  <1>5. TasksRight'
    BY <1>2 DEF TrailInv, TasksRight
  <1>6. \A v \in Workflows : Of(v)' = Of(v) /\ NumberedOf(v)' /\ Cardinality(Of(v)) \in Nat
    BY <1>2, FS_CardinalityType DEF TrailInv, NumberedOf, Of
  <1>7. NumbersRead'
    <2>1. n \in 1..Cardinality(Of(w)) + 1
      BY <1>1, <1>6 DEF n
    <2> QED  BY <1>2, <1>3, <1>6, <2>1 DEF TrailInv, NumbersRead
  <1> QED  BY <1>4, <1>5, <1>6, <1>7 DEF TrailInv

(* The event of the monitor, and the fields that others look at *)
LEMMA StalledAppended ==
  ASSUME TrailInv, NEW w \in Workflows, CommitStalled(w), ~Taken(w, monitor.seq)
  PROVE  \E x \in Event :
           /\ x.workflow = w /\ x.type = "stalled" /\ x.seq = monitor.seq
           /\ events' = events \cup {x}
  <1> DEFINE x == [workflow |-> w, seq |-> monitor.seq, type |-> "stalled",
                   step |-> task[w].step, state |-> "running"]
  <1>1. events' = events \cup {x} /\ w \in monitor.on
    BY DEF CommitStalled
  <1>2. task[w].step \in 0..NumSteps
    BY TypesOfTables DEF TrailInv, TaskTypes
  <1>3. monitor.seq \in Nat \ {0}
    BY <1>1 DEF TrailInv, NumbersRead, NumberedOf, TypeOK
  <1>4. x \in Event
    BY <1>2, <1>3 DEF Event, WorkflowStates
  <1> QED  BY <1>1, <1>4

LEMMA CommitStalledTrail ==
  ASSUME TrailInv, NEW w \in Workflows, CommitStalled(w)
  PROVE  TrailInv'
  <1>1. /\ UNCHANGED <<state, coded, snapshot, task, count>> /\ w \in monitor.on
        /\ monitor'.on = {}
        /\ monitor' \in [todo : SUBSET Workflows, on : SUBSET Workflows, seq : Nat]
    <2>1. monitor \in [todo : SUBSET Workflows, on : SUBSET Workflows, seq : Nat]
      BY DEF TrailInv, TypeOK
    <2>2. PICK todo \in SUBSET Workflows :
            monitor' = [monitor EXCEPT !.seq = 0, !.on = {}, !.todo = todo]
      <3>1. CASE Taken(w, monitor.seq)
        BY <3>1 DEF CommitStalled, NoSeq
      <3>2. CASE ~Taken(w, monitor.seq)
        <4>1. monitor.todo \ {w} \in SUBSET Workflows
          BY <2>1
        <4> QED  BY <3>2, <4>1 DEF CommitStalled, NoSeq
      <3> QED  BY <3>1, <3>2
    <2>3. /\ monitor'.on = {}
          /\ monitor' \in [todo : SUBSET Workflows, on : SUBSET Workflows, seq : Nat]
      BY <2>1, <2>2
    <2> QED  BY <2>3 DEF CommitStalled
  <1>2. CASE Taken(w, monitor.seq)
    <2>1. UNCHANGED events
      BY <1>2 DEF CommitStalled
    <2>2. TypeOK'
      BY <1>1, <2>1 DEF TrailInv, TypeOK
    <2> QED  BY <1>1, <2>1, <2>2, QuietKeepsTrail
  <1>3. CASE ~Taken(w, monitor.seq)
    <2>1. PICK x \in Event : /\ x.workflow = w /\ x.type = "stalled" /\ x.seq = monitor.seq
                             /\ events' = events \cup {x}
      BY <1>3, StalledAppended
    <2>2. /\ events \subseteq Event /\ task \in [Workflows -> TaskTypes]
          /\ \A v \in Workflows : NumberedOf(v) /\ Cardinality(Of(v)) \in Nat
      BY TypesOfTables, FS_CardinalityType DEF TrailInv, NumberedOf
    <2>3. x.seq <= Cardinality(Of(w)) + 1
      BY <1>1, <2>1, <2>2 DEF TrailInv, NumbersRead
    <2>4. /\ Cardinality(Of(w)') = Cardinality(Of(w)) + 1 /\ NumberedOf(w)'
          /\ \A v \in Workflows \ {w} : Of(v)' = Of(v)
      BY <1>3, <2>1, <2>2, <2>3, EventIsNext
    <2>5. TypeOK' /\ TasksRight'
      BY <1>1, <2>1 DEF TrailInv, TypeOK, TasksRight
    <2>6. \A v \in Workflows : NumberedOf(v)'
      BY <2>2, <2>4 DEF NumberedOf
    <2>7. ASSUME NEW v \in Workflows PROVE task'[v].seq <= Cardinality(Of(v)') + 1
      <3>1. task[v].seq \in Nat /\ task[v].seq <= Cardinality(Of(v)) + 1
        BY <2>2 DEF TrailInv, NumbersRead, TaskTypes
      <3> QED  BY <1>1, <2>2, <2>4, <3>1
    <2> QED  BY <1>1, <2>5, <2>6, <2>7 DEF TrailInv, NumbersRead
  <1> QED  BY <1>2, <1>3

-----------------------------------------------------------------------------
LEMMA TrailInit == Init => TrailInv
  <1> SUFFICES ASSUME Init PROVE TrailInv
    OBVIOUS
  <1>1. /\ state = [w \in Workflows |-> "absent"] /\ coded = {} /\ events = {}
        /\ task = [w \in Workflows |-> [at |-> "none", step |-> 0, seq |-> 0, fresh |-> FALSE]]
        /\ monitor = [todo |-> {}, on |-> {}, seq |-> 0]
        /\ count = [beats |-> 0, stalls |-> 0, faults |-> 0]
    BY DEF Init, Idle, NoSeq
  <1>2. snapshot \in Details \cup {NoRow}
    BY DEF Init, NoDetails, Details
  <1>3. TypeOK
    BY <1>1, <1>2, RunsAssumption DEF TypeOK, Points
  <1>4. TasksRight
    BY <1>1 DEF TasksRight, NoSeq, Working
  <1>5. \A w \in Workflows : Of(w) = {} /\ NumberedOf(w) /\ Cardinality(Of(w)) = 0
    BY <1>1, FS_EmptySet DEF Of, NumberedOf
  <1>6. NumbersRead
    BY <1>1, <1>5 DEF NumbersRead
  <1> QED  BY <1>3, <1>4, <1>5, <1>6 DEF TrailInv

LEMMA TrailStep == TrailInv /\ [Next]_vars => TrailInv'
  <1> SUFFICES ASSUME TrailInv, [Next]_vars PROVE TrailInv'
    OBVIOUS
  <1>1. CASE \E w \in Workflows : StartWorkflow(w)
    BY <1>1, StartWorkflowTrail
  <1>2. CASE \E w \in Workflows : ReadSeq(w)
    BY <1>2, ReadSeqTrail
  <1>3. CASE \E w \in Workflows : CommitEvent(w)
    BY <1>3, CommitEventTrail
  <1>4. CASE \E w \in Workflows : EventRefused(w)
    BY <1>4, EventRefusedTrail
  <1>5. CASE \E w \in Workflows : NodeEnds(w) \/ Persist(w) \/ MarkFailed(w)
    BY <1>5, NodeEndsTrail, PersistTrail, MarkFailedTrail
  <1>6. CASE \E w \in Workflows : Heartbeat(w) \/ TaskFault(w)
    BY <1>6, HeartbeatTrail, TaskFaultTrail
  <1>7. CASE Scan \/ \E w \in Workflows : Skip(w)
    BY <1>7, LookTrail
  <1>8. CASE \E w \in Workflows : ReadStalled(w) \/ CommitStalled(w)
    BY <1>8, ReadStalledTrail, CommitStalledTrail
  <1>9. CASE Crash
    BY <1>9, CrashTrail
  <1>10. CASE UNCHANGED vars
    <2>1. TypeOK'
      BY <1>10 DEF vars, TrailInv, TypeOK
    <2> QED  BY <1>10, <2>1, QuietKeepsTrail DEF vars
  <1> QED  BY <1>1, <1>2, <1>3, <1>4, <1>5, <1>6, <1>7, <1>8, <1>9, <1>10
           DEF Next, Run, Monitor

(* Tables, tasks and monitor stay well-typed. *)
THEOREM RunsTypes == Spec => []TypeOK
  <1>1. TrailInv => TypeOK
    BY DEF TrailInv
  <1> QED  BY <1>1, TrailInit, TrailStep, PTL DEF Spec

(* The events of each workflow are numbered without a gap or a repetition, for
   any number of tasks and of stall events that count them independently. *)
THEOREM TrailIsNumbered == Spec => []EventsNumbered
  <1>1. TrailInv => EventsNumbered
    BY DEF TrailInv, NumberedOf, EventsNumbered
  <1> QED  BY <1>1, TrailInit, TrailStep, PTL DEF Spec

-----------------------------------------------------------------------------
(* A step of a task, or of all of them in a crash, that appends nothing gives
   up what was read. *)
Moves(w, p) ==
  /\ Goto(w, p) /\ UNCHANGED <<state, events, snapshot>>
  /\ p \in {"beat", "succeeded"} => task[w].at = "node"

LEMMA StillMoves ==
  ASSUME TrailInv, NEW w \in Workflows,
         EventRefused(w) \/ Heartbeat(w) \/ NodeEnds(w) \/ MarkFailed(w) \/ TaskFault(w)
  PROVE  \E p \in {"outrun", "dead", "nodefail", "mark", "beat", "succeeded", "fail"} : Moves(w, p)
  <1>1. CASE EventRefused(w)
    BY <1>1, BrokenIsPoint DEF EventRefused, Moves
  <1>2. CASE Heartbeat(w)
    BY <1>2 DEF Heartbeat, Moves
  <1>3. CASE NodeEnds(w)
    BY <1>3 DEF NodeEnds, Moves
  <1>4. CASE MarkFailed(w)
    BY <1>4 DEF MarkFailed, Moves
  <1>5. CASE TaskFault(w)
    <2>1. task[w].at \in Appending \cup {"node", "persist", "mark"}
      BY <1>5 DEF TaskFault
    <2>2. Goto(w, Broken(w)) \/ Goto(w, "mark")
      BY <1>5 DEF TaskFault
    <2> QED  BY <1>5, <2>1, <2>2, BrokenIsPoint DEF TaskFault, Moves
  <1> QED  BY <1>1, <1>2, <1>3, <1>4, <1>5

LEMMA MovedTask ==
  ASSUME TrailInv, NEW w \in Workflows,
         NEW p \in {"outrun", "dead", "nodefail", "mark", "beat", "succeeded", "fail"},
         Moves(w, p)
  PROVE  /\ task'[w].at = p /\ task'[w].step = task[w].step /\ task'[w].seq = 0
         /\ \A v \in Workflows \ {w} : task'[v] = task[v]
         /\ UNCHANGED <<state, events, snapshot>>
  <1>1. p \in Points
    BY DEF Points, Appending, OwnSession
  <1> QED  BY <1>1, GotoMoves, TypesOfTables DEF Moves, TrailInv

LEMMA CrashStops ==
  ASSUME TrailInv, Crash, NEW v \in Workflows
  PROVE  /\ \/ task'[v] = task[v]
            \/ task'[v].at = "dead" /\ task'[v].seq = 0 /\ task'[v].step = task[v].step
         /\ UNCHANGED <<state, events, snapshot>>
  <1>1. task[v] \in TaskTypes
    BY TypesOfTables DEF TrailInv
  <1> QED  BY <1>1 DEF Crash, TaskTypes, NoSeq

-----------------------------------------------------------------------------
(* Each operation keeps the state in agreement with the trail. *)
LEMMA QuietKeepsState ==
  ASSUME StateInv, UNCHANGED <<state, events>>,
         \A v \in Workflows : task'[v] = task[v] \/ task'[v].seq = 0
  PROVE  StateInv'
  BY DEF StateInv, StateIsLastTransition, Of, NoSeq

LEMMA StartWorkflowState ==
  ASSUME TrailInv, StateInv, NEW w \in Workflows, StartWorkflow(w)
  PROVE  StateInv'
  <1>1. /\ task'[w].seq = 0 /\ \A v \in Workflows \ {w} : task'[v] = task[v]
    <2>1. "queued" \in Points
      BY DEF Points, Appending, MainPoints
    <2> QED  BY <2>1, GotoMoves, TypesOfTables DEF TrailInv, StartWorkflow
  <1>2. /\ state[w] = "absent" /\ state' = [state EXCEPT ![w] = "queued"] /\ events' = events
        /\ state \in [Workflows -> {"absent"} \cup WorkflowStates]
    BY DEF StartWorkflow, TrailInv, TypeOK
  <1>3. \A e \in events : e.type \in Transitions => e.workflow \in Workflows /\ e.workflow # w
    BY <1>2 DEF StateInv, TrailInv, TypeOK, Event
  <1>4. ASSUME NEW v \in Workflows, task'[v].seq # NoSeq, task'[v].at \in Transitions
        PROVE  state'[v] \in WorkflowStates /\ NewState(task'[v].at) \in Allowed[state'[v]]
    BY <1>1, <1>2, <1>4 DEF StateInv, NoSeq
  <1>5. \A e \in events' : e.type \in Transitions => state'[e.workflow] = state[e.workflow]
    BY <1>2, <1>3
  <1>6. StateIsLastTransition'
    BY <1>2, <1>5 DEF StateInv, StateIsLastTransition, Of
  <1> QED  BY <1>2, <1>4, <1>5, <1>6 DEF StateInv

LEMMA ReadSeqState ==
  ASSUME TrailInv, StateInv, NEW w \in Workflows, ReadSeq(w)
  PROVE  StateInv'
  <1>1. /\ task'[w].at = task[w].at /\ \A v \in Workflows \ {w} : task'[v] = task[v]
        /\ UNCHANGED <<state, events>>
    BY TypesOfTables DEF ReadSeq, TrailInv, TaskTypes
  <1>2. task[w].at \in Transitions => NewState(task[w].at) \in Allowed[state[w]]
    BY DEF ReadSeq
  <1>3. task[w].at \in Appending => state[w] \in WorkflowStates
    BY DEF TrailInv, TypeOK, TasksRight, Appending, MainPoints, OwnSession
  <1>4. task[w].at \in Appending
    BY DEF ReadSeq
  <1>5. ASSUME NEW v \in Workflows, task'[v].seq # NoSeq, task'[v].at \in Transitions
        PROVE  state'[v] \in WorkflowStates /\ NewState(task'[v].at) \in Allowed[state'[v]]
    BY <1>1, <1>2, <1>3, <1>4, <1>5 DEF StateInv
  <1>6. StateIsLastTransition'
    BY <1>1 DEF StateInv, StateIsLastTransition, Of
  <1> QED  BY <1>1, <1>5, <1>6 DEF StateInv

LEMMA CommitEventState ==
  ASSUME TrailInv, StateInv, NEW w \in Workflows, CommitEvent(w)
  PROVE  StateInv'
  <1>1. PICK x \in Event : Appended(w, x)
    BY EventAppended
  <1>2. /\ x.workflow = w /\ x.seq <= Cardinality(Of(w)) + 1 /\ ~Taken(w, x.seq)
        /\ events' = events \cup {x} /\ state' = [state EXCEPT ![w] = x.state]
        /\ task[w].at \notin Transitions => x.type \notin Transitions /\ x.state = state[w]
    BY <1>1 DEF Appended, CommitEvent, Refused, TrailInv, NumbersRead
  <1>3. /\ events \subseteq Event /\ NumberedOf(w) /\ task' = [task EXCEPT ![w] = After(w)]
        /\ task \in [Workflows -> TaskTypes] /\ task[w].at \in Appending
        /\ state \in [Workflows -> {"absent"} \cup WorkflowStates]
    BY TypesOfTables DEF TrailInv, TypeOK, CommitEvent
  <1>4. /\ Of(w)' = Of(w) \cup {x} /\ \A e \in Of(w) : e.seq < x.seq
        /\ \A v \in Workflows \ {w} : Of(v)' = Of(v)
    BY <1>2, <1>3, EventIsNext
  <1>5. task'[w].seq = 0 /\ \A v \in Workflows \ {w} : task'[v] = task[v]
    BY <1>3, AfterMoves
  <1>6. /\ state'[w] = x.state /\ x.state # "absent"
        /\ \A v \in Workflows \ {w} : state'[v] = state[v]
    BY <1>2, <1>3 DEF Event, WorkflowStates, Terminal
  <1>7. ASSUME NEW v \in Workflows, task'[v].seq # NoSeq, task'[v].at \in Transitions
        PROVE  state'[v] \in WorkflowStates /\ NewState(task'[v].at) \in Allowed[state'[v]]
    BY <1>5, <1>6, <1>7 DEF StateInv, NoSeq
  <1>8. \A e \in events' : e.type \in Transitions => state'[e.workflow] # "absent"
    BY <1>2, <1>3, <1>6 DEF StateInv, Event
  <1>9. ASSUME NEW e \in events', e.type \in Transitions, state'[e.workflow] # e.state
        PROVE  \E f \in Of(e.workflow)' : f.type \in Transitions /\ f.seq > e.seq
    <2>1. e \in events /\ e.workflow \in Workflows
      BY <1>2, <1>3, <1>6, <1>9 DEF Event
    <2>2. CASE e.workflow # w
      <3>1. state[e.workflow] # e.state
        BY <1>6, <1>9, <2>1, <2>2
      <3>2. PICK f \in Of(e.workflow) : f.type \in Transitions /\ f.seq > e.seq
        BY <1>9, <2>1, <3>1 DEF StateInv, StateIsLastTransition
      <3> QED  BY <1>4, <2>1, <2>2, <3>2
    <2>3. CASE e.workflow = w /\ task[w].at \in Transitions
      <3>1. e \in Of(w) /\ x.type \in Transitions
        BY <1>1, <2>1, <2>3 DEF Of, Appended
      <3>2. x.seq > e.seq
        <4>1. x.seq \in Nat /\ e.seq \in Nat /\ e.seq < x.seq
          BY <1>3, <1>4, <2>1, <3>1 DEF Event
        <4> QED  BY <4>1
      <3> QED  BY <1>4, <2>3, <3>1, <3>2
    <2>4. CASE e.workflow = w /\ task[w].at \notin Transitions
      <3>1. state[w] # e.state
        BY <1>2, <1>6, <1>9, <2>4
      <3>2. PICK f \in Of(w) : f.type \in Transitions /\ f.seq > e.seq
        BY <1>9, <2>1, <2>4, <3>1 DEF StateInv, StateIsLastTransition
      <3> QED  BY <1>4, <2>4, <3>2
    <2> QED  BY <2>2, <2>3, <2>4
  <1> QED  BY <1>7, <1>8, <1>9 DEF StateInv, StateIsLastTransition

LEMMA CommitStalledState ==
  ASSUME TrailInv, StateInv, NEW w \in Workflows, CommitStalled(w)
  PROVE  StateInv'
  <1>1. UNCHANGED <<state, task>>
    BY DEF CommitStalled
  <1>2. CASE Taken(w, monitor.seq)
    BY <1>1, <1>2, QuietKeepsState DEF CommitStalled
  <1>3. CASE ~Taken(w, monitor.seq)
    <2>1. PICK x \in Event : /\ x.workflow = w /\ x.type = "stalled"
                             /\ events' = events \cup {x}
      BY <1>3, StalledAppended
    <2>2. x.type \notin Transitions
      BY <2>1 DEF Transitions, MainPoints
    <2>3. /\ \A v \in Workflows : task'[v] = task[v] /\ state'[v] = state[v]
          /\ \A e \in events' : e.type \in Transitions => e \in events
      BY <1>1, <2>1, <2>2
    <2>4. \A v : Of(v) \subseteq Of(v)'
      BY <2>1 DEF Of
    <2>5. StateIsLastTransition'
      BY <1>1, <2>3, <2>4 DEF StateInv, StateIsLastTransition
    <2> QED  BY <1>1, <2>3, <2>5 DEF StateInv
  <1> QED  BY <1>2, <1>3

LEMMA StateStep == TrailInv /\ StateInv /\ [Next]_vars => StateInv'
  <1> SUFFICES ASSUME TrailInv, StateInv, [Next]_vars PROVE StateInv'
    OBVIOUS
  <1>1. CASE \E w \in Workflows : StartWorkflow(w)
    BY <1>1, StartWorkflowState
  <1>2. CASE \E w \in Workflows : ReadSeq(w)
    BY <1>2, ReadSeqState
  <1>3. CASE \E w \in Workflows : CommitEvent(w)
    BY <1>3, CommitEventState
  <1>4. CASE \E w \in Workflows : EventRefused(w) \/ Heartbeat(w) \/ NodeEnds(w)
                                  \/ MarkFailed(w) \/ TaskFault(w)
    <2>1. PICK w \in Workflows : \E p \in {"outrun", "dead", "nodefail", "mark", "beat",
                                          "succeeded", "fail"} : Moves(w, p)
      BY <1>4, StillMoves
    <2> QED  BY <2>1, MovedTask, QuietKeepsState
  <1>5. CASE \E w \in Workflows : Persist(w)
    BY <1>5, PersistMoves, QuietKeepsState
  <1>6. CASE Scan \/ \E w \in Workflows : Skip(w) \/ ReadStalled(w)
    BY <1>6, QuietKeepsState DEF Scan, Skip, ReadStalled
  <1>7. CASE \E w \in Workflows : CommitStalled(w)
    BY <1>7, CommitStalledState
  <1>8. CASE Crash
    <2>1. UNCHANGED <<state, events>>
      BY <1>8 DEF Crash
    <2> QED  BY <1>8, <2>1, CrashStops, QuietKeepsState
  <1>9. CASE UNCHANGED vars
    BY <1>9, QuietKeepsState DEF vars
  <1> QED  BY <1>1, <1>2, <1>3, <1>4, <1>5, <1>6, <1>7, <1>8, <1>9 DEF Next, Run, Monitor

LEMMA StateInit == Init => StateInv
  BY DEF Init, Idle, StateInv, StateIsLastTransition, NoSeq

-----------------------------------------------------------------------------
(* A workflow that has ended has no task that could still set its error code. *)
Gone == {"end", "dead", "outrun"}

CodeInv ==
  /\ CodeTellsFailure
  /\ \A w \in Workflows : state[w] \in Terminal => task[w].at \in Gone

LEMMA QuietKeepsCode ==
  ASSUME CodeInv, UNCHANGED state,
         \A v \in Workflows : task[v].at \in Gone =>
           task'[v].at \in Gone /\ (v \in coded' <=> v \in coded)
  PROVE  CodeInv'
  BY DEF CodeInv, CodeTellsFailure

LEMMA StartWorkflowCode ==
  ASSUME TrailInv, CodeInv, NEW w \in Workflows, StartWorkflow(w)
  PROVE  CodeInv'
  <1>1. /\ state' = [state EXCEPT ![w] = "queued"] /\ UNCHANGED coded
        /\ state \in [Workflows -> {"absent"} \cup WorkflowStates]
    BY DEF StartWorkflow, TrailInv, TypeOK
  <1>2. \A v \in Workflows \ {w} : task'[v] = task[v]
    BY DEF StartWorkflow, Goto, TrailInv, TypeOK
  <1>3. "queued" \notin Terminal
    BY DEF Terminal
  <1> QED  BY <1>1, <1>2, <1>3 DEF CodeInv, CodeTellsFailure

LEMMA CommitEventCode ==
  ASSUME TrailInv, CodeInv, NEW w \in Workflows, CommitEvent(w)
  PROVE  CodeInv'
  <1> DEFINE at == task[w].at
             result == IF at \in Transitions THEN NewState(at) ELSE state[w]
  <1>1. /\ at \in Appending /\ task' = [task EXCEPT ![w] = After(w)]
        /\ state' = [state EXCEPT ![w] = result]
        /\ state \in [Workflows -> {"absent"} \cup WorkflowStates]
        /\ task \in [Workflows -> TaskTypes]
    BY TypesOfTables DEF CommitEvent, TrailInv, TypeOK
  <1>2. state[w] \notin Terminal
    BY <1>1 DEF CodeInv, Gone, Appending, MainPoints, OwnSession
  <1>3. /\ at = "finish" => result = "completed" /\ coded' = coded \ {w}
        /\ at = "fail" => result = "failed" /\ coded' = coded \cup {w}
        /\ at \notin {"finish", "fail"} => result \notin Terminal /\ coded' = coded
    BY <1>1, <1>2 DEF CommitEvent, NewState, Transitions, MainPoints, Terminal
  <1>4. at \in {"finish", "fail"} => task'[w].at = "end"
    BY <1>1 DEF After, TaskTypes
  <1>5. /\ state'[w] = result
        /\ \A v \in Workflows \ {w} : state'[v] = state[v] /\ task'[v] = task[v]
    BY <1>1
  <1>6. state'[w] \in Terminal =>
          task'[w].at \in Gone /\ (w \in coded' <=> state'[w] = "failed")
    BY <1>3, <1>4, <1>5 DEF Gone
  <1>7. \A v \in Workflows \ {w} : v \in coded' <=> v \in coded
    BY <1>3
  <1> QED  BY <1>5, <1>6, <1>7 DEF CodeInv, CodeTellsFailure

(* A task that only moves is not gone; marking a failure is such a move. *)
LEMMA MovesKeepCode ==
  ASSUME TrailInv, CodeInv, NEW w \in Workflows,
         \/ EventRefused(w) \/ Heartbeat(w) \/ NodeEnds(w) \/ MarkFailed(w) \/ TaskFault(w)
         \/ Persist(w) \/ ReadSeq(w)
  PROVE  CodeInv'
  <1>1. /\ UNCHANGED state /\ task[w].at \notin Gone
        /\ UNCHANGED coded \/ coded' = coded \cup {w}
    BY DEF EventRefused, Heartbeat, NodeEnds, MarkFailed, TaskFault, Persist, ReadSeq, Gone,
           Appending, MainPoints, OwnSession
  <1>2. \A v \in Workflows \ {w} : task'[v] = task[v]
    BY DEF EventRefused, Heartbeat, NodeEnds, MarkFailed, TaskFault, Persist, ReadSeq, Goto,
           TrailInv, TypeOK
  <1> QED  BY <1>1, <1>2, QuietKeepsCode

LEMMA CodeStep == TrailInv /\ CodeInv /\ [Next]_vars => CodeInv'
  <1> SUFFICES ASSUME TrailInv, CodeInv, [Next]_vars PROVE CodeInv'
    OBVIOUS
  <1>1. CASE \E w \in Workflows : StartWorkflow(w)
    BY <1>1, StartWorkflowCode
  <1>2. CASE \E w \in Workflows : CommitEvent(w)
    BY <1>2, CommitEventCode
  <1>3. CASE \E w \in Workflows :
               \/ EventRefused(w) \/ Heartbeat(w) \/ NodeEnds(w) \/ MarkFailed(w)
               \/ TaskFault(w) \/ Persist(w) \/ ReadSeq(w)
    BY <1>3, MovesKeepCode
  <1>4. CASE UNCHANGED <<state, coded, task>>
    BY <1>4, QuietKeepsCode
  <1>5. CASE Crash
    <2>1. UNCHANGED <<state, coded>>
      BY <1>5 DEF Crash
    <2>2. \A v \in Workflows : task[v].at \in Gone => task'[v].at \in Gone
      BY <1>5, CrashStops DEF Gone
    <2> QED  BY <2>1, <2>2, QuietKeepsCode
  <1>6. CASE Scan \/ (\E w \in Workflows : Monitor(w)) \/ UNCHANGED vars
    BY <1>4, <1>6 DEF Scan, Monitor, Skip, ReadStalled, CommitStalled, vars
  <1> QED  BY <1>1, <1>2, <1>3, <1>5, <1>6 DEF Next, Run

LEMMA CodeInit == Init => CodeInv
  BY DEF Init, CodeInv, CodeTellsFailure, Terminal

(* Row and trail agree, however many tasks and stall events write the trail. *)
THEOREM RowIsAsTrail == Spec => []RowAgreesWithTrail
  <1>1. StateInv /\ CodeInv => RowAgreesWithTrail
    BY DEF StateInv, CodeInv, RowAgreesWithTrail
  <1> QED  BY <1>1, TrailInit, TrailStep, StateInit, StateStep, CodeInit, CodeStep, PTL DEF Spec

(* A step that changes the state of a workflow is the COMMIT of a transition
   that was allowed, and none is allowed from the end of a workflow. *)
LEMMA EndedStays ==
  ASSUME TrailInv, StateInv, [Next]_vars, NEW w \in Workflows, state[w] \in Terminal
  PROVE  state'[w] = state[w]
  <1>1. Allowed[state[w]] = {} /\ state[w] # "absent"
    BY DEF Allowed, Terminal, WorkflowStates
  <1>2. CASE \E v \in Workflows : StartWorkflow(v)
    BY <1>1, <1>2 DEF StartWorkflow, TrailInv, TypeOK
  <1>3. CASE \E v \in Workflows : CommitEvent(v)
    <2>1. PICK v \in Workflows : CommitEvent(v)
      BY <1>3
    <2>2. PICK x \in Event : Appended(v, x)
      BY <2>1, EventAppended
    <2>3. v = w => task[w].at \notin Transitions
      BY <1>1, <2>1 DEF CommitEvent, StateInv
    <2>4. v = w => x.state = state[w]
      BY <2>2, <2>3 DEF Appended
    <2> QED  BY <2>2, <2>4 DEF Appended, TrailInv, TypeOK
  <1>4. CASE UNCHANGED state
    BY <1>4
  <1>5. (\E v \in Workflows : StartWorkflow(v) \/ CommitEvent(v)) \/ UNCHANGED state
    BY DEF Next, Run, Monitor, ReadSeq, EventRefused, NodeEnds, Persist, MarkFailed, Heartbeat,
           TaskFault, Skip, ReadStalled, CommitStalled, Scan, Crash, vars
  <1> QED  BY <1>2, <1>3, <1>4, <1>5

(* Nothing that happens later, a late answer, a stall event or another crash,
   changes a workflow that has completed or failed. *)
THEOREM EndIsFinal == Spec => TerminalIsFinal
  <1>1. TrailInv /\ StateInv /\ [Next]_vars =>
          [\A w \in Workflows : state[w] \in Terminal => state'[w] = state[w]]_vars
    BY EndedStays
  <1> QED  BY <1>1, TrailInit, TrailStep, StateInit, StateStep, PTL DEF Spec, TerminalIsFinal

-----------------------------------------------------------------------------
(* Each operation keeps the progress. *)
LEMMA QuietKeepsProgress ==
  ASSUME TrailInv, ProgressInv, UNCHANGED <<events, snapshot>>,
         \A v \in Workflows :
           \/ task'[v].at = task[v].at /\ task'[v].step = task[v].step
           \/ /\ task'[v].step = task[v].step
              /\ task'[v].at \notin {"persist", "finish", "node", "none"}
              /\ task'[v].at = "queued" => task[v].at = "none"
              /\ task'[v].at \in {"beat", "succeeded"} => task[v].at = "node"
  PROVE  ProgressInv'
  <1>1. ASSUME NEW w \in Workflows PROVE ProgressOf(w)'
    BY DEF ProgressInv, ProgressOf, NodeDone, Finished, Of
  <1>2. ASSUME NEW w \in Workflows PROVE RefreshedBy(w)'
    BY DEF ProgressInv, RefreshedBy, Finished, Of
  <1>3. CompletedAfterAllNodes'
    BY DEF ProgressInv, CompletedAfterAllNodes, Of
  <1> QED  BY <1>1, <1>2, <1>3 DEF ProgressInv

LEMMA PersistProgress ==
  ASSUME TrailInv, ProgressInv, NEW w \in Workflows, Persist(w)
  PROVE  ProgressInv'
  <1>1. /\ task[w].at = "persist" /\ UNCHANGED events
        /\ task[w].step < NumSteps =>
              task'[w].at = "step" /\ task'[w].step = task[w].step + 1
        /\ ~(task[w].step < NumSteps) =>
              task'[w].at = "finish" /\ task'[w].step = task[w].step
        /\ \A v \in Workflows \ {w} : task'[v] = task[v]
        /\ snapshot \in Details /\ snapshot' = [snapshot EXCEPT ![task[w].step] = w]
    BY PersistMoves
  <1>2. task[w].step \in 0..NumSteps /\ NumSteps \in Nat \ {0}
    BY TypesOfTables, RunsAssumption DEF TrailInv, TaskTypes
  <1>3. /\ snapshot' \in Details
        /\ \A s \in 1..NumSteps : s = task[w].step \/ snapshot[s] \in Workflows =>
              snapshot'[s] \in Workflows
    BY <1>1 DEF Details
  <1>4. \A v \in Workflows, s \in Nat : (NodeDone(v, s)' <=> NodeDone(v, s)) /\ Of(v)' = Of(v)
    BY <1>1 DEF NodeDone, Of
  <1>5. \A v \in Workflows : Finished(v)' = Finished(v)
    BY <1>4 DEF Finished
  <1>6. ASSUME NEW v \in Workflows PROVE ProgressOf(v)'
    <2>1. CASE v # w
      BY <1>1, <1>4, <1>5, <2>1 DEF ProgressInv, ProgressOf, NodeDone
    <2>2. CASE v = w /\ task[w].step < NumSteps
      <3>1. \A e \in Of(w)' : e.type # "stalled" => e.step <= task'[w].step
        <4>1. \A e \in Of(w) : e.step \in 0..NumSteps
          BY DEF TrailInv, TypeOK, Of, Event
        <4> QED  BY <1>1, <1>2, <1>4, <2>2, <4>1 DEF ProgressInv, ProgressOf
      <3>2. \A s \in 1..NumSteps : s < task'[w].step => NodeDone(w, s)'
        <4> SUFFICES ASSUME NEW s \in 1..NumSteps, s < task'[w].step PROVE NodeDone(w, s)
          BY <1>4
        <4>1. s < task[w].step \/ s = task[w].step
          BY <1>1, <1>2, <2>2
        <4> QED  BY <1>1, <4>1 DEF ProgressInv, ProgressOf
      <3>3. ~Finished(w)
        BY <1>2, <2>2 DEF ProgressInv, ProgressOf
      <3> QED  BY <1>1, <1>5, <2>2, <3>1, <3>2, <3>3 DEF ProgressOf
    <2>3. CASE v = w /\ ~(task[w].step < NumSteps)
      <3>1. task'[w].step = NumSteps /\ task'[w].step = task[w].step /\ task'[w].at = "finish"
        BY <1>1, <1>2, <2>3
      <3>2. \A e \in Of(w)' : e.type # "stalled" => e.step <= task'[w].step
        BY <1>4, <3>1 DEF ProgressInv, ProgressOf
      <3>3. \A s \in 1..NumSteps : s < task[w].step \/ s = task[w].step => NodeDone(w, s)'
        BY <1>1, <1>4 DEF ProgressInv, ProgressOf
      <3> QED  BY <2>3, <3>1, <3>2, <3>3 DEF ProgressOf
    <2> QED  BY <2>1, <2>2, <2>3
  <1>7. ASSUME NEW v \in Workflows PROVE RefreshedBy(v)'
    <2> SUFFICES ASSUME NEW s \in 1..NumSteps,
                        s < task'[v].step \/ task'[v].at = "finish" \/ Finished(v)'
                 PROVE  snapshot'[s] \in Workflows
      BY <1>3 DEF RefreshedBy
    <2>1. CASE s = task[w].step
      BY <1>3, <2>1
    <2>2. CASE s # task[w].step
      <3>1. s < task[v].step \/ task[v].at = "finish" \/ Finished(v)
        BY <1>1, <1>2, <1>5, <2>2
      <3> QED  BY <1>3, <3>1 DEF ProgressInv, RefreshedBy
    <2> QED  BY <2>1, <2>2
  <1>8. CompletedAfterAllNodes'
    BY <1>1 DEF ProgressInv, CompletedAfterAllNodes, Of
  <1> QED  BY <1>6, <1>7, <1>8 DEF ProgressInv

(* A later event of the same node, or of one after it, changes nothing. *)
LEMMA NodeStaysDone ==
  ASSUME NEW w \in Workflows, NEW s \in Nat, NodeDone(w, s), NEW x, Of(w)' = Of(w) \cup {x},
         \A e \in Of(w) : e.seq < x.seq, x.type = "stalled" \/ x.step >= s
  PROVE  NodeDone(w, s)'
  BY DEF NodeDone

LEMMA CommitStalledProgress ==
  ASSUME TrailInv, ProgressInv, NEW w \in Workflows, CommitStalled(w)
  PROVE  ProgressInv'
  <1>1. UNCHANGED <<state, task, snapshot>> /\ w \in monitor.on
    BY DEF CommitStalled
  <1>2. CASE Taken(w, monitor.seq)
    BY <1>1, <1>2, QuietKeepsProgress DEF CommitStalled
  <1>3. CASE ~Taken(w, monitor.seq)
    <2>1. PICK x \in Event : /\ x.workflow = w /\ x.type = "stalled" /\ x.seq = monitor.seq
                             /\ events' = events \cup {x}
      BY <1>3, StalledAppended
    <2>2. /\ Of(w)' = Of(w) \cup {x} /\ \A e \in Of(w) : e.seq < x.seq
          /\ \A v \in Workflows \ {w} : Of(v)' = Of(v)
      <3>1. events \subseteq Event /\ NumberedOf(w) /\ Cardinality(Of(w)) \in Nat
        BY FS_CardinalityType DEF TrailInv, TypeOK, NumberedOf
      <3>2. x.seq <= Cardinality(Of(w)) + 1
        BY <1>1, <2>1, <3>1 DEF TrailInv, NumbersRead
      <3> QED  BY <1>3, <2>1, <3>1, <3>2, EventIsNext
    <2>3. ASSUME NEW v \in Workflows, NEW s \in Nat, NodeDone(v, s) PROVE NodeDone(v, s)'
      BY <2>1, <2>2, <2>3, NodeStaysDone DEF NodeDone
    <2>4. \A v \in Workflows : Finished(v)' = Finished(v)
      BY <2>1, <2>2 DEF Finished
    <2>5. ASSUME NEW v \in Workflows PROVE ProgressOf(v)'
      <3>1. task[v].step \in Nat
        BY TypesOfTables DEF TrailInv, TaskTypes
      <3>2. task'[v] = task[v]
        BY <1>1
      <3>3. \A e \in Of(v)' : e.type # "stalled" => e \in Of(v)
        BY <2>1, <2>2
      <3>4. Of(v) \subseteq Of(v)'
        BY <2>2
      <3>5. ProgressOf(v)
        BY DEF ProgressInv
      <3>6. \A s \in 1..NumSteps : NodeDone(v, s) => NodeDone(v, s)'
        BY <2>3, RunsAssumption
      <3> QED  BY <2>4, <3>2, <3>3, <3>4, <3>5, <3>6 DEF ProgressOf
    <2>6. ASSUME NEW v \in Workflows PROVE RefreshedBy(v)'
      BY <1>1, <2>4 DEF ProgressInv, RefreshedBy
    <2>7. CompletedAfterAllNodes'
      <3> SUFFICES ASSUME NEW c \in events', c.type = "finish", NEW s \in 1..NumSteps
                   PROVE  \E a, b \in Of(c.workflow)' :
                            /\ a.type = "started" /\ b.type = "succeeded"
                            /\ a.step = s /\ b.step = s
                            /\ a.seq < b.seq /\ b.seq < c.seq
                            /\ \A e \in Of(c.workflow)' :
                                 e.seq > b.seq /\ e.type # "stalled" => e.step >= s
        BY DEF CompletedAfterAllNodes
      <3>1. c \in events /\ c.workflow \in Workflows
        BY <2>1 DEF TrailInv, TypeOK, Event
      <3>2. PICK a, b \in Of(c.workflow) :
              /\ a.type = "started" /\ b.type = "succeeded" /\ a.step = s /\ b.step = s
              /\ a.seq < b.seq /\ b.seq < c.seq
              /\ \A e \in Of(c.workflow) : e.seq > b.seq /\ e.type # "stalled" => e.step >= s
        BY <3>1 DEF ProgressInv, CompletedAfterAllNodes
      <3>3. /\ Of(c.workflow) \subseteq Of(c.workflow)'
            /\ \A e \in Of(c.workflow)' : e.type # "stalled" => e \in Of(c.workflow)
        BY <2>1, <2>2, <3>1
      <3> QED  BY <3>2, <3>3
    <2> QED  BY <2>5, <2>6, <2>7 DEF ProgressInv
  <1> QED  BY <1>2, <1>3

(* The event of a node belongs to it; that of a success ends it. *)
LEMMA CommitEventProgress ==
  ASSUME TrailInv, ProgressInv, NEW w \in Workflows, CommitEvent(w)
  PROVE  ProgressInv'
  <1>1. PICK x \in Event : Appended(w, x)
    BY EventAppended
  <1>2. /\ x.workflow = w /\ x.type = task[w].at /\ x.step = task[w].step
        /\ x.seq <= Cardinality(Of(w)) + 1 /\ ~Taken(w, x.seq)
        /\ events' = events \cup {x} /\ x.type # "stalled"
    BY <1>1 DEF Appended, CommitEvent, Refused, TrailInv, NumbersRead, Appending, MainPoints, OwnSession
  <1>3. /\ events \subseteq Event /\ NumberedOf(w) /\ task' = [task EXCEPT ![w] = After(w)]
        /\ task \in [Workflows -> TaskTypes]
        /\ task[w].at \in {"queued", "step", "started", "beat", "succeeded", "nodefail",
                           "finish", "fail"}
    BY TypesOfTables DEF TrailInv, CommitEvent, Appending, MainPoints, OwnSession
  <1>4. /\ Of(w)' = Of(w) \cup {x} /\ \A e \in Of(w) : e.seq < x.seq
        /\ \A v \in Workflows \ {w} : Of(v)' = Of(v)
    BY <1>2, <1>3, EventIsNext
  <1> DEFINE at == task[w].at
             step == task[w].step
  <1>5. at \in Appending
    BY DEF CommitEvent
  <1>6. /\ \A v \in Workflows \ {w} : task'[v] = task[v]
        /\ task'[w].step = IF at = "queued" THEN 1 ELSE step
        /\ task'[w].at \notin {"none", "queued", "finish", "beat", "succeeded"}
        /\ task'[w].at = "persist" => at = "succeeded"
        /\ task'[w].at = "node" => at \in {"started", "beat"}
    <2>1. task'[w].at = CASE at = "queued" -> "step"
                          [] at = "step" -> "started"
                          [] at \in {"started", "beat"} -> "node"
                          [] at = "succeeded" -> "persist"
                          [] at = "nodefail" -> "mark"
                          [] at \in {"finish", "fail"} -> "end"
      BY <1>3, <1>5, AfterMoves
    <2> QED  BY <1>3, <1>5, <2>1, AfterMoves
  <1>7. /\ step \in 0..NumSteps /\ NumSteps \in Nat \ {0} /\ x.seq \in Nat
        /\ \A e \in Of(w) : e.step \in Nat /\ e.seq \in Nat
    BY <1>3, RunsAssumption DEF TaskTypes, Event, Of
  <1>8. at = "queued" => step = 0 /\ ~Finished(w)
    BY <1>7 DEF ProgressInv, ProgressOf
  <1>9. Finished(w)' => (at = "finish" \/ Finished(w)) /\ step = NumSteps /\ at # "queued"
    <2>1. Finished(w)' => at = "finish" \/ Finished(w)
      BY <1>2, <1>4 DEF Finished
    <2> QED  BY <1>8, <2>1 DEF ProgressInv, ProgressOf
  <1>10. ASSUME NEW s \in 1..NumSteps, NodeDone(w, s), step >= s PROVE NodeDone(w, s)'
    BY <1>2, <1>4, <1>10, NodeStaysDone
  <1>11. ASSUME NEW v \in Workflows, v # w
         PROVE  ProgressOf(v)' /\ RefreshedBy(v)' /\ \A s : NodeDone(v, s)' <=> NodeDone(v, s)
    <2>1. Of(v)' = Of(v) /\ task'[v] = task[v]
      BY <1>4, <1>6, <1>11
    <2>2. snapshot \in Details => snapshot' = snapshot
      BY SnapshotProjected, RunsAssumption
    <2>3. ProgressOf(v) /\ RefreshedBy(v)
      BY DEF ProgressInv
    <2>4. ProgressOf(v)'
      BY <2>1, <2>3 DEF ProgressOf, NodeDone, Finished
    <2>5. RefreshedBy(v)'
      BY <2>1, <2>2, <2>3 DEF RefreshedBy, Finished
    <2>6. \A s : NodeDone(v, s)' <=> NodeDone(v, s)
      BY <2>1 DEF NodeDone
    <2> QED  BY <2>4, <2>5, <2>6
  <1>12. ProgressOf(w)'
    <2>1. \A e \in Of(w)' : e.type # "stalled" => e.step <= task'[w].step
      BY <1>2, <1>4, <1>6, <1>7, <1>8 DEF ProgressInv, ProgressOf
    <2>2. ASSUME NEW s \in 1..NumSteps, s < task'[w].step PROVE NodeDone(w, s)'
      <3>1. s < step
        BY <1>6, <1>7, <2>2
      <3> QED  BY <1>7, <1>10, <3>1 DEF ProgressInv, ProgressOf
    <2>3. ASSUME NEW s \in 1..NumSteps, s = task'[w].step, task'[w].at = "persist"
          PROVE  NodeDone(w, s)'
      <3>1. at = "succeeded" /\ s = step
        BY <1>6, <2>3
      <3>2. PICK a \in Of(w) : a.type = "started" /\ a.step = s
        BY <3>1 DEF ProgressInv, ProgressOf
      <3>3. /\ a \in Of(w)' /\ x \in Of(w)' /\ a.seq < x.seq
            /\ x.type = "succeeded" /\ x.step = s
        BY <1>2, <1>4, <3>1, <3>2
      <3>4. \A e \in Of(w)' : ~(e.seq > x.seq)
        BY <1>4, <1>7
      <3> QED  BY <3>2, <3>3, <3>4 DEF NodeDone
    <2>4. task'[w].at = "node" =>
            \E a \in Of(w)' : a.type = "started" /\ a.step = task'[w].step
      <3>1. CASE at = "started"
        BY <1>2, <1>4, <1>6, <3>1
      <3>2. CASE at = "beat"
        <4>1. PICK a \in Of(w) : a.type = "started" /\ a.step = step
          BY <3>2 DEF ProgressInv, ProgressOf
        <4> QED  BY <1>4, <1>6, <3>2, <4>1
      <3> QED  BY <1>6, <3>1, <3>2
    <2>5. Finished(w)' => task'[w].step = NumSteps
      BY <1>6, <1>9
    <2> QED  BY <1>6, <2>1, <2>2, <2>3, <2>4, <2>5 DEF ProgressOf
  <1>13. RefreshedBy(w)'
    <2> SUFFICES ASSUME NEW s \in 1..NumSteps,
                        s < task'[w].step \/ task'[w].at = "finish" \/ Finished(w)'
                 PROVE  snapshot' \in Details /\ snapshot'[s] \in Workflows
      BY DEF RefreshedBy
    <2>1. s < step \/ at = "finish" \/ Finished(w)
      BY <1>6, <1>7, <1>9
    <2>2. snapshot \in Details /\ snapshot[s] \in Workflows
      BY <2>1 DEF ProgressInv, RefreshedBy
    <2> QED  BY <2>2, SnapshotProjected, RunsAssumption
  <1>14. CompletedAfterAllNodes'
    <2> SUFFICES ASSUME NEW c \in events', c.type = "finish", NEW s \in 1..NumSteps
                 PROVE  \E a, b \in Of(c.workflow)' :
                          /\ a.type = "started" /\ b.type = "succeeded"
                          /\ a.step = s /\ b.step = s
                          /\ a.seq < b.seq /\ b.seq < c.seq
                          /\ \A e \in Of(c.workflow)' :
                               e.seq > b.seq /\ e.type # "stalled" => e.step >= s
      BY DEF CompletedAfterAllNodes
    <2>1. c = x \/ c \in events
      BY <1>2
    <2>2. CASE c \in events
      <3>1. PICK a, b \in Of(c.workflow) :
              /\ a.type = "started" /\ b.type = "succeeded" /\ a.step = s /\ b.step = s
              /\ a.seq < b.seq /\ b.seq < c.seq
              /\ \A e \in Of(c.workflow) : e.seq > b.seq /\ e.type # "stalled" => e.step >= s
        BY <2>2 DEF ProgressInv, CompletedAfterAllNodes
      <3>2. CASE c.workflow = w
        <4>1. Finished(w) /\ x.step >= s
          <5>1. Finished(w)
            BY <2>2, <3>2 DEF Finished, Of
          <5> QED  BY <1>2, <1>7, <5>1 DEF ProgressInv, ProgressOf
        <4> QED  BY <1>4, <3>1, <3>2, <4>1
      <3>3. CASE c.workflow # w
        <4>1. Of(c.workflow)' = Of(c.workflow)
          BY <1>3, <1>4, <2>2, <3>3 DEF Event
        <4> QED  BY <3>1, <4>1
      <3> QED  BY <3>2, <3>3
    <2>3. CASE c = x
      <3>1. at = "finish" /\ step = NumSteps
        BY <1>2, <2>3 DEF ProgressInv, ProgressOf
      <3>2. NodeDone(w, s) /\ x.step >= s
        <4>1. s < step \/ s = step
          BY <1>7, <3>1
        <4> QED  BY <1>2, <1>7, <3>1, <4>1 DEF ProgressInv, ProgressOf
      <3>3. PICK a, b \in Of(w) :
              /\ a.type = "started" /\ b.type = "succeeded" /\ a.step = s /\ b.step = s
              /\ a.seq < b.seq
              /\ \A e \in Of(w) : e.seq > b.seq /\ e.type # "stalled" => e.step >= s
        BY <3>2 DEF NodeDone
      <3> QED  BY <1>2, <1>4, <2>3, <3>2, <3>3
    <2> QED  BY <2>1, <2>2, <2>3
  <1> QED  BY <1>11, <1>12, <1>13, <1>14 DEF ProgressInv

LEMMA ProgressStep == TrailInv /\ ProgressInv /\ [Next]_vars => ProgressInv'
  <1> SUFFICES ASSUME TrailInv, ProgressInv, [Next]_vars PROVE ProgressInv'
    OBVIOUS
  <1>1. CASE \E w \in Workflows : StartWorkflow(w)
    <2>1. PICK w \in Workflows : StartWorkflow(w)
      BY <1>1
    <2>2. "queued" \in Points
      BY DEF Points, Appending, MainPoints
    <2>3. /\ task'[w].at = "queued" /\ task'[w].step = task[w].step /\ task[w].at = "none"
          /\ \A v \in Workflows \ {w} : task'[v] = task[v]
      BY <2>1, <2>2, GotoMoves, TypesOfTables DEF StartWorkflow, TrailInv, TasksRight
    <2>4. UNCHANGED <<events, snapshot>>
      BY <2>1 DEF StartWorkflow
    <2> QED  BY <2>3, <2>4, QuietKeepsProgress
  <1>2. CASE \E w \in Workflows : ReadSeq(w)
    <2>1. UNCHANGED <<events, snapshot>>
      BY <1>2 DEF ReadSeq
    <2>2. \A v \in Workflows : task'[v].at = task[v].at /\ task'[v].step = task[v].step
      BY <1>2, TypesOfTables DEF ReadSeq, TrailInv, TaskTypes
    <2> QED  BY <2>1, <2>2, QuietKeepsProgress
  <1>3. CASE \E w \in Workflows : CommitEvent(w)
    BY <1>3, CommitEventProgress
  <1>4. CASE \E w \in Workflows : EventRefused(w) \/ Heartbeat(w) \/ NodeEnds(w)
                                  \/ MarkFailed(w) \/ TaskFault(w)
    <2>1. PICK w \in Workflows,
                p \in {"outrun", "dead", "nodefail", "mark", "beat", "succeeded", "fail"} : Moves(w, p)
      BY <1>4, StillMoves
    <2>2. /\ task'[w].at = p /\ task'[w].step = task[w].step
          /\ \A v \in Workflows \ {w} : task'[v] = task[v]
          /\ UNCHANGED <<events, snapshot>>
          /\ p \in {"beat", "succeeded"} => task[w].at = "node"
      BY <2>1, MovedTask DEF Moves
    <2> QED  BY <2>2, QuietKeepsProgress
  <1>5. CASE \E w \in Workflows : Persist(w)
    BY <1>5, PersistProgress
  <1>6. CASE Scan \/ \E w \in Workflows : Skip(w) \/ ReadStalled(w)
    BY <1>6, QuietKeepsProgress DEF Scan, Skip, ReadStalled
  <1>7. CASE \E w \in Workflows : CommitStalled(w)
    BY <1>7, CommitStalledProgress
  <1>8. CASE Crash
    <2>1. UNCHANGED <<events, snapshot>>
      BY <1>8 DEF Crash
    <2> QED  BY <1>8, <2>1, CrashStops, QuietKeepsProgress
  <1>9. CASE UNCHANGED vars
    BY <1>9, QuietKeepsProgress DEF vars
  <1> QED  BY <1>1, <1>2, <1>3, <1>4, <1>5, <1>6, <1>7, <1>8, <1>9 DEF Next, Run, Monitor

LEMMA ProgressInit == Init => ProgressInv
  BY RunsAssumption DEF Init, Idle, Of, ProgressInv, ProgressOf, RefreshedBy, Finished, NodeDone,
                        CompletedAfterAllNodes

(* However many workflows of the symbol overlap, and whatever strands some of
   them: "completed" comes after every node, in order... *)
THEOREM CompletedMeansDone == Spec => []CompletedAfterAllNodes
  <1>1. ProgressInv => CompletedAfterAllNodes
    BY DEF ProgressInv
  <1> QED  BY <1>1, TrailInit, TrailStep, ProgressInit, ProgressStep, PTL DEF Spec

(* ...and the snapshot of the symbol then has every artifact of theirs. *)
THEOREM CompletedMeansFresh == Spec => []CompletedRefreshesSnapshot
  <1>1. TrailInv /\ ProgressInv => CompletedRefreshesSnapshot
    <2> SUFFICES ASSUME TrailInv, ProgressInv, NEW e \in events, e.type = "finish",
                        NEW s \in 1..NumSteps
                 PROVE  snapshot[s] \in Workflows
      BY DEF CompletedRefreshesSnapshot
    <2>1. e.workflow \in Workflows
      BY DEF TrailInv, TypeOK, Event
    <2>2. Finished(e.workflow)
      BY DEF Finished, Of
    <2> QED  BY <2>1, <2>2 DEF ProgressInv, RefreshedBy
  <1> QED  BY <1>1, TrailInit, TrailStep, ProgressInit, ProgressStep, PTL DEF Spec
=============================================================================
