---------------------------- MODULE MCMemoryJobs ----------------------------
(* A small instance of MemoryJobs: two turns that yield one fact, or two    *)
(* facts of which the first contradicts that one.                           *)
EXTENDS MemoryJobs, TLC

CONSTANTS t1, t2, name, style, v, w, r1

TwoTurns == {t1, t2}
MCKeys == {name, style}
MCValues == {v, w}

NoRenames == {}
OneRestore == {r1}
NoRestores == {}

(* A bound of the run: at any state at most one of these has happened. *)
Disturbances ==
  [crash    |-> crashes > 0,
   answer   |-> doubt # {},
   edit     |-> edited,
   thread   |-> \E t \in Turns : phase[t] # "new" /\ t \notin messages,
   snapshot |-> \E r \in Restores : restore[r].at # "new"]
OneDisturbance == Cardinality({d \in DOMAIN Disturbances : Disturbances[d]}) <= 1

MCTyped == {v}

One(k, x, c) == [key |-> k, val |-> x, critical |-> c]
Conflicting == {<<One(name, v, TRUE), One(style, v, FALSE)>>, <<One(name, w, FALSE)>>}

TwoFacts == {<<One(name, v, TRUE), One(style, v, FALSE)>>}
=============================================================================
