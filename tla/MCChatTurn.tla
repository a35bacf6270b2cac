----------------------------- MODULE MCChatTurn -----------------------------
(* A small instance of ChatTurn: one skill, disabled or with a policy that    *)
(* requires an order of three tools and forbids to run the first one twice.   *)
EXTENDS ChatTurn, TLC

CONSTANTS t1, t2, h1, h2, skill, create, edit, research, other

TwoTurns == {t1, t2}
TwoThreads == {h1, h2}
MCSkills == {skill}
MCRegistered == {create, edit, research}
MCTools == MCRegistered \cup {other}
MCDocumentTools == {create, edit}

Ordered == [enabled |-> TRUE, allowed |-> MCTools,
            order |-> <<create, edit, research>>, blocked |-> {<<create, create>>}]
MCPolicies == {Ordered, Disabled}
=============================================================================
