----------------------------- MODULE MCWebPage -----------------------------
(* A small instance of WebPage: one protected and one ordinary document, a  *)
(* rule, two texts, three revision identifiers, three calls.                 *)
EXTENDS WebPage, TLC

CONSTANTS ledger, note, rule, a, b, v1, v2, v3

MCKeys == {ledger, note}
MCProtected == {ledger}
MCRules == {rule}
MCContents == {a, b}
MCRevIds == {v1, v2, v3}

Symmetric == Permutations(MCContents) \cup Permutations(MCRevIds)
=============================================================================
