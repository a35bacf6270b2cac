---------------------------- MODULE MCDocumentTx ----------------------------
(* A small instance of DocumentTx: one protected and one ordinary document, *)
(* two texts. The configurations differ in the requests and their kinds.   *)
EXTENDS DocumentTx, TLC

CONSTANTS ledger, note, a, b, r1, r2, r3

MCKeys == {ledger, note}
MCProtected == {ledger}
MCContents == {a, b}
ThreeRequests == {r1, r2, r3}

Symmetric == Permutations(MCContents) \cup Permutations(ThreeRequests)
=============================================================================
