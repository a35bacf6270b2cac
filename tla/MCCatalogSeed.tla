--------------------------- MODULE MCCatalogSeed ---------------------------
(* A small instance of CatalogSeed: three symbols of which two are selected, *)
(* in an order that two answers of the provider reverse.                     *)
EXTENDS CatalogSeed, TLC

CONSTANTS q1, q2, q3

TwoRequests == {q1, q2}
ThreeRequests == {q1, q2, q3}
MCSymbols == 1..3

(* The second row of symbol 1 counts; symbol 3 is too small to be eligible. *)
Larger == [listed |-> MCSymbols, quotes |-> {<<1, 3>>, <<1, 9>>, <<2, 7>>, <<3, 1>>}]
(* Equal capitalisations; symbol 1 is not in the directory. *)
Equal == [listed |-> {2, 3}, quotes |-> {<<1, 9>>, <<2, 5>>, <<3, 5>>}]
Swapped == [listed |-> MCSymbols, quotes |-> {<<1, 5>>, <<2, 8>>}]
TooFew == [listed |-> {1}, quotes |-> {<<1, 5>>, <<2, 8>>}]

MCMarkets == {Larger, Equal, Swapped, TooFew}
=============================================================================
