---------------------------- MODULE MCPaperWallet ----------------------------
(* A small instance of PaperWallet: two lots of one symbol are left from   *)
(* before the rule, and two signals that share a key.                     *)
EXTENDS PaperWallet

CONSTANTS c1, o1

Lots == 1..4
LotKey == <<<<"shadow", "A">>, <<"shadow", "A">>, <<"gated", "B">>, <<"gated", "B">>>>
Earned == {-1}
=============================================================================
