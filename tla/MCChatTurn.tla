---------------------------- MODULE MCChatTurn ----------------------------
(***************************************************************************)
(* Small instances of ChatTurn for TLC.                                    *)
(***************************************************************************)
EXTENDS ChatTurn, FiniteSetsExt, TLC

(* The default settings (core/config.py): retrieval on, fixed response.    *)
DefaultDeployment == {[rag |-> TRUE, fixedResponse |-> TRUE, modelPriced |-> TRUE]}

Symmetric == Permutations(Turns)

(* Counting quanta comes to the sum of the amounts, for every ledger.      *)
ASSUME SumIsCounted ==
    \A rows \in SUBSET Entry : CreditsOf(rows) = MapThenSumSet(LAMBDA e : e.credits, rows)
===========================================================================
