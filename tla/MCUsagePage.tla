---------------------------- MODULE MCUsagePage ----------------------------
(***************************************************************************)
(* A small instance of UsagePage: one page, two turns, one connection.     *)
(***************************************************************************)
EXTENDS UsagePage, TLC

(* Retrieval off; a model without a price; the LLM without knowledge.      *)
MCDeployments ==
    {[rag |-> FALSE, fixedResponse |-> TRUE, modelPriced |-> TRUE],
     [rag |-> FALSE, fixedResponse |-> TRUE, modelPriced |-> FALSE],
     [rag |-> TRUE, fixedResponse |-> FALSE, modelPriced |-> TRUE]}

MCViewers == Pages \X {"mount", "reply"}
=============================================================================
