------------------------------ MODULE ChatTurn ------------------------------
(***************************************************************************)
(* Chat turns (POST /api/v1/chat) running concurrently in one backend      *)
(* process against one user's credit balance: the nodes of the chat graph  *)
(* (backend/app/graph), the affordability check and the metering of an LLM *)
(* call (services/metering.py, services/usage_service.py), the database    *)
(* connection each turn holds while it works, and the reply it gets.       *)
(*                                                                         *)
(* The balance is that of the one development user every request acts as.  *)
(* Amounts are whole numbers of the credit quantum (10^-12 credits).       *)
(***************************************************************************)
EXTENDS Integers, FiniteSets

CONSTANTS
    Turns,           \* the chat turns
    Total,           \* users.total_credits
    PoolSize,        \* connections of the SQLAlchemy engine (pool and overflow)
    Estimates,       \* worst-case credits a credit check can come to
    MaxCharge,       \* the most credits one LLM call can cost
    Excess,          \* by how much usage can exceed the estimate of its prompt
    Deployments,     \* the settings the process can be started with
    RetrievalErrors, \* codes of the errors of embedding and vector search
    LlmErrors        \* codes of the errors of LLMProvider.generate

ASSUME AmountsAssumption ==
    /\ Total \in Nat
    /\ Estimates \subseteq Nat
    /\ MaxCharge \in Nat
    /\ Excess \in Nat

ASSUME PoolAssumption == PoolSize \in Nat \ {0}

ASSUME DeploymentsAssumption ==
    Deployments \subseteq
        [rag : BOOLEAN, fixedResponse : BOOLEAN, modelPriced : BOOLEAN]

(* Replies other than those of the retriever and of the LLM provider.      *)
OwnReplies ==
    {"answered", "no_knowledge", "invalid_question", "insufficient_credits",
     "pricing_not_configured", "database_unavailable"}

ASSUME ErrorsAssumption ==
    (RetrievalErrors \union LlmErrors) \intersect (OwnReplies \union {"none"}) = {}

VARIABLES
    settings,    \* the deployment's settings, fixed for the life of the process
    earlier,     \* turns whose clients knew their balance when a turn was sent
    at,          \* the graph node (or the step of usage_accounting) a turn is at
    answerType,  \* ChatState.answer_type
    ask,         \* worst-case credits estimated from the bare question
    prompt,      \* worst-case credits estimated from the full prompt
    llm,         \* the outcome of the LLM call
    charge,      \* credits_consumed by the reported usage
    newUsed,     \* credits_used as the turn's uncommitted UPDATE leaves it
    reply,       \* how the turn ended for its client
    shown,       \* credits_remaining of the graph's state, for the reply
    recLog,      \* turns with a usage_record_failed event
    used,        \* users.credits_used, committed
    ledger       \* usage_records, committed

turnVars == <<at, answerType, ask, prompt, llm, charge, newUsed>>
replyVars == <<reply, shown>>
logVars == <<recLog>>
dbVars == <<used, ledger>>
vars == <<settings, earlier, turnVars, replyVars, logVars, dbVars>>

Replies == {"none"} \union OwnReplies \union RetrievalErrors \union LlmErrors

(* Nodes of the graph; usage_accounting commits and reads the balance back *)
(* in steps of their own, and the reply is built when the graph has ended  *)
(* ("respond"), because other turns run in between.                        *)
Nodes ==
    {"idle", "analyze_question", "precheck_credits", "retrieve_knowledge",
     "no_knowledge", "build_context", "check_credits", "generate_answer",
     "usage_accounting", "usage_commit", "usage_readback", "respond", "end", "lost"}

(* Nodes between which a turn's session keeps its connection: from the     *)
(* first query (precheck_credits) until the commit, and from the read of   *)
(* the balance until it is closed.                                         *)
ConnectedNodes ==
    {"retrieve_knowledge", "no_knowledge", "build_context", "check_credits",
     "generate_answer", "usage_accounting", "usage_commit", "respond"}

(* Nodes that query the database.                                          *)
QueryNodes ==
    {"precheck_credits", "no_knowledge", "check_credits", "usage_accounting",
     "usage_commit", "usage_readback"}

RecordNodes == {"usage_accounting", "usage_commit", "usage_readback"}

Entry == [turn : Turns, credits : 0..MaxCharge]

Over(t) == at[t] \in {"end", "lost"}
Active(t) == at[t] # "idle" /\ ~Over(t)
Connected == {t \in Turns : at[t] \in ConnectedNodes}
FreeConnection == Cardinality(Connected) < PoolSize
(* Mutant: the balance is updated without waiting for another's UPDATE.    *)
RowNeverLocked == TRUE

(* Mutant: the transaction stays open until the balance has been read back *)
(* on another connection.                                                  *)
RowHeldUntilReadBack == \A t \in Turns : at[t] \notin {"usage_commit", "usage_readback"}

RowUnlocked == \A t \in Turns : at[t] # "usage_commit"
Remaining == Total - used

(* Turns whose reply gave a balance, and those that have read theirs.      *)
ShowsBalance(t) == reply[t] \in {"answered", "no_knowledge"}
Told == {t \in Turns : ShowsBalance(t)}
Informed == {t \in Turns : at[t] = "respond" \/ ShowsBalance(t)}

Affordable(credits) == Remaining > 0 /\ Remaining >= credits

TypeOK ==
    /\ settings \in [rag : BOOLEAN, fixedResponse : BOOLEAN, modelPriced : BOOLEAN]
    /\ earlier \in [Turns -> SUBSET Turns]
    /\ at \in [Turns -> Nodes]
    /\ answerType \in [Turns -> {"none", "grounded", "direct", "no_context"}]
    /\ ask \in [Turns -> Nat]
    /\ prompt \in [Turns -> Nat]
    /\ llm \in [Turns -> {"not_called", "failed", "priced", "unpriced"}]
    /\ charge \in [Turns -> 0..MaxCharge]
    /\ newUsed \in [Turns -> Nat]
    /\ reply \in [Turns -> Replies]
    /\ shown \in [Turns -> Int]
    /\ recLog \subseteq Turns
    /\ used \in Nat
    /\ ledger \subseteq Entry

Init ==
    /\ settings \in Deployments
    /\ earlier = [t \in Turns |-> {}]
    /\ at = [t \in Turns |-> "idle"]
    /\ answerType = [t \in Turns |-> "none"]
    /\ ask = [t \in Turns |-> 0]
    /\ prompt = [t \in Turns |-> 0]
    /\ llm = [t \in Turns |-> "not_called"]
    /\ charge = [t \in Turns |-> 0]
    /\ newUsed = [t \in Turns |-> 0]
    /\ reply = [t \in Turns |-> "none"]
    /\ shown = [t \in Turns |-> Total]
    /\ recLog = {}
    /\ used = 0
    /\ ledger = {}

(***************************************************************************)
(* Steps within a turn                                                     *)
(***************************************************************************)
Goto(t, node) ==
    /\ at' = [at EXCEPT ![t] = node]
    /\ UNCHANGED <<replyVars, logVars>>

(* ChatService.reply re-raises an AppError for api/errors.py to answer; a  *)
(* SQLAlchemyError passes it by and is answered 503 there.                 *)
Finish(t, code) ==
    /\ at' = [at EXCEPT ![t] = "end"]
    /\ reply' = [reply EXCEPT ![t] = code]

Reject(t, code) ==
    /\ Finish(t, code)
    /\ UNCHANGED <<shown, recLog>>

(* get_remaining_credits, for the reply: the last node of the graph.       *)
ReadBalance(t) ==
    /\ at' = [at EXCEPT ![t] = "respond"]
    /\ shown' = [shown EXCEPT ![t] = Remaining]
    /\ UNCHANGED <<reply, recLog>>

(***************************************************************************)
(* The nodes of the graph                                                  *)
(***************************************************************************)
StartTurn(t) ==
    /\ at[t] = "idle"
    /\ Goto(t, "analyze_question")
    /\ earlier' = [earlier EXCEPT ![t] = Told]
    /\ UNCHANGED <<settings, answerType, ask, prompt, llm, charge, newUsed, dbVars>>

(* A question of nothing but blanks is rejected; otherwise the worst-case  *)
(* estimate of the bare question is settled by its length.                 *)
AnalyzeQuestion(t) ==
    /\ at[t] = "analyze_question"
    /\ \/ /\ Reject(t, "invalid_question")
          /\ UNCHANGED <<answerType, ask>>
       \/ /\ Goto(t, "precheck_credits")
          /\ answerType' =
                [answerType EXCEPT ![t] = IF settings.rag THEN "grounded" ELSE "direct"]
          /\ \E e \in Estimates : ask' = [ask EXCEPT ![t] = e]
    /\ UNCHANGED <<settings, earlier, prompt, llm, charge, newUsed, dbVars>>

(* _credit_check: the configured model is priced first, then one read of   *)
(* the balance decides.                                                    *)
CreditCheck(t, worstCase, next) ==
    /\ \/ ~settings.modelPriced /\ Reject(t, "pricing_not_configured")
       \/ settings.modelPriced /\ Affordable(worstCase) /\ Goto(t, next)
       \/ settings.modelPriced /\ ~Affordable(worstCase) /\ Reject(t, "insufficient_credits")
    /\ UNCHANGED <<settings, earlier, answerType, ask, prompt, llm, charge, newUsed, dbVars>>

PrecheckCredits(t) ==
    /\ at[t] = "precheck_credits"
    /\ FreeConnection
    /\ CreditCheck(t, ask[t], IF settings.rag THEN "retrieve_knowledge" ELSE "build_context")

(* Mutant: RAG_NO_CONTEXT_MODE is not looked at.                           *)
RetrieveKnowledgeAnyMode(t) ==
    /\ at[t] = "retrieve_knowledge"
    /\ \/ /\ Goto(t, "build_context")
          /\ \/ UNCHANGED answerType
             \/ answerType' = [answerType EXCEPT ![t] = "no_context"]
       \/ /\ \E e \in RetrievalErrors : Reject(t, e)
          /\ UNCHANGED answerType
    /\ UNCHANGED <<settings, earlier, ask, prompt, llm, charge, newUsed, dbVars>>

(* Search and relevance filter: something relevant, nothing relevant, or   *)
(* an error of the embedding provider or the vector store.                 *)
RetrieveKnowledge(t) ==
    /\ at[t] = "retrieve_knowledge"
    /\ \/ /\ Goto(t, "build_context")
          /\ UNCHANGED answerType
       \/ /\ Goto(t, IF settings.fixedResponse THEN "no_knowledge" ELSE "build_context")
          /\ answerType' = [answerType EXCEPT ![t] = "no_context"]
       \/ /\ \E e \in RetrievalErrors : Reject(t, e)
          /\ UNCHANGED answerType
    /\ UNCHANGED <<settings, earlier, ask, prompt, llm, charge, newUsed, dbVars>>

NoKnowledge(t) ==
    /\ at[t] = "no_knowledge"
    /\ ReadBalance(t)
    /\ UNCHANGED <<settings, earlier, answerType, ask, prompt, llm, charge, newUsed, dbVars>>

(* The prompt holds the question, so its estimate is at least the bare     *)
(* question's; with retrieval off it is the question itself.               *)
BuildContext(t) ==
    /\ at[t] = "build_context"
    /\ Goto(t, "check_credits")
    /\ \E e \in Estimates :
          /\ IF answerType[t] = "direct" THEN e = ask[t] ELSE e >= ask[t]
          /\ prompt' = [prompt EXCEPT ![t] = e]
    /\ UNCHANGED <<settings, earlier, answerType, ask, llm, charge, newUsed, dbVars>>

(* Mutant: the second check looks at the bare question again.              *)
CheckCreditsOfQuestion(t) ==
    /\ at[t] = "check_credits"
    /\ CreditCheck(t, ask[t], "generate_answer")

CheckCredits(t) ==
    /\ at[t] = "check_credits"
    /\ CreditCheck(t, prompt[t], "generate_answer")

(* The LLM call: an error, or an answer with the usage the provider        *)
(* reports, under a model name that PricingService may not know.           *)
GenerateAnswer(t) ==
    /\ at[t] = "generate_answer"
    /\ \/ /\ \E e \in LlmErrors : Reject(t, e)
          /\ llm' = [llm EXCEPT ![t] = "failed"]
          /\ UNCHANGED charge
       \/ /\ Goto(t, "usage_accounting")
          /\ llm' = [llm EXCEPT ![t] = "priced"]
          /\ \E c \in 0..MaxCharge :
                /\ c <= prompt[t] + Excess
                /\ charge' = [charge EXCEPT ![t] = c]
       \/ /\ Goto(t, "usage_accounting")
          /\ llm' = [llm EXCEPT ![t] = "unpriced"]
          /\ UNCHANGED charge
    /\ UNCHANGED <<settings, earlier, answerType, ask, prompt, newUsed, dbVars>>

(* Mutant: the deduction has the wrong sign.                               *)
UsageAccountingRefunding(t) ==
    /\ at[t] = "usage_accounting"
    /\ llm[t] = "priced"
    /\ RowUnlocked
    /\ Goto(t, "usage_commit")
    /\ newUsed' = [newUsed EXCEPT ![t] = used - charge[t]]
    /\ UNCHANGED <<settings, earlier, answerType, ask, prompt, llm, charge, dbVars>>

(* UsageMeter.record prices the reported model before its try block; then  *)
(* record_usage inserts the row and runs the relative UPDATE, which waits  *)
(* for any other turn's uncommitted one.                                   *)
UsageAccounting(t) ==
    /\ at[t] = "usage_accounting"
    /\ \/ /\ llm[t] = "unpriced"
          /\ Reject(t, "pricing_not_configured")
          /\ UNCHANGED newUsed
       \/ /\ llm[t] = "priced"
          /\ RowUnlocked
          /\ Goto(t, "usage_commit")
          /\ newUsed' = [newUsed EXCEPT ![t] = used + charge[t]]
    /\ UNCHANGED <<settings, earlier, answerType, ask, prompt, llm, charge, dbVars>>

(* Mutant: the row holds the estimate instead of the actual usage.         *)
CommitEstimate(t) ==
    /\ used' = newUsed[t]
    /\ ledger' = ledger \union {[turn |-> t, credits |-> prompt[t]]}

(* What the commit makes durable; it also gives the connection back.       *)
Commit(t) ==
    /\ used' = newUsed[t]
    /\ ledger' = ledger \union {[turn |-> t, credits |-> charge[t]]}

(* Mutant: the row is added to the session after the commit, never flushed.*)
CommitUsageWithoutRow(t) ==
    /\ at[t] = "usage_commit"
    /\ used' = newUsed[t]
    /\ Goto(t, "usage_readback")
    /\ UNCHANGED <<settings, earlier, answerType, ask, prompt, llm, charge, newUsed, ledger>>

CommitUsage(t) ==
    /\ at[t] = "usage_commit"
    /\ Commit(t)
    /\ Goto(t, "usage_readback")
    /\ UNCHANGED <<settings, earlier, answerType, ask, prompt, llm, charge, newUsed>>

(* Mutant: the identity map answers, with the user as it was loaded before *)
(* the UPDATE.                                                             *)
ReadBackStale(t) ==
    /\ at[t] = "usage_readback"
    /\ FreeConnection
    /\ at' = [at EXCEPT ![t] = "respond"]
    /\ shown' = [shown EXCEPT ![t] = Total - (newUsed[t] - charge[t])]
    /\ UNCHANGED <<settings, earlier, answerType, ask, prompt, llm, charge, newUsed,
                   reply, recLog, dbVars>>

(* The balance for the reply is read in a new transaction, which has to    *)
(* take a connection from the pool again.                                  *)
ReadBack(t) ==
    /\ at[t] = "usage_readback"
    /\ FreeConnection
    /\ ReadBalance(t)
    /\ UNCHANGED <<settings, earlier, answerType, ask, prompt, llm, charge, newUsed, dbVars>>

(* The graph has ended: the reply is built from its state, whatever other  *)
(* turns have been charged since the balance was read.                     *)
Respond(t) ==
    /\ at[t] = "respond"
    /\ Reject(t, IF llm[t] = "priced" THEN "answered" ELSE "no_knowledge")
    /\ UNCHANGED <<settings, earlier, answerType, ask, prompt, llm, charge, newUsed, dbVars>>

(* Mutant: only the commit is inside the try block.                        *)
LogCommitFailure(t) ==
    recLog' = IF at[t] = "usage_commit" THEN recLog \union {t} ELSE recLog

(***************************************************************************)
(* Failures                                                                *)
(***************************************************************************)
(* A query, the commit or the wait for a connection fails: SQLAlchemyError.*)
(* Inside record_usage the transaction is rolled back and                  *)
(* usage_record_failed is logged.                                          *)
LogRecordFailure(t) ==
    recLog' = IF at[t] \in RecordNodes THEN recLog \union {t} ELSE recLog

DatabaseFails(t) ==
    /\ at[t] \in QueryNodes
    /\ at[t] = "usage_accounting" => llm[t] = "priced"
    /\ at[t] \in {"precheck_credits", "check_credits"} => settings.modelPriced
    /\ Finish(t, "database_unavailable")
    /\ LogRecordFailure(t)
    /\ UNCHANGED <<settings, earlier, answerType, ask, prompt, llm, charge, newUsed, shown, dbVars>>

(* Mutant: a lost acknowledgement is answered by another attempt.          *)
CommitRetried(t) ==
    /\ at[t] = "usage_commit"
    /\ Commit(t)
    /\ Goto(t, "usage_accounting")
    /\ UNCHANGED <<settings, earlier, answerType, ask, prompt, llm, charge, newUsed>>

(* The commit takes effect but its acknowledgement is lost.                *)
CommitUnacknowledged(t) ==
    /\ at[t] = "usage_commit"
    /\ Commit(t)
    /\ Finish(t, "database_unavailable")
    /\ LogRecordFailure(t)
    /\ UNCHANGED <<settings, earlier, answerType, ask, prompt, llm, charge, newUsed, shown>>

(* The process dies and is started again: its turns are gone without a     *)
(* reply, the database rolls their transactions back.                      *)
Crash ==
    /\ \E t \in Turns : Active(t)
    /\ at' = [t \in Turns |-> IF Active(t) THEN "lost" ELSE at[t]]
    /\ UNCHANGED <<settings, earlier, answerType, ask, prompt, llm, charge, newUsed,
                   replyVars, logVars, dbVars>>

(* Every turn is over.                                                     *)
Quiet ==
    /\ \A t \in Turns : Over(t)
    /\ UNCHANGED vars

(* What a turn does by itself, the failures of the database apart.         *)
Progress(t) ==
    \/ AnalyzeQuestion(t) \/ PrecheckCredits(t) \/ RetrieveKnowledge(t)
    \/ NoKnowledge(t) \/ BuildContext(t) \/ CheckCredits(t)
    \/ GenerateAnswer(t) \/ UsageAccounting(t) \/ CommitUsage(t) \/ ReadBack(t)
    \/ Respond(t)

Next ==
    \/ \E t \in Turns :
          StartTurn(t) \/ Progress(t) \/ DatabaseFails(t) \/ CommitUnacknowledged(t)
    \/ Crash
    \/ Quiet

Spec == Init /\ [][Next]_vars

(* Every call a turn makes returns or times out, and the threads of the    *)
(* pool all run: a turn that can go on does.                               *)
Fairness == \A t \in Turns : WF_vars(Progress(t))

FairSpec == Spec /\ Fairness

(***************************************************************************)
(* The ledger and the balance                                              *)
(***************************************************************************)
Rows(t) == {e \in ledger : e.turn = t}

(* The sum of the credits of some rows, counted quantum by quantum.        *)
CreditsOf(rows) ==
    Cardinality({quantum \in rows \X (1 .. MaxCharge) : quantum[2] <= quantum[1].credits})

(* GET /usage adds up the rows while the balance is a column of its own:   *)
(* at every moment credits_used is the sum of the ledger.                  *)
LedgerMatchesBalance == used = CreditsOf(ledger)

(* usage_service.record_usage: the deduction is a relative UPDATE in the   *)
(* transaction of the ledger row, so whatever turns interleave, the        *)
(* balance changes only by the amount of exactly one new row and rows are  *)
(* never changed or removed.                                               *)
BalanceMovesWithLedger ==
    [][ \/ used' = used /\ ledger' = ledger
        \/ \E e \in Entry : /\ e \notin ledger
                            /\ ledger' = ledger \union {e}
                            /\ used' = used + e.credits ]_vars

(* What the reply says and what the ledger holds agree: a turn answered by *)
(* the LLM has one row, of the amount its usage came to, and a turn that   *)
(* was rejected, failed up to the LLM call, could not be priced or was     *)
(* answered without the LLM has none.                                      *)
ReplyMatchesLedger ==
    \A t \in Turns :
        /\ reply[t] = "answered" => Rows(t) = {[turn |-> t, credits |-> charge[t]]}
        /\ reply[t] \notin {"none", "answered", "database_unavailable"} => Rows(t) = {}

(* Checking and deducting are two steps, so concurrent turns can overdraw  *)
(* the balance (docs/architecture.md:198). How far: a turn waits for the   *)
(* LLM with its connection in hand, so at most PoolSize turns are between  *)
(* check and deduction, and only the last to deduct is bound by its check. *)
OverdraftBounded == used <= Total + Excess + (PoolSize - 1) * MaxCharge

(* Everything an answered turn costs is found again by whoever reconciles  *)
(* the ledger: a turn whose priced LLM answer did not lead to a row, in a  *)
(* process that lived on, has a usage_record_failed event.                 *)
LostChargesAreLogged ==
    \A t \in Turns :
        at[t] = "end" /\ llm[t] = "priced" /\ Rows(t) = {} => t \in recLog

(* Turns can be put in an order in which each shows a balance that all up  *)
(* to it, and itself, are deducted from, and no turn comes before one whose*)
(* balance its client might have known: of any of them one can be the last.*)
AddUp(turns) ==
    \A some \in (SUBSET turns) \ {{}} :
        \E last \in some :
            /\ shown[last] + CreditsOf({e \in ledger : e.turn \in some}) <= Total
            /\ \A t \in some : last \notin earlier[t]

(* A balance is read after the turn's own commit and handed out later,     *)
(* while other turns commit, read and reply: replies may arrive in another *)
(* order than the balances were read in. The balances clients are told add *)
(* up all the same: it is as if the turns had run one after the other, each*)
(* shown what was left after it, and no client is shown less than is left. *)
ShownBalancesAddUp ==
    /\ \A t \in Told : Remaining <= shown[t]
    /\ AddUp(Told)

(* With RAG_NO_CONTEXT_MODE=fixed_response and retrieval on, credits are   *)
(* only ever spent on answers grounded in retrieved chunks.                *)
SpendsOnlyOnGroundedAnswers ==
    \A t \in Turns :
        settings.rag /\ settings.fixedResponse /\ llm[t] # "not_called"
            => answerType[t] = "grounded"

(* A turn that has begun comes to its end (or is lost with the process):   *)
(* neither the wait for a connection nor the wait for the balance row      *)
(* lasts for ever, although turns hold the one while they wait for the     *)
(* other.                                                                  *)
EveryTurnEnds == \A t \in Turns : Active(t) ~> Over(t)

(***************************************************************************)
(* The inductive invariant behind the safety properties                    *)
(***************************************************************************)
PoolInv ==
    /\ IsFiniteSet(Connected)
    /\ Cardinality(Connected) <= PoolSize

(* Where a turn is determines what it has done so far.                     *)
TurnInv ==
    \A t \in Turns :
        /\ reply[t] = "none" <=> at[t] # "end"
        /\ t \in recLog => at[t] = "end"
        /\ at[t] \in Nodes \ (RecordNodes \union {"respond", "end", "lost"}) => llm[t] = "not_called"
        /\ llm[t] # "priced" => charge[t] = 0
        /\ at[t] = "usage_accounting" => llm[t] \in {"priced", "unpriced"}
        /\ at[t] \in {"usage_commit", "usage_readback"} => llm[t] = "priced"
        /\ at[t] = "respond" => llm[t] \in {"priced", "not_called"}

(* A turn has its row from the commit on, and not before.                  *)
RowInv ==
    \A t \in Turns :
        /\ at[t] \notin {"usage_readback", "respond", "end", "lost"} => Rows(t) = {}
        /\ at[t] \in {"usage_readback", "respond"} /\ llm[t] = "priced" =>
              Rows(t) = {[turn |-> t, credits |-> charge[t]]}
        /\ at[t] = "respond" /\ llm[t] # "priced" => Rows(t) = {}

(* The turn holding the balance row works with the committed balance.      *)
LockInv ==
    \A t \in Turns :
        at[t] = "usage_commit" =>
            /\ newUsed[t] = used + charge[t]
            /\ \A s \in Turns : at[s] = "usage_commit" => s = t

(* Turns that passed the check on their full prompt and have not been      *)
(* charged yet.                                                            *)
Spending ==
    {t \in Turns : at[t] \in {"generate_answer", "usage_accounting", "usage_commit"}}

ChargeInv == \A t \in Spending : charge[t] <= prompt[t] + Excess

Budget == Total + Excess + (PoolSize - 1) * MaxCharge

(* Either every turn on its way to a deduction fits in the budget at the   *)
(* full price, or all but one do and that one fits at its own estimate.    *)
BudgetInv ==
    \/ used + MaxCharge * Cardinality(Spending) <= Budget
    \/ \E w \in Spending :
          used + prompt[w] + Excess + MaxCharge * Cardinality(Spending \ {w}) <= Budget

(* What is left only falls after a balance has been read.                  *)
ShownInv == \A t \in Informed : Remaining <= shown[t]

(* Nobody knows of a balance that has not been told.                       *)
EarlierInv == \A t \in Turns : earlier[t] \subseteq Told

(* How a turn's answer type follows from the settings and the retrieval.   *)
AnswerInv ==
    \A t \in Turns :
        settings.rag /\ settings.fixedResponse =>
            /\ at[t] \in Nodes \ {"idle", "analyze_question", "no_knowledge", "respond",
                              "end", "lost"}
                    => answerType[t] = "grounded"
            /\ llm[t] # "not_called" => answerType[t] = "grounded"

(* However many turns there may be, only so many have been charged.        *)
LedgerInv == IsFiniteSet(ledger) /\ LedgerMatchesBalance

(* A turn that reads its balance can be the last of all that have read one.*)
BalancesInv == AddUp(Informed)

(* The conjunction that every step of a turn preserves; it implies the     *)
(* safety properties above.                                                *)
IndInv ==
    /\ TypeOK
    /\ PoolInv
    /\ TurnInv
    /\ RowInv
    /\ LockInv
    /\ ChargeInv
    /\ BudgetInv
    /\ ShownInv
    /\ EarlierInv
    /\ AnswerInv
    /\ ReplyMatchesLedger
    /\ LostChargesAreLogged

(***************************************************************************)
(* Refinement of the abstract account                                      *)
(***************************************************************************)
verdict ==
    [t \in Turns |->
        IF at[t] = "lost" \/ reply[t] = "database_unavailable" THEN "broken"
        ELSE IF reply[t] = "none" THEN "open"
        ELSE IF reply[t] = "answered" THEN "served"
        ELSE "declined"]

Account == INSTANCE CreditAccount
    WITH Turns <- Turns, MaxCharge <- MaxCharge,
         used <- used, ledger <- ledger, verdict <- verdict

(* The turns keep the promises of the abstract account: charged at most    *)
(* once and only while open, served only when charged, declined only when  *)
(* not.                                                                    *)
ImplementsAccount == Account!AccountSpec

(***************************************************************************)
(* What the documentation says and the code does not do                    *)
(***************************************************************************)
(* db/models.py:28: "One row per successful LLM request", or the event that*)
(* lets the ledger be reconciled, for a model without a price as well.     *)
OneRowPerSuccessfulRequest ==
    \A t \in Turns :
        at[t] = "end" /\ llm[t] = "unpriced" => Rows(t) # {} \/ t \in recLog

(* services/metering.py:80: usage_record_failed is logged "to reconcile    *)
(* the ledger manually", that is, for usage the ledger does not hold.      *)
OnlyMissingRowsAreLogged == \A t \in recLog : Rows(t) = {}
=============================================================================
