--------------------------- MODULE CreditAccount ---------------------------
(***************************************************************************)
(* What the credit accounting of the chat backend promises, without the    *)
(* graph, the threads or the database session that deliver it:             *)
(*   - the balance moves only together with one new ledger row of the same *)
(*     amount, and a row is never changed or removed;                      *)
(*   - a chat turn is charged at most once, and only while it is open;     *)
(*   - an LLM answer is handed out only for a turn that was charged, and   *)
(*     a turn that was declined (rejected, failed before or in the LLM     *)
(*     call, or answered without the LLM) never has a row.                 *)
(* A turn that breaks (the process dies, the database fails) makes no      *)
(* promise either way.                                                     *)
(***************************************************************************)
EXTENDS Naturals

CONSTANTS
    Turns,      \* the chat turns (POST /chat requests)
    MaxCharge   \* the most credits one LLM call can cost

VARIABLES
    used,       \* users.credits_used
    ledger,     \* usage_records: one [turn, credits] per charged turn
    verdict     \* what became of each turn

accountVars == <<used, ledger, verdict>>

Verdicts == {"open", "served", "declined", "broken"}

Entry == [turn : Turns, credits : 0..MaxCharge]

Charged(t) == \E e \in ledger : e.turn = t

AccountTypeOK ==
    /\ used \in Nat
    /\ ledger \subseteq Entry
    /\ verdict \in [Turns -> Verdicts]

AccountInit ==
    /\ used = 0
    /\ ledger = {}
    /\ verdict = [t \in Turns |-> "open"]

(* The ledger row and the deduction, in one transaction.                   *)
Charge(t, c) ==
    /\ verdict[t] = "open"
    /\ ~Charged(t)
    /\ used' = used + c
    /\ ledger' = ledger \union {[turn |-> t, credits |-> c]}
    /\ UNCHANGED verdict

(* The LLM's answer goes out.                                              *)
Serve(t) ==
    /\ verdict[t] = "open"
    /\ Charged(t)
    /\ verdict' = [verdict EXCEPT ![t] = "served"]
    /\ UNCHANGED <<used, ledger>>

(* The turn ends without costing the user anything.                        *)
Decline(t) ==
    /\ verdict[t] = "open"
    /\ ~Charged(t)
    /\ verdict' = [verdict EXCEPT ![t] = "declined"]
    /\ UNCHANGED <<used, ledger>>

(* A set of open turns is cut short.                                       *)
Break(T) ==
    /\ \A t \in T : verdict[t] = "open"
    /\ verdict' = [t \in Turns |-> IF t \in T THEN "broken" ELSE verdict[t]]
    /\ UNCHANGED <<used, ledger>>

(* A database that commits and then loses the acknowledgement: the charge  *)
(* is durable and the turn is broken in the same step.                     *)
ChargeAndBreak(t, c) ==
    /\ verdict[t] = "open"
    /\ ~Charged(t)
    /\ used' = used + c
    /\ ledger' = ledger \union {[turn |-> t, credits |-> c]}
    /\ verdict' = [verdict EXCEPT ![t] = "broken"]

AccountNext ==
    \/ \E t \in Turns, c \in 0..MaxCharge : Charge(t, c) \/ ChargeAndBreak(t, c)
    \/ \E t \in Turns : Serve(t) \/ Decline(t)
    \/ \E T \in SUBSET Turns : Break(T)

AccountSpec == AccountInit /\ [][AccountNext]_accountVars
=============================================================================
