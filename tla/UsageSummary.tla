---------------------------- MODULE UsageSummary ----------------------------
(***************************************************************************)
(* GET /api/v1/usage while chat turns run. UsageService.get_summary makes  *)
(* two queries, the user row and then the aggregate over usage_records;    *)
(* each sees what is committed at its own moment, so turns may commit in   *)
(* between. A viewer is what asks for one summary at a time; who asks and  *)
(* when is left to the module that extends this one.                       *)
(***************************************************************************)
EXTENDS ChatTurn

CONSTANT Viewers    \* requests GET /usage, each asked again and again

VARIABLES
    viewAt,      \* where a viewer's request is
    seenUsed,    \* credits_used it read
    seenRows,    \* the rows its aggregate covered
    known        \* turns answered before the request was sent

viewVars == <<viewAt, seenUsed, seenRows, known>>

SummaryInit ==
    /\ viewAt \in [Viewers -> {"idle", "asked"}]
    /\ seenUsed = [v \in Viewers |-> 0]
    /\ seenRows = [v \in Viewers |-> {}]
    /\ known = [v \in Viewers |-> {}]

SummaryTypeOK ==
    /\ viewAt \in [Viewers -> {"idle", "asked", "ledger", "shown", "failed"}]
    /\ seenUsed \in [Viewers -> Nat]
    /\ seenRows \in [Viewers -> SUBSET Entry]
    /\ known \in [Viewers -> SUBSET Turns]

(* The request is sent; what has been answered by now should be in it.     *)
Ask(v) ==
    /\ viewAt[v] = "idle"
    /\ viewAt' = [viewAt EXCEPT ![v] = "asked"]
    /\ known' = [known EXCEPT ![v] = {t \in Turns : reply[t] = "answered"}]
    /\ UNCHANGED <<seenUsed, seenRows>>

(* Mutant: the identity map of an earlier request answers the query.       *)
ReadUserCached(v) ==
    /\ viewAt[v] = "asked"
    /\ viewAt' = [viewAt EXCEPT ![v] = "ledger"]
    /\ UNCHANGED seenUsed
    /\ UNCHANGED <<vars, seenRows, known>>

(* _get_user expires what the session holds and reads the user row.        *)
ReadUser(v) ==
    /\ viewAt[v] = "asked"
    /\ viewAt' = [viewAt EXCEPT ![v] = "ledger"]
    /\ seenUsed' = [seenUsed EXCEPT ![v] = used]
    /\ UNCHANGED <<vars, seenRows, known>>

(* Mutant: the aggregate comes from before the user row was read.          *)
ReadLedgerFirst(v) ==
    /\ viewAt[v] = "ledger"
    /\ viewAt' = [viewAt EXCEPT ![v] = "shown"]
    /\ UNCHANGED <<vars, seenUsed, known>>
    /\ seenRows' = [seenRows EXCEPT ![v] = {e \in ledger : e.turn \in known[v]}]

ReadLedger(v) ==
    /\ viewAt[v] = "ledger"
    /\ viewAt' = [viewAt EXCEPT ![v] = "shown"]
    /\ seenRows' = [seenRows EXCEPT ![v] = ledger]
    /\ UNCHANGED <<vars, seenUsed, known>>

(* Mutant: a failed aggregate counts as no rows.                           *)
SummaryOfNothing(v) ==
    /\ viewAt[v] \in {"asked", "ledger"}
    /\ viewAt' = [viewAt EXCEPT ![v] = "shown"]
    /\ seenRows' = [seenRows EXCEPT ![v] = {}]
    /\ UNCHANGED <<vars, seenUsed, known>>

(* A query fails: 503, and the client has no new summary.                  *)
SummaryFails(v) ==
    /\ viewAt[v] \in {"asked", "ledger"}
    /\ viewAt' = [viewAt EXCEPT ![v] = "failed"]
    /\ UNCHANGED <<vars, seenUsed, seenRows, known>>

(* A crash of the process ends the requests for a summary too.             *)
CrashWithViewers ==
    /\ Crash
    /\ viewAt' = [v \in Viewers |->
                     IF viewAt[v] \in {"asked", "ledger"} THEN "failed" ELSE viewAt[v]]
    /\ UNCHANGED <<seenUsed, seenRows, known>>

(* The user row is read first, so a summary never shows credits used that  *)
(* its own request count, tokens and cost do not account for; it may count *)
(* a turn whose charge the balance does not show yet.                      *)
SummaryCoversBalance ==
    \A v \in Viewers : viewAt[v] = "shown" => seenUsed[v] <= CreditsOf(seenRows[v])

(* The rows of the turns answered before the request was sent.             *)
Before(v) == {e \in ledger : e.turn \in known[v]}

(* A client that asks for a summary after a turn was answered finds that   *)
(* turn in both halves: its row is counted and its charge is in            *)
(* credits_used.                                                           *)
SummaryIncludesAnsweredTurns ==
    \A v \in Viewers :
        viewAt[v] = "shown" =>
            Before(v) \subseteq seenRows[v] /\ CreditsOf(Before(v)) <= seenUsed[v]

(* What a request has read so far, of an account that only grows.          *)
SummaryInv ==
    \A v \in Viewers :
        /\ known[v] \subseteq {t \in Turns : reply[t] = "answered"}
        /\ seenUsed[v] <= used /\ seenRows[v] \subseteq ledger
        /\ viewAt[v] = "ledger" => CreditsOf(Before(v)) <= seenUsed[v]
=============================================================================
