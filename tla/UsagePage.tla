----------------------------- MODULE UsagePage -----------------------------
(***************************************************************************)
(* The chat page of the frontend (frontend/src/pages/ChatPage.tsx) in      *)
(* front of the backend: it asks for the usage summary when it is mounted  *)
(* and after every successful turn, one turn at a time as far as it can    *)
(* tell. The two requests a page may have on their way at once are its     *)
(* viewers in UsageSummary. Answers may be lost, and they may arrive in    *)
(* another order than they were asked for.                                 *)
(***************************************************************************)
EXTENDS UsageSummary

CONSTANT Pages      \* open pages

ASSUME PagesAssumption == Viewers = Pages \X {"mount", "reply"}

VARIABLES
    phase,      \* "ready", or why the page is pending
    sent,       \* turns the page has sent and waits for (none or one)
    usage,      \* the summary on display; no rows and 0 before the first
    raced       \* whether the last refresh overlapped with the mount's

pageVars == <<phase, sent, usage, raced>>

Mount(p) == <<p, "mount">>
Refresh(p) == <<p, "reply">>
NoUsage == [used |-> 0, rows |-> {}]

PageInit ==
    /\ Init
    /\ viewAt = [v \in Viewers |-> IF v[2] = "mount" THEN "asked" ELSE "idle"]
    /\ SummaryInit
    /\ phase = [p \in Pages |-> "ready"]
    /\ sent = [p \in Pages |-> {}]
    /\ usage = [p \in Pages |-> NoUsage]
    /\ raced = [p \in Pages |-> FALSE]

(* One turn at a time for a page; the balance of its display is a sum of   *)
(* charges, of turns that were there.                                      *)
PageTypeOK ==
    /\ SummaryTypeOK
    /\ phase \in [Pages -> {"ready", "sending", "refreshing"}]
    /\ sent \in [Pages -> SUBSET Turns]
    /\ \A p \in Pages :
          IF phase[p] = "sending" THEN \E t \in Turns : sent[p] = {t} ELSE sent[p] = {}
    /\ usage \in [Pages -> [used : Nat, rows : SUBSET Entry]]
    /\ raced \in [Pages -> BOOLEAN]

(* Mutant: the input is enabled again as soon as the reply is there.       *)
SendWhileRefreshing(p, t) ==
    /\ phase[p] # "sending"
    /\ StartTurn(t)
    /\ phase' = [phase EXCEPT ![p] = "sending"]
    /\ sent' = [sent EXCEPT ![p] = {t}]
    /\ UNCHANGED <<usage, raced, viewVars>>

(* handleSend; the input is disabled while the page is pending.            *)
Send(p, t) ==
    /\ phase[p] = "ready"
    /\ StartTurn(t)
    /\ phase' = [phase EXCEPT ![p] = "sending"]
    /\ sent' = [sent EXCEPT ![p] = {t}]
    /\ UNCHANGED <<usage, raced, viewVars>>

(* A reply with status 200: the page asks for a summary and stays pending. *)
ReplyArrives(p) ==
    /\ \E t \in sent[p] : ShowsBalance(t)
    /\ Ask(Refresh(p))
    /\ phase' = [phase EXCEPT ![p] = "refreshing"]
    /\ sent' = [sent EXCEPT ![p] = {}]
    /\ raced' = [raced EXCEPT ![p] = viewAt[Mount(p)] # "idle"]
    /\ UNCHANGED <<vars, usage>>

(* An error reply, or none: the connection broke, be the turn over or not. *)
(* The page shows the error and asks for no summary.                       *)
SendFails(p) ==
    /\ sent[p] # {}
    /\ phase' = [phase EXCEPT ![p] = "ready"]
    /\ sent' = [sent EXCEPT ![p] = {}]
    /\ UNCHANGED <<usage, raced, vars, viewVars>>

(* refreshUsage returns, and with it handleSend if it was waiting for it.  *)
Settle(v) ==
    /\ viewAt' = [viewAt EXCEPT ![v] = "idle"]
    /\ phase' = [phase EXCEPT ![v[1]] = IF v = Refresh(v[1]) THEN "ready" ELSE @]
    /\ UNCHANGED <<vars, sent, raced, seenUsed, seenRows, known>>

ShowSummary(v) ==
    /\ viewAt[v] = "shown"
    /\ Settle(v)
    /\ usage' = [usage EXCEPT ![v[1]] = [used |-> seenUsed[v], rows |-> seenRows[v]]]

(* Mutant: pending is reset by the answer only, not in a finally block.    *)
KeepLastPending(v) ==
    /\ viewAt[v] \in {"shown", "failed"}
    /\ viewAt' = [viewAt EXCEPT ![v] = "idle"]
    /\ UNCHANGED <<vars, pageVars, seenUsed, seenRows, known>>

(* The request failed or its answer was lost: the last value stays.        *)
KeepLast(v) ==
    /\ viewAt[v] \in {"shown", "failed"}
    /\ Settle(v)
    /\ UNCHANGED usage

PageNext ==
    \/ /\ \E t \in Turns : Progress(t) \/ DatabaseFails(t) \/ CommitUnacknowledged(t)
       /\ UNCHANGED <<viewVars, pageVars>>
    \/ /\ CrashWithViewers \/ \E v \in Viewers : ReadUser(v) \/ ReadLedger(v) \/ SummaryFails(v)
       /\ UNCHANGED pageVars
    \/ \E p \in Pages : ReplyArrives(p) \/ SendFails(p)
    \/ \E p \in Pages, t \in Turns : Send(p, t)
    \/ \E v \in Viewers : ShowSummary(v) \/ KeepLast(v)

allVars == <<vars, viewVars, pageVars>>

PageSpec == PageInit /\ [][PageNext]_allVars

(* The turns go on as in ChatTurn; a summary is answered or fails; what    *)
(* the backend answered, or broke off, reaches the page (fetch settles).   *)
PageFairness ==
    /\ \A t \in Turns : WF_allVars(Progress(t) /\ UNCHANGED <<viewVars, pageVars>>)
    /\ \A v \in Viewers :
          /\ WF_allVars((ReadUser(v) \/ ReadLedger(v)) /\ UNCHANGED pageVars)
          /\ WF_allVars(ShowSummary(v) \/ KeepLast(v))
    /\ \A p \in Pages :
          /\ WF_allVars(ReplyArrives(p))
          /\ WF_allVars(SendFails(p) /\ \A t \in sent[p] : Over(t) /\ ~ShowsBalance(t))

FairPageSpec == PageSpec /\ PageFairness

(* What the page shows never goes back to an earlier state of the account, *)
(* neither the credits nor the requests counted: refreshing is awaited     *)
(* before the next turn, so refreshes after replies do not overlap. Only   *)
(* one that overlaps with the request of the mount can be overtaken by it, *)
(* or overtake it, and bring an older summary last.                        *)
DisplayGoesBackOnRaceOnly ==
    [][ \A p \in Pages :
            \/ raced[p]
            \/ usage'[p].used >= usage[p].used /\ usage[p].rows \subseteq usage'[p].rows
      ]_allVars

(* A page does not stay pending: whatever becomes of the turn, of its      *)
(* reply and of the refresh after it, the input is enabled again.          *)
EverySendSettles == \A p \in Pages : phase[p] # "ready" ~> phase[p] = "ready"

(***************************************************************************)
(* The inductive invariant behind the safety properties                    *)
(***************************************************************************)
(* A page that waits for a refresh has one, and no other page has.         *)
RefreshInv == \A p \in Pages : phase[p] = "refreshing" <=> viewAt[Refresh(p)] # "idle"

(* The page shows the account as it was; without a race the mount's        *)
(* summary is the first, and a refresh reads what is at least as new.      *)
DisplayInv ==
    \A p \in Pages :
        /\ usage[p].used <= used /\ usage[p].rows \subseteq ledger
        /\ ~raced[p] =>
              /\ viewAt[Mount(p)] # "idle" => usage[p] = NoUsage /\ viewAt[Refresh(p)] = "idle"
              /\ viewAt[Refresh(p)] \in {"ledger", "shown"} => usage[p].used <= seenUsed[Refresh(p)]
              /\ viewAt[Refresh(p)] = "shown" => usage[p].rows \subseteq seenRows[Refresh(p)]

PageInv ==
    /\ PageTypeOK
    /\ RefreshInv
    /\ SummaryInv
    /\ SummaryCoversBalance
    /\ SummaryIncludesAnsweredTurns
    /\ DisplayInv
=============================================================================
