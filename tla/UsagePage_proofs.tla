-------------------------- MODULE UsagePage_proofs --------------------------
(***************************************************************************)
(* Theorems about the usage summary and the chat page, for every number of *)
(* pages and turns: the turns behind the page are those of ChatTurn, so    *)
(* what is proved of them is cited here, and what a page shows follows.    *)
(***************************************************************************)
EXTENDS UsagePage, ChatTurn_proofs

(***************************************************************************)
(* The turns behind the page                                               *)
(***************************************************************************)
(* A page starts turns and reads; all else is a step of the backend.       *)
LEMMA PageStepsTurns == ASSUME [PageNext]_allVars PROVE [Next]_vars
<1>1. ASSUME NEW t \in Turns, Progress(t) \/ DatabaseFails(t) \/ CommitUnacknowledged(t)
      PROVE  Next
  BY <1>1 DEF Next
<1>2. CrashWithViewers => Next
  BY DEF CrashWithViewers, Next
<1>3. ASSUME NEW v \in Viewers, ReadUser(v) \/ ReadLedger(v) \/ SummaryFails(v)
      PROVE  UNCHANGED vars
  BY <1>3 DEF ReadUser, ReadLedger, SummaryFails
<1>4. ASSUME NEW p \in Pages, ReplyArrives(p) \/ SendFails(p) PROVE UNCHANGED vars
  BY <1>4 DEF ReplyArrives, SendFails
<1>5. ASSUME NEW p \in Pages, NEW t \in Turns, Send(p, t) PROVE Next
  BY <1>5 DEF Send, Next
<1>6. ASSUME NEW v \in Viewers, ShowSummary(v) \/ KeepLast(v) PROVE UNCHANGED vars
  BY <1>6 DEF ShowSummary, KeepLast, Settle
<1>7. UNCHANGED allVars => UNCHANGED vars
  BY DEF allVars
<1> QED
  BY <1>1, <1>2, <1>3, <1>4, <1>5, <1>6, <1>7 DEF PageNext

(* Whatever pages do, the turns behind them behave as those of ChatTurn:   *)
(* each of its theorems holds behind the page too.                         *)
THEOREM PageRunsTurns == PageSpec => Spec
<1>1. PageInit => Init
  BY DEF PageInit
<1>2. [PageNext]_allVars => [Next]_vars
  BY PageStepsTurns
<1> QED
  BY <1>1, <1>2, PTL DEF PageSpec, Spec

(* What an answered turn and a growing account mean for a reader.          *)
LEMMA AccountGrows ==
  ASSUME IndInv, LedgerInv, [Next]_vars
  PROVE  /\ used <= used' /\ used \in Nat /\ used' \in Nat
         /\ ledger \subseteq ledger' /\ ledger' \subseteq Entry
         /\ \A t \in Turns : reply[t] = "answered" =>
               reply'[t] = "answered" /\ \A e \in ledger' : e.turn = t => e \in ledger
<1>1. TypeOK /\ TurnInv /\ TypeOK'
  BY IndStep DEF IndInv
<1>2. used \in Nat /\ used' \in Nat /\ ledger' \subseteq Entry
  BY <1>1 DEF TypeOK
<1>3. ASSUME NEW t \in Turns, reply[t] = "answered" PROVE reply'[t] = "answered"
  <2>1. at[t] = "end"
    BY <1>1, <1>3 DEF TurnInv
  <2> QED
    BY <1>1, <1>3, <2>1 DEF Next, Progress, Quiet, StartTurn, AnalyzeQuestion, PrecheckCredits,
       RetrieveKnowledge, NoKnowledge, BuildContext, CheckCredits, GenerateAnswer,
       UsageAccounting, CommitUsage, ReadBack, DatabaseFails, CommitUnacknowledged, Crash,
       CreditCheck, Goto, Finish, Reject, ReadBalance, Respond, QueryNodes, replyVars, vars, TypeOK
<1>4. CASE UNCHANGED dbVars
  BY <1>2, <1>3, <1>4 DEF dbVars
<1>5. ASSUME NEW s \in Turns, at[s] = "usage_commit", Commit(s)
      PROVE  /\ used <= used' /\ ledger \subseteq ledger'
             /\ \A t \in Turns : reply[t] = "answered" =>
                   \A e \in ledger' : e.turn = t => e \in ledger
  <2>1. /\ ledger' = ledger \union {[turn |-> s, credits |-> charge[s]]}
        /\ used' = used + charge[s] /\ charge[s] \in Nat
    BY <1>1, <1>5, AmountsAssumption DEF IndInv, LockInv, Commit, TypeOK
  <2>2. reply[s] = "none"
    BY <1>1, <1>5 DEF TurnInv
  <2> QED
    BY <1>2, <2>1, <2>2
<1> QED
  BY <1>2, <1>3, <1>4, <1>5, OnlyCommits

(***************************************************************************)
(* Summaries                                                               *)
(***************************************************************************)
(* What the invariants say of one request for a summary.                   *)
ViewerInv(v) ==
    /\ known[v] \subseteq {t \in Turns : reply[t] = "answered"}
    /\ seenUsed[v] <= used /\ seenRows[v] \subseteq ledger
    /\ viewAt[v] \in {"ledger", "shown"} => CreditsOf(Before(v)) <= seenUsed[v]
    /\ viewAt[v] = "shown" =>
          Before(v) \subseteq seenRows[v] /\ seenUsed[v] <= CreditsOf(seenRows[v])

LEMMA ViewersAre ==
  (\A v \in Viewers : ViewerInv(v)) <=>
      SummaryInv /\ SummaryCoversBalance /\ SummaryIncludesAnsweredTurns
BY DEF ViewerInv, SummaryInv, SummaryCoversBalance, SummaryIncludesAnsweredTurns

(* Turns go on; a reader that reads nothing keeps what it has read.        *)
LEMMA ReaderKeeps ==
  ASSUME IndInv, LedgerInv, SummaryTypeOK, [Next]_vars, NEW v \in Viewers, ViewerInv(v),
         seenUsed'[v] = seenUsed[v], seenRows'[v] = seenRows[v], known'[v] = known[v],
         viewAt'[v] = viewAt[v] \/ viewAt'[v] \notin {"ledger", "shown"}
  PROVE  ViewerInv(v)'
<1>1. Before(v)' = Before(v)
  BY AccountGrows DEF ViewerInv, Before
<1>2. seenUsed[v] \in Nat
  BY DEF SummaryTypeOK
<1>3. seenUsed[v] <= used'
  BY <1>2, AccountGrows DEF ViewerInv
<1>4. /\ known'[v] \subseteq {t \in Turns : reply'[t] = "answered"}
      /\ seenRows'[v] \subseteq ledger'
  BY AccountGrows DEF ViewerInv
<1>5. CreditsOf(Before(v))' = CreditsOf(Before(v)) /\ CreditsOf(seenRows[v])' = CreditsOf(seenRows[v])
  BY <1>1 DEF CreditsOf
<1> QED
  BY <1>1, <1>3, <1>4, <1>5 DEF ViewerInv

(* The user row is read: what was charged before the request is in it.     *)
LEMMA ReadUserSees ==
  ASSUME IndInv, LedgerInv, SummaryTypeOK, NEW v \in Viewers, ViewerInv(v), ReadUser(v)
  PROVE  ViewerInv(v)'
<1>1. /\ viewAt'[v] = "ledger" /\ seenUsed'[v] = used /\ UNCHANGED <<vars, seenRows, known>>
  BY DEF ReadUser, SummaryTypeOK
<1>2. UNCHANGED <<used, ledger, reply>>
  BY <1>1 DEF vars, dbVars, replyVars
<1>3. CreditsOf(Before(v)) <= used
  BY CreditsOfSome DEF LedgerInv, LedgerMatchesBalance, Before
<1>4. used \in Nat
  BY DEF IndInv, TypeOK
<1>5. Before(v)' = Before(v)
  BY <1>1, <1>2 DEF Before
<1>6. CreditsOf(Before(v))' = CreditsOf(Before(v))
  BY <1>5 DEF CreditsOf
<1> QED
  BY <1>1, <1>2, <1>3, <1>4, <1>5, <1>6 DEF ViewerInv

(* The rows are read: they account for at least what the balance showed.   *)
LEMMA ReadLedgerSees ==
  ASSUME IndInv, LedgerInv, SummaryTypeOK, NEW v \in Viewers, ViewerInv(v), ReadLedger(v)
  PROVE  ViewerInv(v)'
<1>1. /\ viewAt[v] = "ledger" /\ viewAt'[v] = "shown" /\ seenRows'[v] = ledger
      /\ UNCHANGED <<vars, seenUsed, known>>
  BY DEF ReadLedger, SummaryTypeOK
<1>2. UNCHANGED <<used, ledger, reply>>
  BY <1>1 DEF vars, dbVars, replyVars
<1>3. Before(v)' = Before(v) /\ Before(v) \subseteq ledger
  BY <1>1, <1>2 DEF Before
<1>4. CreditsOf(Before(v))' = CreditsOf(Before(v)) /\ CreditsOf(seenRows[v])' = used
  BY <1>1, <1>3 DEF CreditsOf, LedgerInv, LedgerMatchesBalance
<1> QED
  BY <1>1, <1>2, <1>3, <1>4 DEF ViewerInv

(* A request is sent: nothing is read yet.                                 *)
LEMMA AskSees ==
  ASSUME IndInv, LedgerInv, SummaryTypeOK, NEW v \in Viewers, ViewerInv(v), Ask(v), UNCHANGED vars
  PROVE  ViewerInv(v)'
<1>1. /\ viewAt'[v] = "asked" /\ known'[v] = {t \in Turns : reply[t] = "answered"}
      /\ seenUsed' = seenUsed /\ seenRows' = seenRows
  BY DEF Ask, SummaryTypeOK
<1>2. UNCHANGED <<used, ledger, reply>>
  BY DEF vars, dbVars, replyVars
<1> QED
  BY <1>1, <1>2 DEF ViewerInv

(* What a step of the page or of the backend is to a reader.               *)
LEMMA ReaderSteps ==
  ASSUME SummaryTypeOK, [PageNext]_allVars, NEW v \in Viewers
  PROVE  \/ ReadUser(v) \/ ReadLedger(v)
         \/ Ask(v) /\ UNCHANGED vars
         \/ /\ seenUsed'[v] = seenUsed[v] /\ seenRows'[v] = seenRows[v] /\ known'[v] = known[v]
            /\ viewAt'[v] = viewAt[v] \/ viewAt'[v] \notin {"ledger", "shown"}
<1> DEFINE Keeps ==
       /\ seenUsed'[v] = seenUsed[v] /\ seenRows'[v] = seenRows[v] /\ known'[v] = known[v]
       /\ viewAt'[v] = viewAt[v] \/ viewAt'[v] \notin {"ledger", "shown"}
<1>1. UNCHANGED viewVars => Keeps
  BY DEF viewVars
<1>2. CrashWithViewers => Keeps
  BY DEF CrashWithViewers
<1>3. ASSUME NEW w \in Viewers, ReadUser(w) PROVE ReadUser(v) \/ Keeps
  BY <1>3 DEF ReadUser, SummaryTypeOK
<1>4. ASSUME NEW w \in Viewers, ReadLedger(w) PROVE ReadLedger(v) \/ Keeps
  BY <1>4 DEF ReadLedger, SummaryTypeOK
<1>5. ASSUME NEW w \in Viewers, SummaryFails(w) PROVE Keeps
  BY <1>5 DEF SummaryFails, SummaryTypeOK
<1>6. ASSUME NEW p \in Pages, ReplyArrives(p) PROVE (Ask(v) /\ UNCHANGED vars) \/ Keeps
  BY <1>6 DEF ReplyArrives, Ask, SummaryTypeOK
<1>7. ASSUME NEW p \in Pages, SendFails(p) PROVE Keeps
  BY <1>1, <1>7 DEF SendFails
<1>8. ASSUME NEW p \in Pages, NEW t \in Turns, Send(p, t) PROVE Keeps
  BY <1>1, <1>8 DEF Send
<1>9. ASSUME NEW w \in Viewers, ShowSummary(w) \/ KeepLast(w) PROVE Keeps
  BY <1>9 DEF ShowSummary, KeepLast, Settle, SummaryTypeOK
<1>10. UNCHANGED allVars => Keeps
  BY <1>1 DEF allVars
<1> HIDE DEF Keeps
<1>11. ReadUser(v) \/ ReadLedger(v) \/ (Ask(v) /\ UNCHANGED vars) \/ Keeps
  BY <1>1, <1>2, <1>3, <1>4, <1>5, <1>6, <1>7, <1>8, <1>9, <1>10 DEF PageNext
<1> QED
  BY <1>11 DEF Keeps

LEMMA SummaryStep ==
  ASSUME IndInv, LedgerInv, PageInv, [PageNext]_allVars
  PROVE  (SummaryInv /\ SummaryCoversBalance /\ SummaryIncludesAnsweredTurns)'
<1>1. SummaryTypeOK /\ \A v \in Viewers : ViewerInv(v)
  BY ViewersAre DEF PageInv, PageTypeOK
<1>2. [Next]_vars
  BY PageStepsTurns
<1>3. ASSUME NEW v \in Viewers PROVE ViewerInv(v)'
  BY <1>1, <1>2, <1>3, ReaderSteps, ReaderKeeps, ReadUserSees, ReadLedgerSees, AskSees
<1> QED
  BY <1>3 DEF ViewerInv, SummaryInv, SummaryCoversBalance, SummaryIncludesAnsweredTurns

(***************************************************************************)
(* The page                                                                *)
(***************************************************************************)
(* The two requests of a page, and whose they are.                         *)
LEMMA Requests ==
  /\ \A p \in Pages : Mount(p) \in Viewers /\ Refresh(p) \in Viewers /\ Mount(p) # Refresh(p)
  /\ \A p, q \in Pages : /\ Mount(p) = Mount(q) => p = q
                         /\ Refresh(p) = Refresh(q) => p = q
                         /\ Mount(p) # Refresh(q)
  /\ \A p \in Pages : Mount(p)[1] = p /\ Refresh(p)[1] = p
  /\ \A v \in Viewers : /\ v[1] \in Pages /\ (v = Mount(v[1]) \/ v = Refresh(v[1]))
                        /\ (v[2] = "mount" <=> v = Mount(v[1]))
BY PagesAssumption DEF Mount, Refresh

LEMMA PageInitially == PageInit => PageInv /\ IndInv /\ LedgerInv
<1> SUFFICES ASSUME PageInit PROVE PageInv /\ IndInv /\ LedgerInv
  OBVIOUS
<1>1. Init /\ IndInv /\ LedgerInv
  BY IndInit, LedgerInit DEF PageInit
<1>2. used = 0 /\ ledger = {}
  BY <1>1 DEF Init
<1>3. /\ viewAt \in [Viewers -> {"idle", "asked"}]
      /\ \A v \in Viewers : seenUsed[v] = 0 /\ seenRows[v] = {} /\ known[v] = {}
      /\ \A p \in Pages : viewAt[Mount(p)] = "asked" /\ viewAt[Refresh(p)] = "idle"
  BY Requests DEF PageInit, SummaryInit, Mount, Refresh
<1>4. SummaryTypeOK
  BY DEF PageInit, SummaryInit, SummaryTypeOK
<1>5. PageTypeOK
  BY <1>4 DEF PageInit, PageTypeOK, NoUsage
<1>6. RefreshInv /\ DisplayInv
  BY <1>2, <1>3 DEF PageInit, RefreshInv, DisplayInv, NoUsage
<1>7. \A v \in Viewers : viewAt[v] \notin {"ledger", "shown"}
  BY <1>3
<1>8. SummaryInv /\ SummaryCoversBalance /\ SummaryIncludesAnsweredTurns
  BY <1>2, <1>3, <1>7 DEF SummaryInv, SummaryCoversBalance, SummaryIncludesAnsweredTurns
<1> QED
  BY <1>1, <1>5, <1>6, <1>8 DEF PageInv

(* The requests of the pages, one step on.                                 *)
LEMMA SummaryTypeStep ==
  ASSUME IndInv, SummaryTypeOK, [PageNext]_allVars PROVE SummaryTypeOK'
<1> USE DEF SummaryTypeOK
<1>1. used \in Nat /\ ledger \in SUBSET Entry
  BY DEF IndInv, TypeOK
<1>2. UNCHANGED viewVars => SummaryTypeOK'
  BY DEF viewVars, Entry
<1>3. CrashWithViewers => SummaryTypeOK'
  BY DEF CrashWithViewers, Entry
<1>4. ASSUME NEW w \in Viewers, ReadUser(w) \/ ReadLedger(w) \/ SummaryFails(w)
      PROVE  SummaryTypeOK'
  BY <1>1, <1>4 DEF ReadUser, ReadLedger, SummaryFails, Entry
<1>5. ASSUME NEW w \in Viewers, ShowSummary(w) \/ KeepLast(w) PROVE SummaryTypeOK'
  BY <1>5 DEF ShowSummary, KeepLast, Settle, Entry
<1>6. ASSUME NEW p \in Pages, ReplyArrives(p) PROVE SummaryTypeOK'
  BY <1>6 DEF ReplyArrives, Ask, Entry
<1>7. ASSUME NEW p \in Pages, SendFails(p) PROVE SummaryTypeOK'
  BY <1>2, <1>7 DEF SendFails
<1>8. ASSUME NEW p \in Pages, NEW t \in Turns, Send(p, t) PROVE SummaryTypeOK'
  BY <1>2, <1>8 DEF Send
<1>9. UNCHANGED allVars => SummaryTypeOK'
  BY <1>2 DEF allVars
<1> QED
  BY <1>2, <1>3, <1>4, <1>5, <1>6, <1>7, <1>8, <1>9 DEF PageNext

(* A page that settles a refresh was waiting for it, not for a reply.      *)
LEMMA PageTypeStep ==
  ASSUME IndInv, PageTypeOK, RefreshInv, [PageNext]_allVars PROVE PageTypeOK'
<1> DEFINE Types ==
       /\ phase' \in [Pages -> {"ready", "sending", "refreshing"}]
       /\ sent' \in [Pages -> SUBSET Turns]
       /\ \A p \in Pages :
             IF phase'[p] = "sending" THEN \E t \in Turns : sent'[p] = {t} ELSE sent'[p] = {}
       /\ usage' \in [Pages -> [used : Nat, rows : SUBSET Entry]]
       /\ raced' \in [Pages -> BOOLEAN]
<1>1. SummaryTypeOK /\ SummaryTypeOK'
  BY SummaryTypeStep DEF PageTypeOK
<1>2. UNCHANGED pageVars => Types
  BY DEF pageVars, PageTypeOK
<1>4. ASSUME NEW p \in Pages, NEW t \in Turns, Send(p, t) PROVE Types
  BY <1>4 DEF Send, PageTypeOK
<1>5. ASSUME NEW p \in Pages, ReplyArrives(p) PROVE Types
  BY <1>5 DEF ReplyArrives, PageTypeOK
<1>6. ASSUME NEW p \in Pages, SendFails(p) PROVE Types
  BY <1>6 DEF SendFails, PageTypeOK
<1>7. ASSUME NEW v \in Viewers, ShowSummary(v) \/ KeepLast(v) PROVE Types
  <2>1. PICK p \in Pages : p = v[1] /\ (v = Mount(p) \/ v = Refresh(p))
    BY Requests
  <2>2. /\ phase' = [phase EXCEPT ![p] = IF v = Refresh(p) THEN "ready" ELSE @]
        /\ sent' = sent /\ raced' = raced
    BY <1>7, <2>1 DEF ShowSummary, KeepLast, Settle
  <2>3. v = Refresh(p) => phase[p] = "refreshing"
    BY <1>7, <2>1 DEF ShowSummary, KeepLast, RefreshInv
  <2>4. usage' \in [Pages -> [used : Nat, rows : SUBSET Entry]]
    <3>1. /\ usage \in [Pages -> [used : Nat, rows : SUBSET Entry]]
          /\ seenUsed \in [Viewers -> Nat] /\ seenRows \in [Viewers -> SUBSET Entry]
      BY <1>1 DEF PageTypeOK, SummaryTypeOK
    <3>2. \/ usage' = usage
          \/ usage' = [usage EXCEPT ![p] = [used |-> seenUsed[v], rows |-> seenRows[v]]]
      BY <1>7, <2>1 DEF ShowSummary, KeepLast
    <3> QED
      BY <3>1, <3>2
  <2>5. phase' \in [Pages -> {"ready", "sending", "refreshing"}]
    BY <2>2 DEF PageTypeOK
  <2>6. raced' \in [Pages -> BOOLEAN] /\ sent' \in [Pages -> SUBSET Turns]
    BY <2>2 DEF PageTypeOK
  <2>7. ASSUME NEW q \in Pages
        PROVE  IF phase'[q] = "sending" THEN \E t \in Turns : sent'[q] = {t} ELSE sent'[q] = {}
    <3>1. phase'[q] = "sending" <=> phase[q] = "sending"
      BY <2>2, <2>3 DEF PageTypeOK
    <3> QED
      BY <2>2, <3>1 DEF PageTypeOK
  <2> QED
    BY <2>4, <2>5, <2>6, <2>7
<1> HIDE DEF Types
<1>8. Types
  <2>1. UNCHANGED allVars => UNCHANGED pageVars
    BY DEF allVars
  <2> QED
    BY <1>2, <1>4, <1>5, <1>6, <1>7, <2>1 DEF PageNext
<1> QED
  BY <1>1, <1>8 DEF Types, PageTypeOK, Entry

(* What each step leaves of the requests and of the display of a page.     *)
LEMMA RefreshStep ==
  ASSUME PageTypeOK, RefreshInv, [PageNext]_allVars PROVE RefreshInv'
<1> USE DEF RefreshInv, PageTypeOK, SummaryTypeOK
<1>0. \A p \in Pages : <<p, "reply">> \in Viewers
  BY PagesAssumption
<1>1. UNCHANGED <<viewVars, pageVars>> => RefreshInv'
  BY DEF viewVars, pageVars, Refresh
<1>2. CrashWithViewers /\ UNCHANGED pageVars => RefreshInv'
  BY <1>0 DEF CrashWithViewers, pageVars, Refresh
<1>3. ASSUME NEW w \in Viewers, ReadUser(w) \/ ReadLedger(w) \/ SummaryFails(w), UNCHANGED pageVars
      PROVE  RefreshInv'
  BY <1>0, <1>3 DEF ReadUser, ReadLedger, SummaryFails, pageVars, Refresh
<1>4. ASSUME NEW p \in Pages, ReplyArrives(p) PROVE RefreshInv'
  BY <1>4, Requests DEF ReplyArrives, Ask, Refresh
<1>5. ASSUME NEW p \in Pages, SendFails(p) PROVE RefreshInv'
  <2>1. phase[p] = "sending"
    BY <1>5 DEF SendFails
  <2> QED
    BY <1>5, <2>1 DEF SendFails, viewVars, Refresh
<1>6. ASSUME NEW p \in Pages, NEW t \in Turns, Send(p, t) PROVE RefreshInv'
  BY <1>6 DEF Send, viewVars, Refresh
<1>7. ASSUME NEW v \in Viewers, ShowSummary(v) \/ KeepLast(v) PROVE RefreshInv'
  <2>1. /\ viewAt' = [viewAt EXCEPT ![v] = "idle"]
        /\ phase' = [phase EXCEPT ![v[1]] = IF v = Refresh(v[1]) THEN "ready" ELSE @]
    BY <1>7 DEF ShowSummary, KeepLast, Settle
  <2>2. ASSUME NEW p \in Pages PROVE (phase[p] = "refreshing" <=> viewAt[Refresh(p)] # "idle")'
    <3>1. CASE v = Refresh(p)
      BY <2>1, <3>1, Requests DEF Refresh
    <3>2. CASE v # Refresh(p)
      <4>1. phase'[p] = phase[p]
        BY <2>1, <3>2, Requests
      <4> QED
        BY <2>1, <3>2, <4>1, Requests DEF Refresh
    <3> QED
      BY <3>1, <3>2
  <2> QED
    BY <2>2
<1>8. UNCHANGED allVars => UNCHANGED <<viewVars, pageVars>>
  BY DEF allVars
<1> QED
  BY <1>1, <1>2, <1>3, <1>4, <1>5, <1>6, <1>7, <1>8 DEF PageNext

(* What DisplayInv says of one page.                                       *)
DisplayOf(p) ==
    /\ usage[p].used <= used /\ usage[p].rows \subseteq ledger
    /\ ~raced[p] =>
          /\ viewAt[Mount(p)] # "idle" => usage[p] = NoUsage /\ viewAt[Refresh(p)] = "idle"
          /\ viewAt[Refresh(p)] \in {"ledger", "shown"} => usage[p].used <= seenUsed[Refresh(p)]
          /\ viewAt[Refresh(p)] = "shown" => usage[p].rows \subseteq seenRows[Refresh(p)]

(* The account goes on, and the display stays.                             *)
LEMMA DisplayStays ==
  ASSUME PageTypeOK, NEW p \in Pages, DisplayOf(p), UNCHANGED <<usage, raced>>,
         used \in Nat, used' \in Nat, used <= used', ledger \subseteq ledger',
         \A v \in {Mount(p), Refresh(p)} :
            /\ seenUsed'[v] = seenUsed[v] /\ seenRows'[v] = seenRows[v]
            /\ viewAt'[v] = viewAt[v] \/ (viewAt[v] # "idle" /\ viewAt'[v] \in {"idle", "failed"})
  PROVE  DisplayOf(p)'
<1>1. usage[p].used \in Nat /\ usage'[p] = usage[p] /\ raced'[p] = raced[p]
  BY DEF PageTypeOK
<1>2. usage[p].used <= used' /\ usage[p].rows \subseteq ledger'
  BY <1>1 DEF DisplayOf
<1>3. /\ viewAt'[Mount(p)] # "idle" => viewAt[Mount(p)] # "idle"
      /\ viewAt[Refresh(p)] = "idle" => viewAt'[Refresh(p)] = "idle"
      /\ viewAt'[Refresh(p)] \in {"ledger", "shown"} => viewAt'[Refresh(p)] = viewAt[Refresh(p)]
  OBVIOUS
<1>4. /\ seenUsed'[Refresh(p)] = seenUsed[Refresh(p)]
      /\ seenRows'[Refresh(p)] = seenRows[Refresh(p)]
  OBVIOUS
<1> QED
  BY <1>1, <1>2, <1>3, <1>4 DEF DisplayOf, Mount, Refresh, NoUsage

(* A refresh reads an account at least as new as what is on display.       *)
LEMMA DisplayRead ==
  ASSUME PageTypeOK, NEW p \in Pages, DisplayOf(p), UNCHANGED <<vars, usage, raced>>,
         NEW w \in Viewers, ReadUser(w) \/ ReadLedger(w) \/ SummaryFails(w)
  PROVE  DisplayOf(p)'
<1>1. UNCHANGED <<used, ledger>>
  BY DEF vars, dbVars
<1>2. Mount(p) \in Viewers /\ Refresh(p) \in Viewers
  BY Requests
<1>3. ASSUME NEW v \in Viewers
      PROVE  /\ viewAt'[v] = "idle" <=> viewAt[v] = "idle"
             /\ \/ /\ viewAt'[v] = viewAt[v] \/ viewAt'[v] = "failed"
                   /\ seenUsed'[v] = seenUsed[v] /\ seenRows'[v] = seenRows[v]
                \/ viewAt'[v] = "ledger" /\ seenUsed'[v] = used
                \/ /\ viewAt[v] = "ledger"
                   /\ viewAt'[v] = "shown" /\ seenUsed'[v] = seenUsed[v] /\ seenRows'[v] = ledger
  BY <1>3 DEF ReadUser, ReadLedger, SummaryFails, PageTypeOK, SummaryTypeOK
<1> QED
  BY <1>1, <1>2, <1>3 DEF DisplayOf, Mount, Refresh, NoUsage

(* Only a refresh begins, and then it is known whether the mount's request *)
(* is still on its way.                                                    *)
LEMMA DisplayAsked ==
  ASSUME PageTypeOK, NEW p \in Pages, DisplayOf(p), NEW q \in Pages, ReplyArrives(q)
  PROVE  DisplayOf(p)'
<1>1. /\ UNCHANGED <<vars, usage, seenUsed, seenRows>>
      /\ viewAt' = [viewAt EXCEPT ![Refresh(q)] = "asked"]
      /\ raced' = [raced EXCEPT ![q] = viewAt[Mount(q)] # "idle"]
  BY DEF ReplyArrives, Ask
<1>2. UNCHANGED <<used, ledger>>
  BY <1>1 DEF vars, dbVars
<1>3. /\ Mount(p) \in Viewers /\ Refresh(p) \in Viewers /\ Refresh(q) # Mount(p)
      /\ Refresh(q) = Refresh(p) => q = p
  BY Requests
<1>4. viewAt'[Mount(p)] = viewAt[Mount(p)]
  BY <1>1, <1>3 DEF PageTypeOK, SummaryTypeOK
<1>5. CASE q = p
  <2>1. viewAt'[Refresh(p)] = "asked" /\ raced'[p] = (viewAt[Mount(p)] # "idle")
    BY <1>1, <1>3, <1>5 DEF PageTypeOK, SummaryTypeOK
  <2> QED
    BY <1>1, <1>2, <1>4, <2>1 DEF DisplayOf, Mount, Refresh, NoUsage
<1>6. CASE q # p
  <2>1. viewAt'[Refresh(p)] = viewAt[Refresh(p)] /\ raced'[p] = raced[p]
    BY <1>1, <1>3, <1>6 DEF PageTypeOK, SummaryTypeOK
  <2> QED
    BY <1>1, <1>2, <1>4, <2>1 DEF DisplayOf, Mount, Refresh, NoUsage
<1> QED
  BY <1>5, <1>6

(* A summary is shown: that of the mount on an empty page, or a refresh    *)
(* that is no older than the page, unless the two raced.                   *)
LEMMA DisplayShown ==
  ASSUME PageTypeOK, NEW p \in Pages, DisplayOf(p), NEW v \in Viewers, ShowSummary(v),
         seenUsed[v] <= used, seenRows[v] \subseteq ledger
  PROVE  /\ DisplayOf(p)'
         /\ \/ raced[p]
            \/ usage'[p].used >= usage[p].used /\ usage[p].rows \subseteq usage'[p].rows
<1>1. /\ viewAt[v] = "shown" /\ viewAt' = [viewAt EXCEPT ![v] = "idle"]
      /\ usage' = [usage EXCEPT ![v[1]] = [used |-> seenUsed[v], rows |-> seenRows[v]]]
      /\ UNCHANGED <<vars, raced, seenUsed, seenRows>>
  BY DEF ShowSummary, Settle
<1>2. UNCHANGED <<used, ledger>>
  BY <1>1 DEF vars, dbVars
<1>3. /\ Mount(p) \in Viewers /\ Refresh(p) \in Viewers /\ Mount(p) # Refresh(p)
      /\ v[1] = p => v = Mount(p) \/ v = Refresh(p)
      /\ v[1] # p => v # Mount(p) /\ v # Refresh(p)
  BY Requests
<1>4. seenUsed[v] \in Nat /\ usage[p].used \in Nat
  BY DEF PageTypeOK, SummaryTypeOK
<1>5. CASE v[1] # p
  <2>1. /\ usage'[p] = usage[p] /\ viewAt'[Mount(p)] = viewAt[Mount(p)]
        /\ viewAt'[Refresh(p)] = viewAt[Refresh(p)]
    BY <1>1, <1>3, <1>5 DEF PageTypeOK, SummaryTypeOK
  <2> QED
    BY <1>1, <1>2, <1>4, <2>1 DEF DisplayOf, Mount, Refresh, NoUsage
<1>6. CASE v[1] = p
  <2>1. usage'[p].used = seenUsed[v] /\ usage'[p].rows = seenRows[v]
    BY <1>1, <1>6 DEF PageTypeOK
  <2>2. CASE v = Mount(p)
    <3>1. viewAt'[Mount(p)] = "idle" /\ viewAt'[Refresh(p)] = viewAt[Refresh(p)]
      BY <1>1, <1>3, <2>2 DEF PageTypeOK, SummaryTypeOK
    <3>2. ~raced[p] => usage[p] = NoUsage /\ viewAt[Refresh(p)] = "idle"
      BY <1>1, <2>2 DEF DisplayOf
    <3>3. ~raced[p] => usage[p].used = 0 /\ usage[p].rows = {}
      BY <3>2 DEF NoUsage
    <3> QED
      BY <1>1, <1>2, <1>4, <2>1, <3>1, <3>2, <3>3 DEF DisplayOf, Mount, Refresh
  <2>3. CASE v = Refresh(p)
    <3>1. viewAt'[Refresh(p)] = "idle" /\ viewAt'[Mount(p)] = viewAt[Mount(p)]
      BY <1>1, <1>3, <2>3 DEF PageTypeOK, SummaryTypeOK
    <3>2. ~raced[p] => /\ viewAt[Mount(p)] = "idle"
                       /\ usage[p].used <= seenUsed[v] /\ usage[p].rows \subseteq seenRows[v]
      BY <1>1, <2>3 DEF DisplayOf
    <3> QED
      BY <1>1, <1>2, <1>4, <2>1, <3>1, <3>2 DEF DisplayOf, Mount, Refresh
  <2> QED
    BY <1>3, <1>6, <2>2, <2>3
<1> QED
  BY <1>5, <1>6

(* The display of a page, one step on: it goes back on a race only.        *)
LEMMA DisplayStep ==
  ASSUME IndInv, LedgerInv, PageInv, [PageNext]_allVars, NEW p \in Pages
  PROVE  /\ DisplayOf(p)'
         /\ \/ raced[p]
            \/ usage'[p].used >= usage[p].used /\ usage[p].rows \subseteq usage'[p].rows
<1> DEFINE Rises ==
       \/ raced[p]
       \/ usage'[p].used >= usage[p].used /\ usage[p].rows \subseteq usage'[p].rows
<1>1. PageTypeOK /\ SummaryTypeOK /\ DisplayOf(p)
  BY DEF PageInv, PageTypeOK, DisplayInv, DisplayOf
<1>2. used \in Nat /\ used' \in Nat /\ used <= used' /\ ledger \subseteq ledger'
  BY PageStepsTurns, AccountGrows
<1>3. Mount(p) \in Viewers /\ Refresh(p) \in Viewers
  BY Requests
<1>4. usage' = usage => Rises
  BY <1>1 DEF PageTypeOK
<1> HIDE DEF Rises
<1>5. UNCHANGED <<viewVars, usage, raced>> => DisplayOf(p)'
  BY <1>1, <1>2, DisplayStays DEF viewVars
<1>6. CrashWithViewers /\ UNCHANGED pageVars => DisplayOf(p)' /\ Rises
  <2> SUFFICES ASSUME CrashWithViewers, UNCHANGED pageVars PROVE DisplayOf(p)' /\ Rises
    OBVIOUS
  <2>1. UNCHANGED <<usage, raced, seenUsed, seenRows>>
    BY DEF CrashWithViewers, pageVars
  <2>2. \A v \in {Mount(p), Refresh(p)} :
           viewAt'[v] = viewAt[v] \/ (viewAt[v] # "idle" /\ viewAt'[v] \in {"idle", "failed"})
    BY <1>3 DEF CrashWithViewers
  <2> QED
    BY <1>1, <1>2, <1>4, <2>1, <2>2, DisplayStays
<1>7. ASSUME NEW v \in Viewers, ReadUser(v) \/ ReadLedger(v) \/ SummaryFails(v), UNCHANGED pageVars
      PROVE  DisplayOf(p)' /\ Rises
  <2>1. UNCHANGED <<vars, usage, raced>>
    BY <1>7 DEF ReadUser, ReadLedger, SummaryFails, pageVars
  <2> QED
    BY <1>1, <1>4, <1>7, <2>1, DisplayRead
<1>8. ASSUME NEW q \in Pages, ReplyArrives(q) PROVE DisplayOf(p)' /\ Rises
  BY <1>1, <1>4, <1>8, DisplayAsked DEF ReplyArrives
<1>9. ASSUME NEW q \in Pages, SendFails(q) PROVE DisplayOf(p)' /\ Rises
  BY <1>4, <1>5, <1>9 DEF SendFails
<1>10. ASSUME NEW q \in Pages, NEW t \in Turns, Send(q, t) PROVE DisplayOf(p)' /\ Rises
  BY <1>4, <1>5, <1>10 DEF Send
<1>11. ASSUME NEW v \in Viewers, ShowSummary(v) PROVE DisplayOf(p)' /\ Rises
  BY <1>1, <1>11, DisplayShown DEF PageInv, SummaryInv, Rises
<1>12. ASSUME NEW v \in Viewers, KeepLast(v) PROVE DisplayOf(p)' /\ Rises
  <2>1. /\ UNCHANGED <<usage, raced, seenUsed, seenRows>>
        /\ viewAt[v] # "idle" /\ viewAt' = [viewAt EXCEPT ![v] = "idle"]
    BY <1>12 DEF KeepLast, Settle
  <2>2. \A w \in {Mount(p), Refresh(p)} :
           viewAt'[w] = viewAt[w] \/ (viewAt[w] # "idle" /\ viewAt'[w] \in {"idle", "failed"})
    BY <1>1, <1>3, <2>1 DEF SummaryTypeOK
  <2> QED
    BY <1>1, <1>2, <1>4, <2>1, <2>2, DisplayStays
<1>13. UNCHANGED <<viewVars, pageVars>> => DisplayOf(p)' /\ Rises
  BY <1>4, <1>5 DEF pageVars
<1>14. UNCHANGED allVars => UNCHANGED <<viewVars, pageVars>>
  BY DEF allVars
<1>15. DisplayOf(p)' /\ Rises
  BY <1>6, <1>7, <1>8, <1>9, <1>10, <1>11, <1>12, <1>13, <1>14 DEF PageNext
<1> QED
  BY <1>15 DEF Rises

(***************************************************************************)
(* The theorems                                                            *)
(***************************************************************************)
LEMMA PageStep ==
  ASSUME IndInv, LedgerInv, PageInv, [PageNext]_allVars PROVE (IndInv /\ LedgerInv /\ PageInv)'
<1>1. [Next]_vars
  BY PageStepsTurns
<1>2. IndInv' /\ LedgerInv'
  BY <1>1, IndStep, LedgerStep
<1>3. PageTypeOK' /\ RefreshInv'
  BY PageTypeStep, RefreshStep DEF PageInv
<1>4. DisplayInv'
  BY DisplayStep DEF DisplayOf, DisplayInv
<1> QED
  BY <1>2, <1>3, <1>4, SummaryStep DEF PageInv

(* PageInv is the inductive invariant, together with those of the turns.   *)
THEOREM PageInductive == PageSpec => [](IndInv /\ LedgerInv /\ PageInv)
<1>1. PageInit => IndInv /\ LedgerInv /\ PageInv
  BY PageInitially
<1>2. IndInv /\ LedgerInv /\ PageInv /\ [PageNext]_allVars => (IndInv /\ LedgerInv /\ PageInv)'
  BY PageStep
<1> QED
  BY <1>1, <1>2, PTL DEF PageSpec

(* A page has at most one turn on its way (handleSend while pending).      *)
THEOREM PageTypes == PageSpec => []PageTypeOK
<1>1. PageInv => PageTypeOK
  BY DEF PageInv
<1> QED
  BY <1>1, PageInductive, PTL

(* get_summary reads the user row first: the rows of its answer account    *)
(* for at least the credits it shows as used, whatever commits in between. *)
THEOREM SummariesCover == PageSpec => []SummaryCoversBalance
<1>1. PageInv => SummaryCoversBalance
  BY DEF PageInv
<1> QED
  BY <1>1, PageInductive, PTL

(* A summary asked for after a turn was answered has its row and charge.   *)
THEOREM SummariesInclude == PageSpec => []SummaryIncludesAnsweredTurns
<1>1. PageInv => SummaryIncludesAnsweredTurns
  BY DEF PageInv
<1> QED
  BY <1>1, PageInductive, PTL

(* The display goes back only where a refresh raced with the mount's       *)
(* request (useEffect and handleSend in ChatPage.tsx).                     *)
THEOREM DisplayAdvances == PageSpec => DisplayGoesBackOnRaceOnly
<1>1. IndInv /\ LedgerInv /\ PageInv /\ [PageNext]_allVars =>
         [ \A p \in Pages :
              \/ raced[p]
              \/ usage'[p].used >= usage[p].used /\ usage[p].rows \subseteq usage'[p].rows ]_allVars
  BY DisplayStep
<1> QED
  BY <1>1, PageInductive, PTL DEF PageSpec, DisplayGoesBackOnRaceOnly
=============================================================================
