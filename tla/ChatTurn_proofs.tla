--------------------------- MODULE ChatTurn_proofs ---------------------------
(***************************************************************************)
(* Theorems about ChatTurn, for every set of turns, every balance, pool    *)
(* size, set of estimates and bound on the charge.                         *)
(***************************************************************************)
EXTENDS ChatTurn, FiniteSetTheorems, TLAPS

(***************************************************************************)
(* Types                                                                   *)
(***************************************************************************)
(* Every variable starts with a value of its type.                         *)
LEMMA TypeInit == Init => TypeOK
  BY AmountsAssumption, DeploymentsAssumption
  DEF Init, TypeOK, Nodes, Replies, OwnReplies, Entry

(* No step of a turn, no failure and no crash takes a variable out of its  *)
(* type.                                                                   *)
LEMMA TypeStep == TypeOK /\ [Next]_vars => TypeOK'
  <1> SUFFICES ASSUME TypeOK, [Next]_vars PROVE TypeOK'
    OBVIOUS
  <1> USE DEF TypeOK, Nodes, Replies, OwnReplies, Entry, vars, turnVars, replyVars,
              logVars, dbVars, Goto, Finish, Reject, ReadBalance
  <1>1. ASSUME NEW t \in Turns, StartTurn(t) PROVE TypeOK'
    BY <1>1 DEF StartTurn, Told
  <1>2. ASSUME NEW t \in Turns, AnalyzeQuestion(t) PROVE TypeOK'
    BY <1>2, AmountsAssumption DEF AnalyzeQuestion
  <1>3. ASSUME NEW t \in Turns, PrecheckCredits(t) PROVE TypeOK'
    BY <1>3 DEF PrecheckCredits, CreditCheck
  <1>4. ASSUME NEW t \in Turns, RetrieveKnowledge(t) PROVE TypeOK'
    BY <1>4 DEF RetrieveKnowledge
  <1>5. ASSUME NEW t \in Turns, NoKnowledge(t) PROVE TypeOK'
    BY <1>5, AmountsAssumption DEF NoKnowledge, Remaining
  <1>6. ASSUME NEW t \in Turns, BuildContext(t) PROVE TypeOK'
    BY <1>6, AmountsAssumption DEF BuildContext
  <1>7. ASSUME NEW t \in Turns, CheckCredits(t) PROVE TypeOK'
    BY <1>7 DEF CheckCredits, CreditCheck
  <1>8. ASSUME NEW t \in Turns, GenerateAnswer(t) PROVE TypeOK'
    BY <1>8, AmountsAssumption DEF GenerateAnswer
  <1>9. ASSUME NEW t \in Turns, UsageAccounting(t) PROVE TypeOK'
    BY <1>9, AmountsAssumption DEF UsageAccounting
  <1>10. ASSUME NEW t \in Turns, CommitUsage(t) PROVE TypeOK'
    BY <1>10 DEF CommitUsage, Commit
  <1>11. ASSUME NEW t \in Turns, ReadBack(t) PROVE TypeOK'
    BY <1>11, AmountsAssumption DEF ReadBack, Remaining
  <1>20. ASSUME NEW t \in Turns, Respond(t) PROVE TypeOK'
    BY <1>20, AmountsAssumption DEF Respond
  <1>12. ASSUME NEW t \in Turns, DatabaseFails(t) PROVE TypeOK'
    BY <1>12 DEF DatabaseFails, LogRecordFailure
  <1>13. ASSUME NEW t \in Turns, CommitUnacknowledged(t) PROVE TypeOK'
    BY <1>13 DEF CommitUnacknowledged, Commit, LogRecordFailure
  <1>14. ASSUME Crash PROVE TypeOK'
    BY <1>14 DEF Crash
  <1>15. CASE UNCHANGED vars
    BY <1>15
  <1> QED
    BY <1>1, <1>2, <1>3, <1>4, <1>5, <1>6, <1>7, <1>8, <1>9, <1>10, <1>11, <1>20, <1>12,
       <1>13, <1>14, <1>15 DEF Next, Progress, Quiet

(***************************************************************************)
(* The connections of the pool                                             *)
(***************************************************************************)
LEMMA PoolInit == Init => PoolInv
  <1> SUFFICES ASSUME Init PROVE PoolInv
    OBVIOUS
  <1>1. Connected = {}
    BY DEF Init, Connected, ConnectedNodes
  <1> QED
    BY <1>1, FS_EmptySet, PoolAssumption DEF PoolInv

(* Only precheck_credits and the read-back take a connection and keep it;  *)
(* every other step leaves the set of connected turns as it is or makes it *)
(* smaller.                                                                *)
LEMMA PoolStep == TypeOK /\ PoolInv /\ [Next]_vars => PoolInv'
  <1> SUFFICES ASSUME TypeOK, PoolInv, [Next]_vars PROVE PoolInv'
    OBVIOUS
  <1>1. SUFFICES \/ Connected' \subseteq Connected
                 \/ \E t \in Turns : FreeConnection /\ Connected' \subseteq Connected \union {t}
    <2>1. CASE Connected' \subseteq Connected
      BY <2>1, FS_Subset, FS_CardinalityType, PoolAssumption DEF PoolInv
    <2>2. ASSUME NEW t \in Turns, FreeConnection, Connected' \subseteq Connected \union {t}
          PROVE PoolInv'
      <3>1. /\ IsFiniteSet(Connected \union {t})
            /\ Cardinality(Connected \union {t}) <= Cardinality(Connected) + 1
        BY FS_AddElement, FS_CardinalityType DEF PoolInv
      <3>2. /\ IsFiniteSet(Connected')
            /\ Cardinality(Connected') <= Cardinality(Connected \union {t})
        BY <2>2, <3>1, FS_Subset
      <3>3. /\ Cardinality(Connected') \in Nat
            /\ Cardinality(Connected) \in Nat
            /\ Cardinality(Connected \union {t}) \in Nat
        BY <3>1, <3>2, FS_CardinalityType DEF PoolInv
      <3> QED
        BY <2>2, <3>1, <3>2, <3>3, PoolAssumption DEF PoolInv, FreeConnection
    <2> QED
      BY <2>1, <2>2
  <1> USE DEF TypeOK, Connected, ConnectedNodes, Goto, Finish, Reject, ReadBalance
  <1>2. ASSUME NEW t \in Turns, StartTurn(t) PROVE Connected' \subseteq Connected
    BY <1>2 DEF StartTurn
  <1>3. ASSUME NEW t \in Turns, AnalyzeQuestion(t) PROVE Connected' \subseteq Connected
    BY <1>3 DEF AnalyzeQuestion
  <1>4. ASSUME NEW t \in Turns, PrecheckCredits(t)
        PROVE FreeConnection /\ Connected' \subseteq Connected \union {t}
    BY <1>4 DEF PrecheckCredits, CreditCheck
  <1>5. ASSUME NEW t \in Turns, RetrieveKnowledge(t) PROVE Connected' \subseteq Connected
    BY <1>5 DEF RetrieveKnowledge
  <1>6. ASSUME NEW t \in Turns, NoKnowledge(t) PROVE Connected' \subseteq Connected
    BY <1>6 DEF NoKnowledge
  <1>7. ASSUME NEW t \in Turns, BuildContext(t) PROVE Connected' \subseteq Connected
    BY <1>7 DEF BuildContext
  <1>8. ASSUME NEW t \in Turns, CheckCredits(t) PROVE Connected' \subseteq Connected
    BY <1>8 DEF CheckCredits, CreditCheck
  <1>9. ASSUME NEW t \in Turns, GenerateAnswer(t) PROVE Connected' \subseteq Connected
    BY <1>9 DEF GenerateAnswer
  <1>10. ASSUME NEW t \in Turns, UsageAccounting(t) PROVE Connected' \subseteq Connected
    BY <1>10 DEF UsageAccounting
  <1>11. ASSUME NEW t \in Turns, CommitUsage(t) PROVE Connected' \subseteq Connected
    BY <1>11 DEF CommitUsage
  <1>12. ASSUME NEW t \in Turns, ReadBack(t)
         PROVE  FreeConnection /\ Connected' \subseteq Connected \union {t}
    BY <1>12 DEF ReadBack
  <1>20. ASSUME NEW t \in Turns, Respond(t) PROVE Connected' \subseteq Connected
    BY <1>20 DEF Respond
  <1>13. ASSUME NEW t \in Turns, DatabaseFails(t) PROVE Connected' \subseteq Connected
    BY <1>13 DEF DatabaseFails
  <1>14. ASSUME NEW t \in Turns, CommitUnacknowledged(t) PROVE Connected' \subseteq Connected
    BY <1>14 DEF CommitUnacknowledged
  <1>15. ASSUME Crash PROVE Connected' \subseteq Connected
    BY <1>15 DEF Crash
  <1>16. CASE UNCHANGED vars
    BY <1>16 DEF vars, turnVars
  <1> QED
    BY <1>2, <1>3, <1>4, <1>5, <1>6, <1>7, <1>8, <1>9, <1>10, <1>11, <1>12, <1>13, <1>20,
       <1>14, <1>15, <1>16 DEF Next, Progress, Quiet

(***************************************************************************)
(* Where a turn is and what it has done                                    *)
(***************************************************************************)
LEMMA TurnInit == Init => TurnInv
  BY DEF Init, TurnInv, Nodes, RecordNodes

(* Every step keeps what a turn has done in line with where it is.         *)
LEMMA TurnStep == TypeOK /\ TurnInv /\ [Next]_vars => TurnInv'
  <1> SUFFICES ASSUME TypeOK, TurnInv, [Next]_vars PROVE TurnInv'
    OBVIOUS
  <1> USE DEF TypeOK, TurnInv, Nodes, RecordNodes, OwnReplies, Goto, Finish, Reject,
              ReadBalance, replyVars, logVars
  <1>1. ASSUME NEW t \in Turns, StartTurn(t) PROVE TurnInv'
    BY <1>1 DEF StartTurn
  <1>2. ASSUME NEW t \in Turns, AnalyzeQuestion(t) PROVE TurnInv'
    BY <1>2 DEF AnalyzeQuestion
  <1>3. ASSUME NEW t \in Turns, PrecheckCredits(t) PROVE TurnInv'
    BY <1>3 DEF PrecheckCredits, CreditCheck
  <1>4. ASSUME NEW t \in Turns, RetrieveKnowledge(t) PROVE TurnInv'
    BY <1>4, ErrorsAssumption DEF RetrieveKnowledge
  <1>5. ASSUME NEW t \in Turns, NoKnowledge(t) PROVE TurnInv'
    BY <1>5 DEF NoKnowledge
  <1>6. ASSUME NEW t \in Turns, BuildContext(t) PROVE TurnInv'
    BY <1>6 DEF BuildContext
  <1>7. ASSUME NEW t \in Turns, CheckCredits(t) PROVE TurnInv'
    BY <1>7 DEF CheckCredits, CreditCheck
  <1>8. ASSUME NEW t \in Turns, GenerateAnswer(t) PROVE TurnInv'
    BY <1>8, ErrorsAssumption DEF GenerateAnswer
  <1>9. ASSUME NEW t \in Turns, UsageAccounting(t) PROVE TurnInv'
    BY <1>9 DEF UsageAccounting
  <1>10. ASSUME NEW t \in Turns, CommitUsage(t) PROVE TurnInv'
    BY <1>10 DEF CommitUsage
  <1>11. ASSUME NEW t \in Turns, ReadBack(t) PROVE TurnInv'
    BY <1>11 DEF ReadBack
  <1>20. ASSUME NEW t \in Turns, Respond(t) PROVE TurnInv'
    BY <1>20 DEF Respond
  <1>12. ASSUME NEW t \in Turns, DatabaseFails(t) PROVE TurnInv'
    BY <1>12 DEF DatabaseFails, LogRecordFailure, QueryNodes
  <1>13. ASSUME NEW t \in Turns, CommitUnacknowledged(t) PROVE TurnInv'
    BY <1>13 DEF CommitUnacknowledged, LogRecordFailure
  <1>14. ASSUME Crash PROVE TurnInv'
    BY <1>14 DEF Crash, Active, Over
  <1>15. CASE UNCHANGED vars
    BY <1>15 DEF vars, turnVars, replyVars, logVars, dbVars
  <1> QED
    BY <1>1, <1>2, <1>3, <1>4, <1>5, <1>6, <1>7, <1>8, <1>9, <1>10, <1>11, <1>20,
       <1>12, <1>13, <1>14, <1>15 DEF Next, Progress, Quiet

(***************************************************************************)
(* Rows of the ledger                                                      *)
(***************************************************************************)
(* A step that leaves the ledger alone leaves every turn's rows alone.     *)
LEMMA SameRows == ASSUME UNCHANGED ledger PROVE \A t : Rows(t)' = Rows(t)
  BY DEF Rows

(* A commit adds one row to the turn's own and none to another turn's.     *)
LEMMA CommitRows ==
  ASSUME NEW t \in Turns, Commit(t)
  PROVE  /\ Rows(t)' = Rows(t) \union {[turn |-> t, credits |-> charge[t]]}
         /\ \A s \in Turns \ {t} : Rows(s)' = Rows(s)
  <1>1. Rows(t)' = Rows(t) \union {[turn |-> t, credits |-> charge[t]]}
    BY DEF Commit, Rows
  <1>2. ASSUME NEW s \in Turns \ {t} PROVE Rows(s)' = Rows(s)
    BY <1>2 DEF Commit, Rows
  <1> QED
    BY <1>1, <1>2

(* Nothing has been committed at the start.                                *)
LEMMA RowInit == Init => RowInv
  BY DEF Init, RowInv, Rows

(* Rows appear with the commit, and only the charged turn's.                *)
LEMMA RowStep == TypeOK /\ TurnInv /\ RowInv /\ [Next]_vars => RowInv'
  <1> SUFFICES ASSUME TypeOK, TurnInv, RowInv, [Next]_vars PROVE RowInv'
    OBVIOUS
  <1> USE DEF TypeOK, RowInv, Nodes, Goto, Finish, Reject, ReadBalance, dbVars
  <1>1. ASSUME NEW t \in Turns, StartTurn(t) PROVE RowInv'
    BY <1>1, SameRows DEF StartTurn
  <1>2. ASSUME NEW t \in Turns, AnalyzeQuestion(t) PROVE RowInv'
    BY <1>2, SameRows DEF AnalyzeQuestion
  <1>3. ASSUME NEW t \in Turns, PrecheckCredits(t) PROVE RowInv'
    BY <1>3, SameRows DEF PrecheckCredits, CreditCheck
  <1>4. ASSUME NEW t \in Turns, RetrieveKnowledge(t) PROVE RowInv'
    BY <1>4, SameRows DEF RetrieveKnowledge
  <1>5. ASSUME NEW t \in Turns, NoKnowledge(t) PROVE RowInv'
    BY <1>5, SameRows DEF NoKnowledge, TurnInv, RecordNodes
  <1>6. ASSUME NEW t \in Turns, BuildContext(t) PROVE RowInv'
    BY <1>6, SameRows DEF BuildContext
  <1>7. ASSUME NEW t \in Turns, CheckCredits(t) PROVE RowInv'
    BY <1>7, SameRows DEF CheckCredits, CreditCheck
  <1>8. ASSUME NEW t \in Turns, GenerateAnswer(t) PROVE RowInv'
    BY <1>8, SameRows DEF GenerateAnswer
  <1>9. ASSUME NEW t \in Turns, UsageAccounting(t) PROVE RowInv'
    BY <1>9, SameRows DEF UsageAccounting
  <1>10. ASSUME NEW t \in Turns, CommitUsage(t) PROVE RowInv'
    BY <1>10, CommitRows DEF CommitUsage
  <1>11. ASSUME NEW t \in Turns, ReadBack(t) PROVE RowInv'
    BY <1>11, SameRows DEF ReadBack, TurnInv
  <1>20. ASSUME NEW t \in Turns, Respond(t) PROVE RowInv'
    BY <1>20, SameRows DEF Respond
  <1>12. ASSUME NEW t \in Turns, DatabaseFails(t) PROVE RowInv'
    BY <1>12, SameRows DEF DatabaseFails
  <1>13. ASSUME NEW t \in Turns, CommitUnacknowledged(t) PROVE RowInv'
    BY <1>13, CommitRows DEF CommitUnacknowledged
  <1>14. ASSUME Crash PROVE RowInv'
    BY <1>14, SameRows DEF Crash, Active, Over
  <1>15. CASE UNCHANGED vars
    BY <1>15, SameRows DEF vars, turnVars, replyVars, logVars, dbVars
  <1> QED
    BY <1>1, <1>2, <1>3, <1>4, <1>5, <1>6, <1>7, <1>8, <1>9, <1>10, <1>11, <1>20,
       <1>12, <1>13, <1>14, <1>15 DEF Next, Progress, Quiet

(***************************************************************************)
(* The transaction holding the balance row                                 *)
(***************************************************************************)
LEMMA LockInit == Init => LockInv
  BY DEF Init, LockInv

(* Only one turn at a time gets past RowUnlocked, and only it moves used.  *)
LEMMA LockStep == TypeOK /\ LockInv /\ [Next]_vars => LockInv'
  <1> SUFFICES ASSUME TypeOK, LockInv, [Next]_vars PROVE LockInv'
    OBVIOUS
  <1> USE DEF TypeOK, LockInv, Nodes, Goto, Finish, Reject, ReadBalance, dbVars
  <1>1. ASSUME NEW t \in Turns, StartTurn(t) PROVE LockInv'
    BY <1>1 DEF StartTurn
  <1>2. ASSUME NEW t \in Turns, AnalyzeQuestion(t) PROVE LockInv'
    BY <1>2 DEF AnalyzeQuestion
  <1>3. ASSUME NEW t \in Turns, PrecheckCredits(t) PROVE LockInv'
    BY <1>3 DEF PrecheckCredits, CreditCheck
  <1>4. ASSUME NEW t \in Turns, RetrieveKnowledge(t) PROVE LockInv'
    BY <1>4 DEF RetrieveKnowledge
  <1>5. ASSUME NEW t \in Turns, NoKnowledge(t) PROVE LockInv'
    BY <1>5 DEF NoKnowledge
  <1>6. ASSUME NEW t \in Turns, BuildContext(t) PROVE LockInv'
    BY <1>6 DEF BuildContext
  <1>7. ASSUME NEW t \in Turns, CheckCredits(t) PROVE LockInv'
    BY <1>7 DEF CheckCredits, CreditCheck
  <1>8. ASSUME NEW t \in Turns, GenerateAnswer(t) PROVE LockInv'
    BY <1>8 DEF GenerateAnswer
  <1>9. ASSUME NEW t \in Turns, UsageAccounting(t) PROVE LockInv'
    BY <1>9 DEF UsageAccounting, RowUnlocked
  <1>10. ASSUME NEW t \in Turns, CommitUsage(t) PROVE LockInv'
    BY <1>10 DEF CommitUsage, Commit
  <1>11. ASSUME NEW t \in Turns, ReadBack(t) PROVE LockInv'
    BY <1>11 DEF ReadBack
  <1>20. ASSUME NEW t \in Turns, Respond(t) PROVE LockInv'
    BY <1>20 DEF Respond
  <1>12. ASSUME NEW t \in Turns, DatabaseFails(t) PROVE LockInv'
    BY <1>12 DEF DatabaseFails
  <1>13. ASSUME NEW t \in Turns, CommitUnacknowledged(t) PROVE LockInv'
    BY <1>13 DEF CommitUnacknowledged, Commit
  <1>14. ASSUME Crash PROVE LockInv'
    BY <1>14 DEF Crash, Active, Over
  <1>15. CASE UNCHANGED vars
    BY <1>15 DEF vars, turnVars, replyVars, logVars, dbVars
  <1> QED
    BY <1>1, <1>2, <1>3, <1>4, <1>5, <1>6, <1>7, <1>8, <1>9, <1>10, <1>11, <1>20,
       <1>12, <1>13, <1>14, <1>15 DEF Next, Progress, Quiet

(* No turn has been charged at the start.                                  *)
LEMMA ChargeInit == Init => ChargeInv
  BY DEF Init, ChargeInv, Spending

(* What a turn is charged is bounded by the estimate of its prompt.        *)
LEMMA ChargeStep == TypeOK /\ TurnInv /\ ChargeInv /\ [Next]_vars => ChargeInv'
  <1> SUFFICES ASSUME TypeOK, TurnInv, ChargeInv, [Next]_vars PROVE ChargeInv'
    OBVIOUS
  <1> USE DEF TypeOK, ChargeInv, Spending, Nodes, Goto, Finish, Reject, ReadBalance
  <1>1. ASSUME NEW t \in Turns, StartTurn(t) PROVE ChargeInv'
    BY <1>1 DEF StartTurn
  <1>2. ASSUME NEW t \in Turns, AnalyzeQuestion(t) PROVE ChargeInv'
    BY <1>2 DEF AnalyzeQuestion
  <1>3. ASSUME NEW t \in Turns, PrecheckCredits(t) PROVE ChargeInv'
    BY <1>3 DEF PrecheckCredits, CreditCheck
  <1>4. ASSUME NEW t \in Turns, RetrieveKnowledge(t) PROVE ChargeInv'
    BY <1>4 DEF RetrieveKnowledge
  <1>5. ASSUME NEW t \in Turns, NoKnowledge(t) PROVE ChargeInv'
    BY <1>5 DEF NoKnowledge
  <1>6. ASSUME NEW t \in Turns, BuildContext(t) PROVE ChargeInv'
    BY <1>6 DEF BuildContext
  <1>7. ASSUME NEW t \in Turns, CheckCredits(t) PROVE ChargeInv'
    BY <1>7, AmountsAssumption DEF CheckCredits, CreditCheck, TurnInv, RecordNodes
  <1>8. ASSUME NEW t \in Turns, GenerateAnswer(t) PROVE ChargeInv'
    BY <1>8, AmountsAssumption DEF GenerateAnswer
  <1>9. ASSUME NEW t \in Turns, UsageAccounting(t) PROVE ChargeInv'
    BY <1>9 DEF UsageAccounting
  <1>10. ASSUME NEW t \in Turns, CommitUsage(t) PROVE ChargeInv'
    BY <1>10 DEF CommitUsage
  <1>11. ASSUME NEW t \in Turns, ReadBack(t) PROVE ChargeInv'
    BY <1>11 DEF ReadBack
  <1>20. ASSUME NEW t \in Turns, Respond(t) PROVE ChargeInv'
    BY <1>20 DEF Respond
  <1>12. ASSUME NEW t \in Turns, DatabaseFails(t) PROVE ChargeInv'
    BY <1>12 DEF DatabaseFails
  <1>13. ASSUME NEW t \in Turns, CommitUnacknowledged(t) PROVE ChargeInv'
    BY <1>13 DEF CommitUnacknowledged
  <1>14. ASSUME Crash PROVE ChargeInv'
    BY <1>14 DEF Crash, Active, Over
  <1>15. CASE UNCHANGED vars
    BY <1>15 DEF vars, turnVars, replyVars, logVars, dbVars
  <1> QED
    BY <1>1, <1>2, <1>3, <1>4, <1>5, <1>6, <1>7, <1>8, <1>9, <1>10, <1>11, <1>20,
       <1>12, <1>13, <1>14, <1>15 DEF Next, Progress, Quiet

(***************************************************************************)
(* Replies                                                                 *)
(***************************************************************************)
LEMMA ShownInit == Init => ShownInv
  BY DEF Init, ShownInv, Informed, ShowsBalance

(* The balance only falls, so what was read stays an upper bound.          *)
LEMMA ShownStep == TypeOK /\ LockInv /\ ShownInv /\ [Next]_vars => ShownInv'
  <1> SUFFICES ASSUME TypeOK, LockInv, ShownInv, [Next]_vars PROVE ShownInv'
    OBVIOUS
  <1> USE DEF TypeOK, LockInv, ShownInv, Informed, ShowsBalance, Remaining, Nodes, Goto, Finish, Reject,
              ReadBalance, replyVars, logVars, dbVars
  <1>1. ASSUME NEW t \in Turns, StartTurn(t) PROVE ShownInv'
    BY <1>1, AmountsAssumption DEF StartTurn
  <1>2. ASSUME NEW t \in Turns, AnalyzeQuestion(t) PROVE ShownInv'
    BY <1>2, AmountsAssumption DEF AnalyzeQuestion
  <1>3. ASSUME NEW t \in Turns, PrecheckCredits(t) PROVE ShownInv'
    BY <1>3, AmountsAssumption DEF PrecheckCredits, CreditCheck
  <1>4. ASSUME NEW t \in Turns, RetrieveKnowledge(t) PROVE ShownInv'
    BY <1>4, AmountsAssumption, ErrorsAssumption DEF OwnReplies, RetrieveKnowledge
  <1>5. ASSUME NEW t \in Turns, NoKnowledge(t) PROVE ShownInv'
    BY <1>5, AmountsAssumption DEF NoKnowledge
  <1>6. ASSUME NEW t \in Turns, BuildContext(t) PROVE ShownInv'
    BY <1>6, AmountsAssumption DEF BuildContext
  <1>7. ASSUME NEW t \in Turns, CheckCredits(t) PROVE ShownInv'
    BY <1>7, AmountsAssumption DEF CheckCredits, CreditCheck
  <1>8. ASSUME NEW t \in Turns, GenerateAnswer(t) PROVE ShownInv'
    BY <1>8, AmountsAssumption, ErrorsAssumption DEF OwnReplies, GenerateAnswer
  <1>9. ASSUME NEW t \in Turns, UsageAccounting(t) PROVE ShownInv'
    BY <1>9, AmountsAssumption DEF UsageAccounting
  <1>10. ASSUME NEW t \in Turns, CommitUsage(t) PROVE ShownInv'
    BY <1>10, AmountsAssumption DEF CommitUsage, Commit
  <1>11. ASSUME NEW t \in Turns, ReadBack(t) PROVE ShownInv'
    BY <1>11, AmountsAssumption DEF ReadBack
  <1>20. ASSUME NEW t \in Turns, Respond(t) PROVE ShownInv'
    BY <1>20, AmountsAssumption DEF Respond
  <1>12. ASSUME NEW t \in Turns, DatabaseFails(t) PROVE ShownInv'
    BY <1>12, AmountsAssumption DEF DatabaseFails
  <1>13. ASSUME NEW t \in Turns, CommitUnacknowledged(t) PROVE ShownInv'
    BY <1>13, AmountsAssumption DEF CommitUnacknowledged, Commit
  <1>14. ASSUME Crash PROVE ShownInv'
    BY <1>14, AmountsAssumption DEF Crash, Active, Over
  <1>15. CASE UNCHANGED vars
    BY <1>15, AmountsAssumption DEF vars, turnVars, replyVars, logVars, dbVars
  <1> QED
    BY <1>1, <1>2, <1>3, <1>4, <1>5, <1>6, <1>7, <1>8, <1>9, <1>10, <1>11, <1>20,
       <1>12, <1>13, <1>14, <1>15 DEF Next, Progress, Quiet

(* Nobody knows of a balance at the start.                                 *)
LEMMA EarlierInit == Init => EarlierInv
  BY DEF Init, EarlierInv

(* A turn that begins looks at the replies so far, which stay.             *)
LEMMA EarlierStep == TypeOK /\ TurnInv /\ EarlierInv /\ [Next]_vars => EarlierInv'
  <1> SUFFICES ASSUME TypeOK, TurnInv, EarlierInv, [Next]_vars PROVE EarlierInv'
    OBVIOUS
  <1> USE DEF TypeOK, TurnInv, EarlierInv, Told, ShowsBalance, Goto, Finish, Reject, ReadBalance,
              replyVars, logVars
  <1>1. ASSUME NEW t \in Turns, StartTurn(t) PROVE EarlierInv'
    BY <1>1 DEF StartTurn
  <1>2. ASSUME NEW t \in Turns, AnalyzeQuestion(t) PROVE EarlierInv'
    BY <1>2 DEF AnalyzeQuestion
  <1>3. ASSUME NEW t \in Turns, PrecheckCredits(t) PROVE EarlierInv'
    BY <1>3 DEF PrecheckCredits, CreditCheck
  <1>4. ASSUME NEW t \in Turns, RetrieveKnowledge(t) PROVE EarlierInv'
    BY <1>4 DEF RetrieveKnowledge
  <1>5. ASSUME NEW t \in Turns, NoKnowledge(t) PROVE EarlierInv'
    BY <1>5 DEF NoKnowledge
  <1>6. ASSUME NEW t \in Turns, BuildContext(t) PROVE EarlierInv'
    BY <1>6 DEF BuildContext
  <1>7. ASSUME NEW t \in Turns, CheckCredits(t) PROVE EarlierInv'
    BY <1>7 DEF CheckCredits, CreditCheck
  <1>8. ASSUME NEW t \in Turns, GenerateAnswer(t) PROVE EarlierInv'
    BY <1>8 DEF GenerateAnswer
  <1>9. ASSUME NEW t \in Turns, UsageAccounting(t) PROVE EarlierInv'
    BY <1>9 DEF UsageAccounting
  <1>10. ASSUME NEW t \in Turns, CommitUsage(t) PROVE EarlierInv'
    BY <1>10 DEF CommitUsage
  <1>11. ASSUME NEW t \in Turns, ReadBack(t) PROVE EarlierInv'
    BY <1>11 DEF ReadBack
  <1>12. ASSUME NEW t \in Turns, DatabaseFails(t) PROVE EarlierInv'
    BY <1>12 DEF DatabaseFails, QueryNodes
  <1>13. ASSUME NEW t \in Turns, CommitUnacknowledged(t) PROVE EarlierInv'
    BY <1>13 DEF CommitUnacknowledged
  <1>20. ASSUME NEW t \in Turns, Respond(t) PROVE EarlierInv'
    BY <1>20 DEF Respond
  <1>14. ASSUME Crash PROVE EarlierInv'
    BY <1>14 DEF Crash
  <1>15. CASE UNCHANGED vars
    BY <1>15 DEF vars
  <1> QED
    BY <1>1, <1>2, <1>3, <1>4, <1>5, <1>6, <1>7, <1>8, <1>9, <1>10, <1>11, <1>20,
       <1>12, <1>13, <1>14, <1>15 DEF Next, Progress, Quiet

(* No turn has an answer at the start.                                     *)
LEMMA AnswerInit == Init => AnswerInv
  BY DEF Init, AnswerInv, Nodes

(* The routes of the graph keep the answer type in line with the settings. *)
LEMMA AnswerStep == TypeOK /\ TurnInv /\ AnswerInv /\ [Next]_vars => AnswerInv'
  <1> SUFFICES ASSUME TypeOK, TurnInv, AnswerInv, [Next]_vars PROVE AnswerInv'
    OBVIOUS
  <1> USE DEF TypeOK, AnswerInv, TurnInv, RecordNodes, Nodes, Goto, Finish, Reject, ReadBalance
  <1>1. ASSUME NEW t \in Turns, StartTurn(t) PROVE AnswerInv'
    BY <1>1 DEF StartTurn
  <1>2. ASSUME NEW t \in Turns, AnalyzeQuestion(t) PROVE AnswerInv'
    BY <1>2 DEF AnalyzeQuestion
  <1>3. ASSUME NEW t \in Turns, PrecheckCredits(t) PROVE AnswerInv'
    BY <1>3 DEF PrecheckCredits, CreditCheck
  <1>4. ASSUME NEW t \in Turns, RetrieveKnowledge(t) PROVE AnswerInv'
    BY <1>4 DEF RetrieveKnowledge
  <1>5. ASSUME NEW t \in Turns, NoKnowledge(t) PROVE AnswerInv'
    BY <1>5 DEF NoKnowledge
  <1>6. ASSUME NEW t \in Turns, BuildContext(t) PROVE AnswerInv'
    BY <1>6 DEF BuildContext
  <1>7. ASSUME NEW t \in Turns, CheckCredits(t) PROVE AnswerInv'
    BY <1>7 DEF CheckCredits, CreditCheck
  <1>8. ASSUME NEW t \in Turns, GenerateAnswer(t) PROVE AnswerInv'
    BY <1>8 DEF GenerateAnswer
  <1>9. ASSUME NEW t \in Turns, UsageAccounting(t) PROVE AnswerInv'
    BY <1>9 DEF UsageAccounting
  <1>10. ASSUME NEW t \in Turns, CommitUsage(t) PROVE AnswerInv'
    BY <1>10 DEF CommitUsage
  <1>11. ASSUME NEW t \in Turns, ReadBack(t) PROVE AnswerInv'
    BY <1>11 DEF ReadBack
  <1>20. ASSUME NEW t \in Turns, Respond(t) PROVE AnswerInv'
    BY <1>20 DEF Respond
  <1>12. ASSUME NEW t \in Turns, DatabaseFails(t) PROVE AnswerInv'
    BY <1>12 DEF DatabaseFails
  <1>13. ASSUME NEW t \in Turns, CommitUnacknowledged(t) PROVE AnswerInv'
    BY <1>13 DEF CommitUnacknowledged
  <1>14. ASSUME Crash PROVE AnswerInv'
    BY <1>14 DEF Crash, Active, Over
  <1>15. CASE UNCHANGED vars
    BY <1>15 DEF vars, turnVars, replyVars, logVars, dbVars
  <1> QED
    BY <1>1, <1>2, <1>3, <1>4, <1>5, <1>6, <1>7, <1>8, <1>9, <1>10, <1>11, <1>20,
       <1>12, <1>13, <1>14, <1>15 DEF Next, Progress, Quiet

(* No turn has a reply at the start.                                       *)
LEMMA ReplyInit == Init => ReplyMatchesLedger
  BY DEF Init, ReplyMatchesLedger

(* A reply is given only at a node whose rows RowInv knows.                *)
LEMMA ReplyStep == TypeOK /\ TurnInv /\ RowInv /\ ReplyMatchesLedger /\ [Next]_vars => ReplyMatchesLedger'
  <1> SUFFICES ASSUME TypeOK, TurnInv, RowInv, ReplyMatchesLedger, [Next]_vars PROVE ReplyMatchesLedger'
    OBVIOUS
  <1> USE DEF TypeOK, TurnInv, RowInv, ReplyMatchesLedger, Nodes, RecordNodes, OwnReplies, Goto,
              Finish, Reject, ReadBalance, replyVars, logVars, dbVars
  <1>1. ASSUME NEW t \in Turns, StartTurn(t) PROVE ReplyMatchesLedger'
    BY <1>1, SameRows DEF StartTurn
  <1>2. ASSUME NEW t \in Turns, AnalyzeQuestion(t) PROVE ReplyMatchesLedger'
    BY <1>2, SameRows DEF AnalyzeQuestion
  <1>3. ASSUME NEW t \in Turns, PrecheckCredits(t) PROVE ReplyMatchesLedger'
    BY <1>3, SameRows DEF PrecheckCredits, CreditCheck
  <1>4. ASSUME NEW t \in Turns, RetrieveKnowledge(t) PROVE ReplyMatchesLedger'
    BY <1>4, SameRows, ErrorsAssumption DEF RetrieveKnowledge
  <1>5. ASSUME NEW t \in Turns, NoKnowledge(t) PROVE ReplyMatchesLedger'
    BY <1>5, SameRows DEF NoKnowledge
  <1>6. ASSUME NEW t \in Turns, BuildContext(t) PROVE ReplyMatchesLedger'
    BY <1>6, SameRows DEF BuildContext
  <1>7. ASSUME NEW t \in Turns, CheckCredits(t) PROVE ReplyMatchesLedger'
    BY <1>7, SameRows DEF CheckCredits, CreditCheck
  <1>8. ASSUME NEW t \in Turns, GenerateAnswer(t) PROVE ReplyMatchesLedger'
    BY <1>8, SameRows, ErrorsAssumption DEF GenerateAnswer
  <1>9. ASSUME NEW t \in Turns, UsageAccounting(t) PROVE ReplyMatchesLedger'
    BY <1>9, SameRows DEF UsageAccounting
  <1>10. ASSUME NEW t \in Turns, CommitUsage(t) PROVE ReplyMatchesLedger'
    BY <1>10, CommitRows DEF CommitUsage
  <1>11. ASSUME NEW t \in Turns, ReadBack(t) PROVE ReplyMatchesLedger'
    BY <1>11, SameRows DEF ReadBack
  <1>20. ASSUME NEW t \in Turns, Respond(t) PROVE ReplyMatchesLedger'
    BY <1>20, SameRows DEF Respond
  <1>12. ASSUME NEW t \in Turns, DatabaseFails(t) PROVE ReplyMatchesLedger'
    BY <1>12, SameRows DEF DatabaseFails
  <1>13. ASSUME NEW t \in Turns, CommitUnacknowledged(t) PROVE ReplyMatchesLedger'
    BY <1>13, CommitRows DEF CommitUnacknowledged
  <1>14. ASSUME Crash PROVE ReplyMatchesLedger'
    BY <1>14, SameRows DEF Crash, Active, Over
  <1>15. CASE UNCHANGED vars
    BY <1>15, SameRows DEF vars, turnVars, replyVars, logVars, dbVars
  <1> QED
    BY <1>1, <1>2, <1>3, <1>4, <1>5, <1>6, <1>7, <1>8, <1>9, <1>10, <1>11, <1>20,
       <1>12, <1>13, <1>14, <1>15 DEF Next, Progress, Quiet

(* No turn has ended at the start.                                         *)
LEMMA LostInit == Init => LostChargesAreLogged
  BY DEF Init, LostChargesAreLogged

(* A turn that ends on a failed ledger write logs it.                      *)
LEMMA LostStep == TypeOK /\ TurnInv /\ RowInv /\ LostChargesAreLogged /\ [Next]_vars => LostChargesAreLogged'
  <1> SUFFICES ASSUME TypeOK, TurnInv, RowInv, LostChargesAreLogged, [Next]_vars PROVE LostChargesAreLogged'
    OBVIOUS
  <1> USE DEF TypeOK, TurnInv, RowInv, LostChargesAreLogged, Nodes, RecordNodes, OwnReplies,
              Goto, Finish, Reject, ReadBalance, replyVars, logVars, dbVars
  <1>1. ASSUME NEW t \in Turns, StartTurn(t) PROVE LostChargesAreLogged'
    BY <1>1, SameRows DEF StartTurn
  <1>2. ASSUME NEW t \in Turns, AnalyzeQuestion(t) PROVE LostChargesAreLogged'
    BY <1>2, SameRows DEF AnalyzeQuestion
  <1>3. ASSUME NEW t \in Turns, PrecheckCredits(t) PROVE LostChargesAreLogged'
    BY <1>3, SameRows DEF PrecheckCredits, CreditCheck
  <1>4. ASSUME NEW t \in Turns, RetrieveKnowledge(t) PROVE LostChargesAreLogged'
    BY <1>4, SameRows DEF RetrieveKnowledge
  <1>5. ASSUME NEW t \in Turns, NoKnowledge(t) PROVE LostChargesAreLogged'
    BY <1>5, SameRows DEF NoKnowledge
  <1>6. ASSUME NEW t \in Turns, BuildContext(t) PROVE LostChargesAreLogged'
    BY <1>6, SameRows DEF BuildContext
  <1>7. ASSUME NEW t \in Turns, CheckCredits(t) PROVE LostChargesAreLogged'
    BY <1>7, SameRows DEF CheckCredits, CreditCheck
  <1>8. ASSUME NEW t \in Turns, GenerateAnswer(t) PROVE LostChargesAreLogged'
    BY <1>8, SameRows DEF GenerateAnswer
  <1>9. ASSUME NEW t \in Turns, UsageAccounting(t) PROVE LostChargesAreLogged'
    BY <1>9, SameRows DEF UsageAccounting
  <1>10. ASSUME NEW t \in Turns, CommitUsage(t) PROVE LostChargesAreLogged'
    BY <1>10, CommitRows DEF CommitUsage
  <1>11. ASSUME NEW t \in Turns, ReadBack(t) PROVE LostChargesAreLogged'
    BY <1>11, SameRows DEF ReadBack
  <1>20. ASSUME NEW t \in Turns, Respond(t) PROVE LostChargesAreLogged'
    <2>1. llm[t] = "priced" => Rows(t) # {}
      BY <1>20 DEF Respond
    <2>2. \A s \in Turns : Rows(s)' = Rows(s)
      BY <1>20, SameRows DEF Respond
    <2> QED
      BY <1>20, <2>1, <2>2 DEF Respond
  <1>12. ASSUME NEW t \in Turns, DatabaseFails(t) PROVE LostChargesAreLogged'
    BY <1>12, SameRows DEF DatabaseFails, LogRecordFailure, QueryNodes
  <1>13. ASSUME NEW t \in Turns, CommitUnacknowledged(t) PROVE LostChargesAreLogged'
    BY <1>13, CommitRows DEF CommitUnacknowledged, LogRecordFailure
  <1>14. ASSUME Crash PROVE LostChargesAreLogged'
    BY <1>14, SameRows DEF Crash, Active, Over
  <1>15. CASE UNCHANGED vars
    BY <1>15, SameRows DEF vars, turnVars, replyVars, logVars, dbVars
  <1> QED
    BY <1>1, <1>2, <1>3, <1>4, <1>5, <1>6, <1>7, <1>8, <1>9, <1>10, <1>11, <1>20,
       <1>12, <1>13, <1>14, <1>15 DEF Next, Progress, Quiet

(***************************************************************************)
(* The budget                                                              *)
(***************************************************************************)
(* Multiplication by a natural number, as far as it is needed here.        *)
LEMMA Times ==
  ASSUME NEW m \in Nat, NEW j \in Nat, NEW k \in Nat
  PROVE  /\ m * k \in Nat
         /\ m * (k + 1) = m * k + m
         /\ j <= k => m * j <= m * k
  <1>1. m * k \in Nat /\ m * (k + 1) = m * k + m
    OBVIOUS
  <1>2. ASSUME j <= k PROVE m * j <= m * k
    <2>1. PICK d \in Nat : k = j + d
      <3>1. k - j \in Nat /\ k = j + (k - j)
        BY <1>2
      <3> QED
        BY <3>1
    <2>2. m * k = m * j + m * d /\ m * d \in Nat /\ m * j \in Nat
      BY <2>1
    <2> QED
      BY <2>2
  <1> QED
    BY <1>1, <1>2

(* Turns between check and deduction hold a connection, so there are at    *)
(* most PoolSize of them, and fewer while another turn holds one.          *)
LEMMA SpendingBounded ==
  ASSUME TypeOK, PoolInv
  PROVE  /\ IsFiniteSet(Spending)
         /\ Cardinality(Spending) \in Nat
         /\ Spending \subseteq Turns
         /\ \A t \in Connected \ Spending : Cardinality(Spending) + 1 <= PoolSize
  <1>1. Spending \subseteq Connected
    BY DEF Spending, Connected, ConnectedNodes
  <1>2. IsFiniteSet(Spending) /\ Cardinality(Spending) \in Nat
    BY <1>1, FS_Subset, FS_CardinalityType DEF PoolInv
  <1>3. ASSUME NEW t \in Connected \ Spending PROVE Cardinality(Spending) + 1 <= PoolSize
    <2>1. Cardinality(Spending \union {t}) = Cardinality(Spending) + 1
      BY <1>2, FS_AddElement
    <2>2. Cardinality(Spending \union {t}) <= Cardinality(Connected)
      BY <1>1, FS_Subset DEF PoolInv
    <2>3. Cardinality(Connected) \in Nat
      BY FS_CardinalityType DEF PoolInv
    <2> QED
      BY <1>2, <2>1, <2>2, <2>3, PoolAssumption DEF PoolInv
  <1> QED
    BY <1>1, <1>2, <1>3 DEF Spending

(* Nothing is spent at the start.                                          *)
LEMMA BudgetInit == Init => BudgetInv
  <1> SUFFICES ASSUME Init PROVE BudgetInv
    OBVIOUS
  <1>1. Spending = {}
    BY DEF Init, Spending
  <1>2. Cardinality(Spending) = 0
    BY <1>1, FS_EmptySet
  <1>3. (PoolSize - 1) * MaxCharge \in Nat
    BY PoolAssumption, AmountsAssumption
  <1>4. used + MaxCharge * 0 <= Budget
    BY <1>3, AmountsAssumption DEF Init, Budget
  <1> QED
    BY <1>2, <1>4 DEF BudgetInv

(* Nothing about the spending turns or the balance changes.                *)
LEMMA BudgetKept ==
  ASSUME BudgetInv, UNCHANGED used, Spending' = Spending,
         \A t \in Spending : prompt'[t] = prompt[t]
  PROVE  BudgetInv'
  BY DEF BudgetInv, Budget

(* A turn passes the check on its full prompt: all turns already spending  *)
(* fit beside it at the full price, because one connection is its own.     *)
LEMMA BudgetEntered ==
  ASSUME TypeOK, PoolInv, NEW t \in Connected \ Spending,
         Affordable(prompt[t]), UNCHANGED <<used, prompt>>,
         Spending' = Spending \union {t}
  PROVE  BudgetInv'
  <1> DEFINE k == Cardinality(Spending)
  <1>1. k \in Nat /\ k <= PoolSize - 1
    BY SpendingBounded, PoolAssumption
  <1>2. Spending' \ {t} = Spending
    OBVIOUS
  <1>3. MaxCharge * k <= (PoolSize - 1) * MaxCharge
    <2>1. MaxCharge * k <= MaxCharge * (PoolSize - 1)
      BY <1>1, Times, PoolAssumption, AmountsAssumption
    <2>2. MaxCharge * (PoolSize - 1) = (PoolSize - 1) * MaxCharge
      BY PoolAssumption, AmountsAssumption
    <2> QED
      BY <2>1, <2>2
  <1>4. used + prompt[t] <= Total
    BY AmountsAssumption DEF Affordable, Remaining, TypeOK, Connected
  <1>5. used + prompt[t] + Excess + MaxCharge * k <= Budget
    <2>1. MaxCharge * k \in Int /\ (PoolSize - 1) * MaxCharge \in Int
      BY <1>1, PoolAssumption, AmountsAssumption
    <2>2. used \in Int /\ prompt[t] \in Int
      BY DEF TypeOK, Connected
    <2> HIDE DEF k
    <2> QED
      BY <1>3, <1>4, <2>1, <2>2, AmountsAssumption DEF Budget
  <1>6. t \in Spending' /\ used' + prompt'[t] + Excess + MaxCharge * Cardinality(Spending' \ {t}) <= Budget
    BY <1>2, <1>5
  <1> QED
    BY <1>6 DEF BudgetInv, Budget

(* A turn stops spending, having been charged c credits or (c = 0) none:   *)
(* whichever of the two forms of the invariant held, what it took from the *)
(* budget is no more than what was set aside for it.                       *)
LEMMA BudgetSettled ==
  ASSUME TypeOK, PoolInv, BudgetInv, NEW t \in Spending, NEW c \in 0..MaxCharge,
         c <= prompt[t] + Excess, used' = used + c, UNCHANGED prompt,
         Spending' = Spending \ {t}
  PROVE  BudgetInv'
  <1> DEFINE k == Cardinality(Spending)
  <1>1. /\ IsFiniteSet(Spending)
        /\ k \in Nat \ {0}
        /\ Cardinality(Spending \ {t}) = k - 1
        /\ k - 1 \in Nat
    <2>1. IsFiniteSet(Spending) /\ k \in Nat
      BY SpendingBounded
    <2>2. Cardinality(Spending \ {t}) = k - 1
      BY <2>1, FS_RemoveElement
    <2>3. Cardinality(Spending \ {t}) \in Nat
      BY <2>1, FS_RemoveElement, FS_CardinalityType
    <2> QED
      BY <2>1, <2>2, <2>3
  <1>2. /\ MaxCharge * k = MaxCharge * (k - 1) + MaxCharge
        /\ MaxCharge * (k - 1) \in Nat
    <2>1. k = (k - 1) + 1
      BY <1>1
    <2> QED
      BY <1>1, <2>1, Times, AmountsAssumption
  <1>3. used \in Nat /\ c \in Nat /\ c <= MaxCharge /\ MaxCharge \in Nat /\ Excess \in Nat
    BY AmountsAssumption DEF TypeOK
  <1>4. Budget \in Int /\ Budget' = Budget
    BY AmountsAssumption, PoolAssumption DEF Budget
  <1>5. CASE used + MaxCharge * k <= Budget
    <2>1. used + c + MaxCharge * (k - 1) <= Budget
      <3> HIDE DEF k
      <3> QED
        BY <1>2, <1>3, <1>4, <1>5
    <2> QED
      BY <1>1, <1>4, <2>1 DEF BudgetInv
  <1>6. ASSUME NEW w \in Spending,
               used + prompt[w] + Excess + MaxCharge * Cardinality(Spending \ {w}) <= Budget
        PROVE  BudgetInv'
    <2>1. prompt[w] \in Nat
      BY SpendingBounded DEF TypeOK
    <2>2. CASE w = t
      <3>1. used + c + MaxCharge * (k - 1) <= Budget
        <4>1. used + prompt[t] + Excess + MaxCharge * (k - 1) <= Budget
          BY <1>1, <1>6, <2>2
        <4>2. prompt[t] \in Nat
          BY <2>1, <2>2
        <4> HIDE DEF k
        <4> QED
          BY <1>2, <1>3, <1>4, <4>1, <4>2
      <3> QED
        BY <1>1, <1>4, <3>1 DEF BudgetInv
    <2>3. CASE w # t
      <3> DEFINE j == Cardinality(Spending' \ {w})
      <3>1. /\ Cardinality(Spending \ {w}) = k - 1
            /\ j = k - 2
            /\ j \in Nat
        <4>1. IsFiniteSet(Spending \ {w}) /\ Cardinality(Spending \ {w}) = k - 1
          BY <1>1, FS_RemoveElement
        <4>2. Spending' \ {w} = (Spending \ {w}) \ {t} /\ t \in Spending \ {w}
          BY <2>3
        <4>3. j = k - 2
          <5>1. Cardinality((Spending \ {w}) \ {t}) = Cardinality(Spending \ {w}) - 1
            BY <4>1, <4>2, FS_RemoveElement
          <5>2. j = (k - 1) - 1
            BY <4>1, <4>2, <5>1
          <5> QED
            BY <1>1, <5>2
        <4>4. j \in Nat
          BY <4>1, <4>2, FS_RemoveElement, FS_CardinalityType
        <4> QED
          BY <4>1, <4>3, <4>4
      <3>2. MaxCharge * (k - 1) = MaxCharge * j + MaxCharge /\ MaxCharge * j \in Nat
        <4>1. k - 1 = j + 1
          BY <1>1, <3>1
        <4>2. MaxCharge * (j + 1) = MaxCharge * j + MaxCharge /\ MaxCharge * j \in Nat
          BY <3>1, Times, AmountsAssumption
        <4> QED
          BY <4>1, <4>2, Zenon
      <3>3. used + c + prompt[w] + Excess + MaxCharge * j <= Budget
        <4>1. used + prompt[w] + Excess + MaxCharge * (k - 1) <= Budget
          BY <1>6, <3>1
        <4> HIDE DEF k, j
        <4> QED
          BY <1>3, <1>4, <2>1, <3>2, <4>1
      <3>4. w \in Spending'
        BY <2>3
      <3>5. used' + prompt'[w] + Excess + MaxCharge * Cardinality(Spending' \ {w}) <= Budget'
        BY <1>4, <3>3
      <3> QED
        BY <3>4, <3>5 DEF BudgetInv
    <2> QED
      BY <2>2, <2>3
  <1> QED
    BY <1>5, <1>6 DEF BudgetInv

(* What the budget is for: no spending turn takes a negative amount.       *)
LEMMA BudgetHolds == TypeOK /\ PoolInv /\ BudgetInv => used <= Budget
  <1> SUFFICES ASSUME TypeOK, PoolInv, BudgetInv PROVE used <= Budget
    OBVIOUS
  <1>1. used \in Nat /\ Budget \in Int /\ Excess \in Nat
    BY AmountsAssumption, PoolAssumption DEF TypeOK, Budget
  <1>2. CASE used + MaxCharge * Cardinality(Spending) <= Budget
    <2>1. MaxCharge * Cardinality(Spending) \in Nat
      BY SpendingBounded, Times, AmountsAssumption
    <2> QED
      BY <1>1, <1>2, <2>1
  <1>3. ASSUME NEW w \in Spending,
               used + prompt[w] + Excess + MaxCharge * Cardinality(Spending \ {w}) <= Budget
        PROVE  used <= Budget
    <2>1. Cardinality(Spending \ {w}) \in Nat
      BY SpendingBounded, FS_RemoveElement, FS_CardinalityType
    <2>2. MaxCharge * Cardinality(Spending \ {w}) \in Nat
      BY <2>1, Times, AmountsAssumption
    <2>3. prompt[w] \in Nat
      BY SpendingBounded DEF TypeOK
    <2> QED
      BY <1>1, <1>3, <2>2, <2>3
  <1> QED
    BY <1>2, <1>3 DEF BudgetInv

(* Every step keeps the spending turns, adds the one that passed its       *)
(* check, or settles the one that is charged or fails.                     *)
LEMMA BudgetStep ==
    TypeOK /\ PoolInv /\ LockInv /\ ChargeInv /\ BudgetInv /\ [Next]_vars => BudgetInv'
  <1> SUFFICES ASSUME TypeOK, PoolInv, LockInv, ChargeInv, BudgetInv, [Next]_vars
               PROVE  BudgetInv'
    OBVIOUS
  <1> DEFINE Kept == /\ UNCHANGED used
                     /\ Spending' = Spending
                     /\ \A s \in Spending : prompt'[s] = prompt[s]
  <1>0. Kept => BudgetInv'
    BY BudgetKept
  <1> USE DEF TypeOK, Spending, Goto, Finish, Reject, ReadBalance, dbVars
  <1>1. ASSUME NEW t \in Turns, StartTurn(t) PROVE Kept
    BY <1>1 DEF StartTurn
  <1>2. ASSUME NEW t \in Turns, AnalyzeQuestion(t) PROVE Kept
    BY <1>2 DEF AnalyzeQuestion
  <1>3. ASSUME NEW t \in Turns, PrecheckCredits(t) PROVE Kept
    BY <1>3 DEF PrecheckCredits, CreditCheck
  <1>4. ASSUME NEW t \in Turns, RetrieveKnowledge(t) PROVE Kept
    BY <1>4 DEF RetrieveKnowledge
  <1>5. ASSUME NEW t \in Turns, NoKnowledge(t) PROVE Kept
    BY <1>5 DEF NoKnowledge
  <1>6. ASSUME NEW t \in Turns, BuildContext(t) PROVE Kept
    BY <1>6 DEF BuildContext
  <1>7. ASSUME NEW t \in Turns, CheckCredits(t) PROVE BudgetInv'
    <2>1. CASE at'[t] = "generate_answer"
      <3>1. t \in Connected \ Spending
        BY <1>7 DEF CheckCredits, Connected, ConnectedNodes
      <3>2. /\ Affordable(prompt[t])
            /\ UNCHANGED <<used, prompt>>
            /\ Spending' = Spending \union {t}
        BY <1>7, <2>1 DEF CheckCredits, CreditCheck
      <3> QED
        BY <3>1, <3>2, BudgetEntered
    <2>2. CASE at'[t] # "generate_answer"
      <3>1. Kept
        BY <1>7, <2>2 DEF CheckCredits, CreditCheck
      <3> QED
        BY <3>1, <1>0
    <2> QED
      BY <2>1, <2>2
  <1>8. ASSUME NEW t \in Turns, GenerateAnswer(t) PROVE BudgetInv'
    <2>1. CASE at'[t] = "end"
      <3>1. /\ t \in Spending
            /\ Spending' = Spending \ {t}
            /\ used' = used + 0
            /\ UNCHANGED prompt
        BY <1>8, <2>1 DEF GenerateAnswer
      <3>2. 0 \in 0..MaxCharge /\ 0 <= prompt[t] + Excess
        BY AmountsAssumption
      <3> QED
        BY <3>1, <3>2, BudgetSettled
    <2>2. CASE at'[t] # "end"
      <3>1. Kept
        BY <1>8, <2>2 DEF GenerateAnswer
      <3> QED
        BY <3>1, <1>0
    <2> QED
      BY <2>1, <2>2
  <1>9. ASSUME NEW t \in Turns, UsageAccounting(t) PROVE BudgetInv'
    <2>1. CASE at'[t] = "end"
      <3>1. /\ t \in Spending
            /\ Spending' = Spending \ {t}
            /\ used' = used + 0
            /\ UNCHANGED prompt
        BY <1>9, <2>1 DEF UsageAccounting
      <3>2. 0 \in 0..MaxCharge /\ 0 <= prompt[t] + Excess
        BY AmountsAssumption
      <3> QED
        BY <3>1, <3>2, BudgetSettled
    <2>2. CASE at'[t] # "end"
      <3>1. Kept
        BY <1>9, <2>2 DEF UsageAccounting
      <3> QED
        BY <3>1, <1>0
    <2> QED
      BY <2>1, <2>2
  <1>10. ASSUME NEW t \in Turns, CommitUsage(t) \/ CommitUnacknowledged(t)
         PROVE  BudgetInv'
    <2>1. /\ t \in Spending
          /\ Spending' = Spending \ {t}
          /\ used' = newUsed[t]
          /\ UNCHANGED prompt
      BY <1>10 DEF CommitUsage, CommitUnacknowledged, Commit
    <2>2. used' = used + charge[t]
      BY <1>10, <2>1 DEF CommitUsage, CommitUnacknowledged, LockInv
    <2>3. charge[t] \in 0..MaxCharge /\ charge[t] <= prompt[t] + Excess
      BY <2>1 DEF ChargeInv
    <2> QED
      BY <2>1, <2>2, <2>3, BudgetSettled
  <1>11. ASSUME NEW t \in Turns, ReadBack(t) PROVE Kept
    BY <1>11 DEF ReadBack
  <1>20. ASSUME NEW t \in Turns, Respond(t) PROVE Kept
    BY <1>20 DEF Respond
  <1>12. ASSUME NEW t \in Turns, DatabaseFails(t) PROVE BudgetInv'
    <2>1. CASE t \in Spending
      <3>1. /\ Spending' = Spending \ {t}
            /\ used' = used + 0
            /\ UNCHANGED prompt
        BY <1>12, <2>1 DEF DatabaseFails
      <3>2. 0 \in 0..MaxCharge /\ 0 <= prompt[t] + Excess
        BY AmountsAssumption
      <3> QED
        BY <2>1, <3>1, <3>2, BudgetSettled
    <2>2. CASE t \notin Spending
      <3>1. Kept
        BY <1>12, <2>2 DEF DatabaseFails
      <3> QED
        BY <3>1, <1>0
    <2> QED
      BY <2>1, <2>2
  <1>13. ASSUME Crash PROVE BudgetInv'
    <2>1. used <= Budget
      BY BudgetHolds
    <2>2. Spending' = {} /\ UNCHANGED used
      BY <1>13 DEF Crash, Active, Over
    <2>3. Cardinality(Spending') = 0
      <3>1. Cardinality({}) = 0
        BY FS_EmptySet
      <3> QED
        BY <2>2, <3>1
    <2>4. used' + MaxCharge * Cardinality(Spending') <= Budget'
      BY <2>1, <2>2, <2>3, AmountsAssumption DEF Budget
    <2> QED
      BY <2>4 DEF BudgetInv
  <1>14. CASE UNCHANGED vars
    BY <1>14, <1>0 DEF vars, turnVars
  <1> QED
    BY <1>0, <1>1, <1>2, <1>3, <1>4, <1>5, <1>6, <1>7, <1>8, <1>9, <1>10, <1>11, <1>20,
       <1>12, <1>13, <1>14 DEF Next, Progress, Quiet

(***************************************************************************)
(* The inductive invariant                                                 *)
(***************************************************************************)
LEMMA IndInit == Init => IndInv
  BY TypeInit, PoolInit, TurnInit, RowInit, LockInit, ChargeInit, BudgetInit,
     ShownInit, EarlierInit, AnswerInit, ReplyInit, LostInit DEF IndInv

(* Every step of the specification preserves the conjunction.              *)
LEMMA IndStep == IndInv /\ [Next]_vars => IndInv'
  BY TypeStep, PoolStep, TurnStep, RowStep, LockStep, ChargeStep, BudgetStep,
     ShownStep, EarlierStep, AnswerStep, ReplyStep, LostStep DEF IndInv

(* The invariant holds in every state the backend can reach.               *)
THEOREM Inductive == Spec => []IndInv
  BY IndInit, IndStep, PTL DEF Spec

(***************************************************************************)
(* Safety                                                                  *)
(***************************************************************************)
(* Every variable keeps its type.                                          *)
THEOREM TypeCorrect == Spec => []TypeOK
  <1>1. IndInv => TypeOK
    BY DEF IndInv
  <1> QED
    BY <1>1, Inductive, PTL

(* However many turns run, credits_used never passes the user's credits by *)
(* more than one estimate's error and one charge for every connection of   *)
(* the pool but one.                                                       *)
THEOREM Overdraft == Spec => []OverdraftBounded
  <1>1. IndInv => OverdraftBounded
    BY BudgetHolds DEF IndInv, OverdraftBounded, Budget
  <1> QED
    BY <1>1, Inductive, PTL

(* Whatever a client was told about its turn, the ledger agrees.           *)
THEOREM RepliesAgree == Spec => []ReplyMatchesLedger
  <1>1. IndInv => ReplyMatchesLedger
    BY DEF IndInv
  <1> QED
    BY <1>1, Inductive, PTL

(* No priced answer goes missing from the ledger without a log line.       *)
THEOREM NoSilentLoss == Spec => []LostChargesAreLogged
  <1>1. IndInv => LostChargesAreLogged
    BY DEF IndInv
  <1> QED
    BY <1>1, Inductive, PTL

(* Under the default settings the LLM only ever sees grounded prompts.     *)
THEOREM Grounded == Spec => []SpendsOnlyOnGroundedAnswers
  <1>1. IndInv => SpendsOnlyOnGroundedAnswers
    BY DEF IndInv, AnswerInv, SpendsOnlyOnGroundedAnswers
  <1> QED
    BY <1>1, Inductive, PTL

(***************************************************************************)
(* Action properties                                                       *)
(***************************************************************************)
(* The one new row of a commit and the amount it takes from the balance.   *)
LEMMA CommitMoves ==
  ASSUME IndInv, NEW t \in Turns, at[t] = "usage_commit", Commit(t)
  PROVE  LET e == [turn |-> t, credits |-> charge[t]]
         IN  /\ e \in Entry
             /\ e \notin ledger
             /\ ledger' = ledger \union {e}
             /\ used' = used + e.credits
  <1> DEFINE e == [turn |-> t, credits |-> charge[t]]
  <1>1. e \in Entry
    BY DEF IndInv, TypeOK, Entry
  <1>2. e \notin ledger
    <2>1. Rows(t) = {}
      BY DEF IndInv, RowInv
    <2> QED
      BY <2>1 DEF Rows
  <1>3. used' = used + e.credits
    BY DEF IndInv, LockInv, Commit
  <1> QED
    BY <1>1, <1>2, <1>3 DEF Commit

(* Only a commit touches the database.                                     *)
LEMMA OnlyCommits ==
  ASSUME [Next]_vars
  PROVE  \/ UNCHANGED dbVars
         \/ \E t \in Turns : at[t] = "usage_commit" /\ Commit(t)
  <1> USE DEF dbVars
  <1>1. ASSUME NEW t \in Turns, CommitUsage(t) \/ CommitUnacknowledged(t)
        PROVE  at[t] = "usage_commit" /\ Commit(t)
    BY <1>1 DEF CommitUsage, CommitUnacknowledged
  <1>2. ASSUME NEW t \in Turns,
               \/ StartTurn(t) \/ AnalyzeQuestion(t) \/ PrecheckCredits(t)
               \/ RetrieveKnowledge(t) \/ NoKnowledge(t) \/ BuildContext(t)
               \/ CheckCredits(t) \/ GenerateAnswer(t) \/ UsageAccounting(t)
               \/ ReadBack(t) \/ Respond(t) \/ DatabaseFails(t)
        PROVE  UNCHANGED dbVars
    BY <1>2 DEF StartTurn, AnalyzeQuestion, PrecheckCredits, RetrieveKnowledge,
                NoKnowledge, BuildContext, CheckCredits, GenerateAnswer,
                UsageAccounting, ReadBack, Respond, DatabaseFails, CreditCheck
  <1>3. Crash \/ UNCHANGED vars => UNCHANGED dbVars
    BY DEF Crash, vars
  <1> QED
    BY <1>1, <1>2, <1>3 DEF Next, Progress, Quiet

(* The balance moves only with the ledger, by the amount of one new row.   *)
THEOREM BalanceFollowsLedger == Spec => BalanceMovesWithLedger
  <1>1. ASSUME IndInv, [Next]_vars
        PROVE  [ \/ used' = used /\ ledger' = ledger
                 \/ \E e \in Entry : /\ e \notin ledger
                                     /\ ledger' = ledger \union {e}
                                     /\ used' = used + e.credits ]_vars
    <2>1. CASE UNCHANGED dbVars
      BY <2>1 DEF dbVars
    <2>2. ASSUME NEW t \in Turns, at[t] = "usage_commit", Commit(t)
          PROVE  \E e \in Entry : /\ e \notin ledger
                                  /\ ledger' = ledger \union {e}
                                  /\ used' = used + e.credits
      BY <1>1, <2>2, CommitMoves
    <2> QED
      BY <1>1, <2>1, <2>2, OnlyCommits
  <1> QED
    BY <1>1, Inductive, PTL DEF Spec, BalanceMovesWithLedger

(***************************************************************************)
(* The sum of the ledger                                                   *)
(***************************************************************************)
(* No rows come to nothing.                                                *)
LEMMA CreditsOfNothing == CreditsOf({}) = 0
<1>1. {quantum \in {} \X (1 .. MaxCharge) : quantum[2] <= quantum[1].credits} = {}
  OBVIOUS
<1> QED
  BY <1>1, FS_EmptySet DEF CreditsOf

(* Finitely many rows have finitely many quanta, and fewer rows no more.   *)
LEMMA CreditsOfSome ==
  ASSUME NEW rows, IsFiniteSet(rows), NEW some \in SUBSET rows
  PROVE  /\ IsFiniteSet({q \in rows \X (1 .. MaxCharge) : q[2] <= q[1].credits})
         /\ CreditsOf(rows) \in Nat
         /\ CreditsOf(some) \in Nat /\ CreditsOf(some) <= CreditsOf(rows)
<1> DEFINE Quanta(r) == {q \in r \X (1 .. MaxCharge) : q[2] <= q[1].credits}
<1>1. IsFiniteSet(rows \X (1 .. MaxCharge))
  <2>1. 1 \in Int /\ MaxCharge \in Int
    BY AmountsAssumption
  <2>2. IsFiniteSet(1 .. MaxCharge)
    BY <2>1, FS_Interval
  <2> QED
    BY <2>2, FS_Product
<1>2. Quanta(rows) \in SUBSET (rows \X (1 .. MaxCharge))
  OBVIOUS
<1>3. IsFiniteSet(Quanta(rows))
  BY <1>1, <1>2, FS_Subset
<1>4. Quanta(some) \in SUBSET Quanta(rows)
  OBVIOUS
<1> HIDE DEF Quanta
<1>5. /\ IsFiniteSet(Quanta(some)) /\ Cardinality(Quanta(some)) <= Cardinality(Quanta(rows))
      /\ Cardinality(Quanta(some)) \in Nat /\ Cardinality(Quanta(rows)) \in Nat
  BY <1>3, <1>4, FS_Subset, FS_CardinalityType
<1> QED
  BY <1>3, <1>5 DEF CreditsOf, Quanta

(* One more row adds its credits.                                          *)
LEMMA CreditsOfOneMore ==
  ASSUME NEW rows, IsFiniteSet(rows), NEW e, e \notin rows, e.credits \in 0 .. MaxCharge
  PROVE  CreditsOf(rows \union {e}) = CreditsOf(rows) + e.credits
<1> DEFINE Quanta(r) == {q \in r \X (1 .. MaxCharge) : q[2] <= q[1].credits}
           own == {e} \X (1 .. e.credits)
<1>1. e.credits \in Nat /\ MaxCharge \in Nat
  BY AmountsAssumption
<1>2. Quanta(rows \union {e}) = Quanta(rows) \union own
  <2>1. Quanta({e}) = own
    BY <1>1
  <2>2. Quanta(rows \union {e}) = Quanta(rows) \union Quanta({e})
    OBVIOUS
  <2> QED
    BY <2>1, <2>2
<1>3. Quanta(rows) \intersect own = {}
  OBVIOUS
<1>4. IsFiniteSet(own) /\ Cardinality(own) = e.credits
  <2>1. PICK c \in Nat : c = e.credits
    BY <1>1
  <2>2. IsFiniteSet(1 .. c) /\ Cardinality(1 .. c) = c
    <3>1. 1 \in Int /\ c \in Int
      OBVIOUS
    <3>2. /\ IsFiniteSet(1 .. c)
          /\ Cardinality(1 .. c) = IF 1 > c THEN 0 ELSE c - 1 + 1
      BY <3>1, FS_Interval
    <3> QED
      BY <3>2
  <2>3. IsFiniteSet({e}) /\ Cardinality({e}) = 1
    BY FS_Singleton
  <2>4. IsFiniteSet({e} \X (1 .. c)) /\ Cardinality({e} \X (1 .. c)) = 1 * c
    BY <2>2, <2>3, FS_Product
  <2> QED
    BY <2>1, <2>4
<1>5. IsFiniteSet(Quanta(rows)) /\ Cardinality(Quanta(rows)) \in Nat
  BY CreditsOfSome DEF CreditsOf
<1> HIDE DEF Quanta, own
<1>6. Cardinality(Quanta(rows) \union own)
        = Cardinality(Quanta(rows)) + Cardinality(own) - Cardinality(Quanta(rows) \intersect own)
  BY <1>4, <1>5, FS_Union
<1>7. Cardinality(Quanta(rows) \intersect own) = 0
  BY <1>3, FS_EmptySet
<1>8. Cardinality(Quanta(rows \union {e})) = Cardinality(Quanta(rows)) + e.credits
  <2>1. PICK n \in Nat, c \in Nat : n = Cardinality(Quanta(rows)) /\ c = e.credits
    BY <1>1, <1>5
  <2>2. Cardinality(Quanta(rows \union {e})) = n + c - 0
    BY <1>2, <1>4, <1>6, <1>7, <2>1
  <2>3. n + c - 0 = n + c
    OBVIOUS
  <2> QED
    BY <2>1, <2>2, <2>3
<1> QED
  BY <1>8 DEF CreditsOf, Quanta

LEMMA LedgerInit == Init => LedgerInv
  BY CreditsOfNothing, FS_EmptySet DEF Init, LedgerInv, LedgerMatchesBalance

(* A commit adds its row to the ledger and its credits to the sum.         *)
LEMMA LedgerStep == IndInv /\ LedgerInv /\ [Next]_vars => LedgerInv'
<1> SUFFICES ASSUME IndInv, LedgerInv, [Next]_vars PROVE LedgerInv'
  OBVIOUS
<1>1. CASE UNCHANGED dbVars
  BY <1>1 DEF dbVars, LedgerInv, LedgerMatchesBalance, CreditsOf
<1>2. ASSUME NEW t \in Turns, at[t] = "usage_commit", Commit(t) PROVE LedgerInv'
  <2>1. PICK e \in Entry : e \notin ledger /\ ledger' = ledger \union {e} /\ used' = used + e.credits
    BY <1>2, CommitMoves
  <2>2. e.credits \in 0 .. MaxCharge
    BY <2>1 DEF Entry
  <2>3. IsFiniteSet(ledger')
    BY <2>1, FS_AddElement DEF LedgerInv
  <2>4. CreditsOf(ledger \union {e}) = CreditsOf(ledger) + e.credits
    BY <2>1, <2>2, CreditsOfOneMore DEF LedgerInv
  <2> QED
    BY <2>1, <2>3, <2>4 DEF LedgerInv, LedgerMatchesBalance, CreditsOf
<1> QED
  BY <1>1, <1>2, OnlyCommits

(* Rows and balance in step, whatever turns overlap, fail or are lost.     *)
THEOREM BalanceIsTheSum == Spec => []LedgerMatchesBalance
<1>1. IndInv /\ LedgerInv /\ [Next]_vars => LedgerInv'
  BY LedgerStep
<1>2. LedgerInv => LedgerMatchesBalance
  BY DEF LedgerInv
<1> QED
  BY <1>1, <1>2, LedgerInit, Inductive, PTL DEF Spec

(* Turns read a balance one at a time, and what they have read stays with  *)
(* them; commits are those of turns that have not read theirs.             *)
LEMMA InformedStep ==
  ASSUME IndInv, [Next]_vars
  PROVE  \/ \E t \in Turns :
              /\ at[t] \in {"usage_readback", "no_knowledge"}
              /\ Informed' = Informed \union {t}
              /\ shown' = [shown EXCEPT ![t] = Remaining]
              /\ UNCHANGED <<earlier, dbVars>>
         \/ /\ Informed' \subseteq Informed
            /\ \A t \in Informed :
                  /\ shown'[t] = shown[t] /\ earlier'[t] = earlier[t]
                  /\ at[t] \notin {"idle", "usage_commit"}
  <1> DEFINE Kept == /\ Informed' \subseteq Informed
                     /\ \A t \in Informed : shown'[t] = shown[t] /\ earlier'[t] = earlier[t]
             Read(t) == /\ at[t] \in {"usage_readback", "no_knowledge"}
                        /\ Informed' = Informed \union {t}
                        /\ shown' = [shown EXCEPT ![t] = Remaining]
                        /\ UNCHANGED <<earlier, dbVars>>
  <1>0. TypeOK /\ TurnInv /\ \A t \in Informed : at[t] \notin {"idle", "usage_commit"}
    BY DEF IndInv, TurnInv, Informed, ShowsBalance
  <1> USE <1>0, ErrorsAssumption
      DEF TypeOK, Informed, ShowsBalance, OwnReplies, Goto, Finish, Reject, ReadBalance,
          replyVars, logVars
  <1>1. ASSUME NEW t \in Turns, StartTurn(t) PROVE Kept
    BY <1>1 DEF StartTurn
  <1>2. ASSUME NEW t \in Turns, AnalyzeQuestion(t) PROVE Kept
    BY <1>2 DEF AnalyzeQuestion
  <1>3. ASSUME NEW t \in Turns, PrecheckCredits(t) PROVE Kept
    BY <1>3 DEF PrecheckCredits, CreditCheck
  <1>4. ASSUME NEW t \in Turns, RetrieveKnowledge(t) PROVE Kept
    BY <1>4 DEF RetrieveKnowledge
  <1>5. ASSUME NEW t \in Turns, NoKnowledge(t) PROVE Read(t)
    BY <1>5 DEF NoKnowledge, dbVars
  <1>6. ASSUME NEW t \in Turns, BuildContext(t) PROVE Kept
    BY <1>6 DEF BuildContext
  <1>7. ASSUME NEW t \in Turns, CheckCredits(t) PROVE Kept
    BY <1>7 DEF CheckCredits, CreditCheck
  <1>8. ASSUME NEW t \in Turns, GenerateAnswer(t) PROVE Kept
    BY <1>8 DEF GenerateAnswer
  <1>9. ASSUME NEW t \in Turns, UsageAccounting(t) PROVE Kept
    BY <1>9 DEF UsageAccounting
  <1>10. ASSUME NEW t \in Turns, CommitUsage(t) PROVE Kept
    BY <1>10 DEF CommitUsage
  <1>11. ASSUME NEW t \in Turns, ReadBack(t) PROVE Read(t)
    BY <1>11 DEF ReadBack, dbVars
  <1>20. ASSUME NEW t \in Turns, Respond(t) PROVE Kept
    BY <1>20 DEF Respond
  <1>12. ASSUME NEW t \in Turns, DatabaseFails(t) PROVE Kept
    BY <1>12 DEF DatabaseFails
  <1>13. ASSUME NEW t \in Turns, CommitUnacknowledged(t) PROVE Kept
    BY <1>13 DEF CommitUnacknowledged
  <1>14. ASSUME Crash PROVE Kept
    BY <1>14 DEF Crash
  <1>15. ASSUME UNCHANGED vars PROVE Kept
    BY <1>15 DEF vars, turnVars
  <1> HIDE DEF Kept, Read, TypeOK, Informed, ShowsBalance, OwnReplies, Goto, Finish,
               Reject, ReadBalance, replyVars, logVars
  <1>16. Kept \/ \E t \in Turns : Read(t)
    BY <1>1, <1>2, <1>3, <1>4, <1>5, <1>6, <1>7, <1>8, <1>9, <1>10, <1>11, <1>20,
       <1>12, <1>13, <1>14, <1>15 DEF Next, Progress, Quiet
  <1> QED
    BY <1>0, <1>16 DEF Kept, Read

(* The rows of turns that have read their balance are there to stay.       *)
LEMMA InformedRows ==
  ASSUME IndInv, [Next]_vars, NEW some \in SUBSET Turns,
         \A t \in some : at[t] # "usage_commit"
  PROVE  {e \in ledger' : e.turn \in some} = {e \in ledger : e.turn \in some}
  <1>1. CASE UNCHANGED dbVars
    BY <1>1 DEF dbVars
  <1>2. ASSUME NEW s \in Turns, at[s] = "usage_commit", Commit(s)
        PROVE  {e \in ledger' : e.turn \in some} = {e \in ledger : e.turn \in some}
    BY <1>2 DEF Commit
  <1> QED
    BY <1>1, <1>2, OnlyCommits

(* One that reads its balance finds all the rows there are deducted.       *)
LEMMA BalancesStep == IndInv /\ LedgerInv /\ BalancesInv /\ [Next]_vars => BalancesInv'
  <1> SUFFICES ASSUME IndInv, LedgerInv, BalancesInv, [Next]_vars,
                      NEW some \in (SUBSET Informed') \ {{}}
               PROVE  \E last \in some :
                         /\ shown'[last] + CreditsOf({e \in ledger' : e.turn \in some}) <= Total
                         /\ \A t \in some : last \notin earlier'[t]
    BY DEF BalancesInv, AddUp, CreditsOf
  <1> DEFINE RowsOf(turns) == {e \in ledger : e.turn \in turns}
  <1>1. ASSUME NEW last \in some, some \in SUBSET Informed,
               shown'[last] = shown[last], \A t \in some : earlier'[t] = earlier[t],
               {e \in ledger' : e.turn \in some} = RowsOf(some),
               shown[last] + CreditsOf(RowsOf(some)) <= Total,
               \A t \in some : last \notin earlier[t]
        PROVE  /\ shown'[last] + CreditsOf({e \in ledger' : e.turn \in some}) <= Total
               /\ \A t \in some : last \notin earlier'[t]
    BY <1>1
  <1>2. ASSUME NEW t \in Turns,
               at[t] \in {"usage_readback", "no_knowledge"},
               Informed' = Informed \union {t},
               shown' = [shown EXCEPT ![t] = Remaining],
               UNCHANGED <<earlier, dbVars>>
        PROVE  \E last \in some :
                         /\ shown'[last] + CreditsOf({e \in ledger' : e.turn \in some}) <= Total
                         /\ \A s \in some : last \notin earlier'[s]
    <2>1. CASE t \in some
      <3>1. shown'[t] = Total - used /\ used \in Nat /\ ledger' = ledger
        BY <1>2 DEF IndInv, TypeOK, Remaining, dbVars
      <3>2. CreditsOf(RowsOf(some)) \in Nat /\ CreditsOf(RowsOf(some)) <= used
        <4>1. RowsOf(some) \in SUBSET ledger
          OBVIOUS
        <4> HIDE DEF RowsOf
        <4> QED
          BY <4>1, CreditsOfSome DEF LedgerInv, LedgerMatchesBalance
      <3>3. \A s \in some : t \notin earlier'[s]
        <4>1. some \subseteq Turns /\ reply[t] = "none"
          BY <1>2 DEF Informed, IndInv, TurnInv
        <4> QED
          BY <1>2, <4>1 DEF IndInv, EarlierInv, Told, ShowsBalance
      <3>4. shown'[t] + CreditsOf(RowsOf(some)) <= Total
        BY <3>1, <3>2, AmountsAssumption
      <3> QED
        BY <2>1, <3>1, <3>3, <3>4
    <2>2. CASE t \notin some
      <3>1. some \in (SUBSET Informed) \ {{}}
        BY <1>2, <2>2
      <3>2. PICK last \in some : /\ shown[last] + CreditsOf(RowsOf(some)) <= Total
                                 /\ \A s \in some : last \notin earlier[s]
        BY <3>1 DEF BalancesInv, AddUp
      <3>3. shown'[last] = shown[last]
        BY <1>2, <2>2, <3>1 DEF IndInv, TypeOK, Informed
      <3>4. ledger' = ledger /\ earlier' = earlier
        BY <1>2 DEF dbVars
      <3> QED
        BY <3>1, <3>2, <3>3, <3>4
    <2> QED
      BY <2>1, <2>2
  <1>3. ASSUME Informed' \subseteq Informed,
               \A t \in Informed :
                  /\ shown'[t] = shown[t] /\ earlier'[t] = earlier[t]
                  /\ at[t] \notin {"idle", "usage_commit"}
        PROVE  \E last \in some :
                         /\ shown'[last] + CreditsOf({e \in ledger' : e.turn \in some}) <= Total
                         /\ \A s \in some : last \notin earlier'[s]
    <2>1. some \in (SUBSET Informed) \ {{}} /\ some \in SUBSET Turns
      BY <1>3 DEF Informed
    <2>2. PICK last \in some : /\ shown[last] + CreditsOf(RowsOf(some)) <= Total
                               /\ \A s \in some : last \notin earlier[s]
      BY <2>1 DEF BalancesInv, AddUp
    <2>3. {e \in ledger' : e.turn \in some} = RowsOf(some)
      BY <1>3, <2>1, InformedRows
    <2> HIDE DEF RowsOf
    <2> QED
      BY <1>1, <1>3, <2>1, <2>2, <2>3
  <1> QED
    BY <1>2, <1>3, InformedStep

(* The balances that clients are told add up, whatever order the replies   *)
(* and the commits come in.                                                *)
THEOREM ShownBalances == Spec => []ShownBalancesAddUp
  <1>1. Init => BalancesInv
    BY DEF Init, BalancesInv, AddUp, Informed, ShowsBalance
  <1>2. IndInv /\ LedgerInv /\ [Next]_vars => LedgerInv'
    BY LedgerStep
  <1>3. IndInv /\ LedgerInv /\ BalancesInv /\ [Next]_vars => BalancesInv'
    BY BalancesStep
  <1>4. IndInv /\ BalancesInv => ShownBalancesAddUp
    <2>1. Told \subseteq Informed
      BY DEF Told, Informed
    <2> QED
      BY <2>1 DEF IndInv, ShownInv, BalancesInv, AddUp, ShownBalancesAddUp
  <1> QED
    BY <1>1, <1>2, <1>3, <1>4, LedgerInit, Inductive, PTL DEF Spec

(***************************************************************************)
(* Refinement                                                              *)
(***************************************************************************)
(* A turn's account is open exactly until the turn is over.                *)
LEMMA OpenTurns ==
  ASSUME TypeOK, TurnInv, NEW t \in Turns
  PROVE  verdict[t] = "open" <=> ~Over(t)
  BY DEF TypeOK, TurnInv, verdict, Over

(* Moving on within the graph is invisible to the account.                 *)
LEMMA GotoHidden ==
  ASSUME TypeOK, NEW t \in Turns, NEW node, Goto(t, node), ~Over(t),
         node \notin {"end", "lost"}
  PROVE  verdict' = verdict
  <1>1. \A s \in Turns : (at'[s] = "lost") <=> (at[s] = "lost")
    BY DEF TypeOK, Goto, Over
  <1>2. reply' = reply
    BY DEF Goto, replyVars
  <1> QED
    BY <1>1, <1>2 DEF verdict

(* So is reading the balance for the reply.                                *)
LEMMA ReadHidden ==
  ASSUME TypeOK, NEW t \in Turns, ReadBalance(t), ~Over(t)
  PROVE  verdict' = verdict
  <1>1. \A s \in Turns : (at'[s] = "lost") <=> (at[s] = "lost")
    BY DEF TypeOK, ReadBalance, Over
  <1>2. reply' = reply
    BY DEF ReadBalance
  <1> QED
    BY <1>1, <1>2 DEF verdict

(* Ending a turn decides its verdict and no other.                         *)
LEMMA FinishDecides ==
  ASSUME TypeOK, NEW t \in Turns, ~Over(t), NEW code \in Replies \ {"none"},
         Finish(t, code)
  PROVE  verdict' = [verdict EXCEPT ![t] =
                        IF code = "database_unavailable" THEN "broken"
                        ELSE IF code = "answered" THEN "served"
                        ELSE "declined"]
  <1> DEFINE v == IF code = "database_unavailable" THEN "broken"
                  ELSE IF code = "answered" THEN "served"
                  ELSE "declined"
  <1>1. verdict'[t] = v
    BY DEF TypeOK, Finish, verdict
  <1>2. \A s \in Turns \ {t} : verdict'[s] = verdict[s]
    BY DEF TypeOK, Finish, verdict
  <1>3. verdict \in [Turns -> {"open", "served", "declined", "broken"}]
    BY DEF verdict
  <1>4. verdict' \in [Turns -> {"open", "served", "declined", "broken"}]
    BY DEF verdict
  <1> HIDE DEF v
  <1>5. verdict' = [verdict EXCEPT ![t] = v]
    BY <1>1, <1>2, <1>3, <1>4
  <1> QED
    BY <1>5 DEF v

(* A turn that ends without a row is declined by the account.              *)
LEMMA RejectDeclines ==
  ASSUME IndInv, NEW t \in Turns,
         at[t] \notin {"idle", "usage_readback", "end", "lost"},
         at[t] = "respond" => llm[t] # "priced",
         NEW code \in Replies \ {"none", "answered", "database_unavailable"},
         Finish(t, code), UNCHANGED dbVars
  PROVE  Account!Decline(t)
  <1>1. ~Over(t)
    BY DEF Over
  <1>2. verdict[t] = "open"
    BY <1>1, OpenTurns DEF IndInv
  <1>3. Rows(t) = {}
    BY DEF IndInv, RowInv
  <1>4. ~Account!Charged(t)
    BY <1>3 DEF Account!Charged, Rows
  <1>5. verdict' = [verdict EXCEPT ![t] = "declined"]
    BY <1>1, FinishDecides DEF IndInv
  <1> QED
    BY <1>2, <1>4, <1>5 DEF Account!Decline, dbVars

(* The initial states map to the initial state of the account.             *)
LEMMA AccountInitially == Init => Account!AccountInit
  BY DEF Init, Account!AccountInit, verdict

(* Every step of the chat turns is a step of the account or none.          *)
LEMMA AccountStep ==
  ASSUME IndInv, [Next]_vars
  PROVE  [Account!AccountNext]_(Account!accountVars)
  <1> DEFINE Hidden == UNCHANGED Account!accountVars
  <1>1. ASSUME NEW t \in Turns, StartTurn(t) PROVE Hidden
    BY <1>1, GotoHidden DEF IndInv, StartTurn, Over, dbVars, Account!accountVars
  <1>2. ASSUME NEW t \in Turns, AnalyzeQuestion(t) PROVE Hidden \/ Account!Decline(t)
    BY <1>2, GotoHidden, RejectDeclines
       DEF IndInv, AnalyzeQuestion, Over, dbVars, Reject, Replies, OwnReplies, Account!accountVars
  <1>3. ASSUME NEW t \in Turns, PrecheckCredits(t) PROVE Hidden \/ Account!Decline(t)
    BY <1>3, GotoHidden, RejectDeclines
       DEF IndInv, PrecheckCredits, CreditCheck, Over, dbVars, Reject, Replies, OwnReplies,
           Account!accountVars
  <1>4. ASSUME NEW t \in Turns, RetrieveKnowledge(t) PROVE Hidden \/ Account!Decline(t)
    BY <1>4, GotoHidden, RejectDeclines, ErrorsAssumption
       DEF IndInv, RetrieveKnowledge, Over, dbVars, Reject, Replies, OwnReplies,
           Account!accountVars
  <1>5. ASSUME NEW t \in Turns, NoKnowledge(t) PROVE Hidden
    BY <1>5, ReadHidden DEF IndInv, NoKnowledge, Over, dbVars, Account!accountVars
  <1>6. ASSUME NEW t \in Turns, BuildContext(t) PROVE Hidden
    BY <1>6, GotoHidden DEF IndInv, BuildContext, Over, dbVars, Account!accountVars
  <1>7. ASSUME NEW t \in Turns, CheckCredits(t) PROVE Hidden \/ Account!Decline(t)
    BY <1>7, GotoHidden, RejectDeclines
       DEF IndInv, CheckCredits, CreditCheck, Over, dbVars, Reject, Replies, OwnReplies,
           Account!accountVars
  <1>8. ASSUME NEW t \in Turns, GenerateAnswer(t) PROVE Hidden \/ Account!Decline(t)
    BY <1>8, GotoHidden, RejectDeclines, ErrorsAssumption
       DEF IndInv, GenerateAnswer, Over, dbVars, Reject, Replies, OwnReplies,
           Account!accountVars
  <1>9. ASSUME NEW t \in Turns, UsageAccounting(t) PROVE Hidden \/ Account!Decline(t)
    BY <1>9, GotoHidden, RejectDeclines
       DEF IndInv, UsageAccounting, Over, dbVars, Reject, Replies, OwnReplies,
           Account!accountVars
  <1>10. ASSUME NEW t \in Turns, CommitUsage(t)
         PROVE  \E c \in 0..MaxCharge : Account!Charge(t, c)
    <2>1. at[t] = "usage_commit" /\ Commit(t) /\ ~Over(t)
      BY <1>10 DEF CommitUsage, Over
    <2>2. verdict' = verdict
      BY <1>10, <2>1, GotoHidden DEF IndInv, CommitUsage
    <2>3. verdict[t] = "open"
      BY <2>1, OpenTurns DEF IndInv
    <2>4. ~Account!Charged(t)
      BY <2>1 DEF IndInv, RowInv, Rows, Account!Charged
    <2>5. /\ charge[t] \in 0..MaxCharge
          /\ used' = used + charge[t]
          /\ ledger' = ledger \union {[turn |-> t, credits |-> charge[t]]}
      BY <2>1 DEF IndInv, TypeOK, LockInv, Commit
    <2> QED
      BY <2>2, <2>3, <2>4, <2>5 DEF Account!Charge
  <1>11. ASSUME NEW t \in Turns, ReadBack(t) PROVE Hidden
    BY <1>11, ReadHidden DEF IndInv, ReadBack, Over, dbVars, Account!accountVars
  <1>20. ASSUME NEW t \in Turns, Respond(t) PROVE Account!Serve(t) \/ Account!Decline(t)
    <2>1. at[t] = "respond" /\ ~Over(t) /\ UNCHANGED dbVars
      BY <1>20 DEF Respond, Over
    <2>2. CASE llm[t] = "priced"
      <3>1. Finish(t, "answered")
        BY <1>20, <2>2 DEF Respond, Reject
      <3>2. verdict[t] = "open" /\ verdict' = [verdict EXCEPT ![t] = "served"]
        BY <2>1, <3>1, OpenTurns, FinishDecides DEF IndInv, Replies, OwnReplies
      <3>3. [turn |-> t, credits |-> charge[t]] \in Rows(t)
        BY <2>1, <2>2 DEF IndInv, RowInv
      <3>4. Account!Charged(t)
        BY <3>3 DEF Rows, Account!Charged
      <3> QED
        BY <2>1, <3>2, <3>4 DEF Account!Serve, dbVars
    <2>3. CASE llm[t] # "priced"
      <3>1. Finish(t, "no_knowledge")
        BY <1>20, <2>3 DEF Respond, Reject
      <3> QED
        BY <2>1, <2>3, <3>1, RejectDeclines DEF Replies, OwnReplies
    <2> QED
      BY <2>2, <2>3
  <1>12. ASSUME NEW t \in Turns, DatabaseFails(t) PROVE Account!Break({t})
    <2>1. ~Over(t) /\ Finish(t, "database_unavailable") /\ UNCHANGED dbVars
      BY <1>12 DEF DatabaseFails, QueryNodes, Over
    <2>2. verdict[t] = "open" /\ verdict' = [verdict EXCEPT ![t] = "broken"]
      BY <2>1, OpenTurns, FinishDecides DEF IndInv, Replies, OwnReplies
    <2>3. verdict' = [s \in Turns |-> IF s \in {t} THEN "broken" ELSE verdict[s]]
      BY <2>2 DEF verdict
    <2> QED
      BY <2>1, <2>2, <2>3 DEF Account!Break, dbVars
  <1>13. ASSUME NEW t \in Turns, CommitUnacknowledged(t)
         PROVE  \E c \in 0..MaxCharge : Account!ChargeAndBreak(t, c)
    <2>1. /\ at[t] = "usage_commit"
          /\ Commit(t)
          /\ ~Over(t)
          /\ Finish(t, "database_unavailable")
      BY <1>13 DEF CommitUnacknowledged, Over
    <2>2. verdict[t] = "open" /\ verdict' = [verdict EXCEPT ![t] = "broken"]
      BY <2>1, OpenTurns, FinishDecides DEF IndInv, Replies, OwnReplies
    <2>3. ~Account!Charged(t)
      BY <2>1 DEF IndInv, RowInv, Rows, Account!Charged
    <2>4. /\ charge[t] \in 0..MaxCharge
          /\ used' = used + charge[t]
          /\ ledger' = ledger \union {[turn |-> t, credits |-> charge[t]]}
      BY <2>1 DEF IndInv, TypeOK, LockInv, Commit
    <2> QED
      BY <2>2, <2>3, <2>4 DEF Account!ChargeAndBreak
  <1>14. ASSUME Crash PROVE Account!Break({t \in Turns : Active(t)})
    <2>1. \A t \in {s \in Turns : Active(s)} : verdict[t] = "open"
      BY OpenTurns DEF IndInv, Active
    <2>2. verdict' = [t \in Turns |-> IF t \in {s \in Turns : Active(s)} THEN "broken"
                                      ELSE verdict[t]]
      BY <1>14 DEF Crash, verdict, Active, Over, replyVars
    <2> QED
      BY <1>14, <2>1, <2>2 DEF Account!Break, Crash, dbVars
  <1>15. CASE UNCHANGED vars
    <2>1. Hidden
      BY <1>15 DEF vars, turnVars, replyVars, dbVars, verdict, Account!accountVars
    <2> QED
      BY <2>1
  <1> QED
    BY <1>1, <1>2, <1>3, <1>4, <1>5, <1>6, <1>7, <1>8, <1>9, <1>10, <1>11, <1>20, <1>12,
       <1>13, <1>14, <1>15 DEF Next, Progress, Quiet, Account!AccountNext

(* The concurrent chat turns implement the abstract credit account.        *)
THEOREM Refinement == Spec => ImplementsAccount
  BY AccountInitially, AccountStep, Inductive, PTL
  DEF Spec, ImplementsAccount, Account!AccountSpec
=============================================================================
