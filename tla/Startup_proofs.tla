--------------------------- MODULE Startup_proofs ---------------------------
(***************************************************************************)
(* Whatever number of processes start at once, fail and die, a process     *)
(* that serves has its schema and its user, and the user keeps grant and   *)
(* use.                                                                    *)
(***************************************************************************)
EXTENDS Startup, TLAPS

(* What the steps of one process leave alone in the others.                *)
LEMMA Places ==
  ASSUME StartupTypeOK, NEW p \in Processes,
         NEW place \in Starting \union {"down", "failed", "serving"}, Goto(p, place)
  PROVE  /\ pc' \in [Processes -> Starting \union {"down", "failed", "serving"}]
         /\ pc'[p] = place
         /\ \A q \in Processes \ {p} : pc'[q] = pc[q]
  BY DEF StartupTypeOK, Goto

LEMMA InitInv == Init => StartupInv
<1> SUFFICES ASSUME Init PROVE StartupInv
  OBVIOUS
<1>1. 0 \in 0 .. MaxUsed /\ 0 \in 0 .. Objects
  BY StartupAssumption DEF Objects
<1>2. \A p \in Processes : pc[p] = "down" /\ step[p] = 0
  BY DEF Init
<1>3. /\ pc \in [Processes -> Starting \union {"down", "failed", "serving"}]
      /\ step \in [Processes -> 0 .. Objects]
      /\ undisturbed \in [Processes -> BOOLEAN]
  BY <1>1 DEF Init
<1> QED
  BY <1>1, <1>2, <1>3 DEF Init, StartupInv, StartupTypeOK

LEMMA StartInv ==
  ASSUME StartupInv, NEW p \in Processes, Start(p) PROVE StartupInv'
<1>1. PICK g \in Grants, m \in BOOLEAN :
         /\ grant' = [grant EXCEPT ![p] = g]
         /\ migrates' = [migrates EXCEPT ![p] = m]
         /\ Goto(p, IF m THEN "connecting" ELSE "seeding")
  BY DEF Start
<1>2. /\ pc' \in [Processes -> Starting \union {"down", "failed", "serving"}]
      /\ pc'[p] = (IF m THEN "connecting" ELSE "seeding")
      /\ \A q \in Processes \ {p} : pc'[q] = pc[q]
  BY <1>1, Places DEF StartupInv, Starting
<1>3. undisturbed' \in [Processes -> BOOLEAN]
  <2>1. PICK f : undisturbed' = f
    OBVIOUS
  <2>2. DOMAIN undisturbed' = Processes /\ undisturbed' = [q \in Processes |-> undisturbed'[q]]
    BY DEF Start
  <2>3. \A q \in Processes : undisturbed'[q] \in BOOLEAN
    <3> TAKE q \in Processes
    <3>1. undisturbed'[q] = (/\ \A other \in Processes \ {p} : pc[other] \notin Starting
                             /\ IF q = p THEN ~HalfMigrated /\ (migrates'[p] \/ stamped)
                                ELSE undisturbed[q] /\ pc[q] \notin Starting)
      BY DEF Start
    <3> QED  BY <3>1, Zenon
  <2> QED  BY <2>2, <2>3
<1>4. StartupTypeOK'
  <2>1. grant' \in [Processes -> Grants] /\ migrates' \in [Processes -> BOOLEAN]
    BY <1>1 DEF StartupInv, StartupTypeOK
  <2>2. step' \in [Processes -> 0 .. Objects]
    BY DEF StartupInv, StartupTypeOK, Start, Objects
  <2>3. UNCHANGED <<transactional, created, stamped, total, used>>
    BY DEF Start, dbVars
  <2> QED
    BY <1>2, <1>3, <2>1, <2>2, <2>3 DEF StartupInv, StartupTypeOK
<1>5. /\ \A q \in Processes \ {p} : migrates'[q] = migrates[q] /\ step'[q] = step[q]
      /\ migrates'[p] = m
  BY <1>1 DEF Start, StartupInv, StartupTypeOK
<1>6. UNCHANGED dbVars /\ step'[p] = 0 /\ created \in Nat
  BY DEF Start, StartupInv, StartupTypeOK, Objects
<1> QED  BY <1>2, <1>4, <1>5, <1>6 DEF StartupInv, dbVars

LEMMA CreateObjectInv ==
  ASSUME StartupInv, NEW p \in Processes, CreateObject(p) PROVE StartupInv'
<1> USE DEF StartupInv, StartupTypeOK
<1>1. CASE created > step[p]
  <2>1. Goto(p, "failed") /\ UNCHANGED <<created, step>>  BY <1>1 DEF CreateObject
  <2> QED
    BY <2>1, Places DEF CreateObject, settingVars, Starting
<1>2. CASE ~(created > step[p])
  <2>1. /\ step' = [step EXCEPT ![p] = @ + 1]
        /\ created' = IF transactional THEN created ELSE step[p] + 1
        /\ UNCHANGED pc
    BY <1>2 DEF CreateObject
  <2>2. step' \in [Processes -> 0 .. Objects] /\ created' \in 0 .. Objects
    BY <2>1 DEF CreateObject, Objects
  <2>3. ~stamped
    BY <1>2 DEF CreateObject, Objects
  <2>4. created <= created'
    BY <1>2, <2>1 DEF Objects
  <2> QED
    BY <2>1, <2>2, <2>3, <2>4 DEF CreateObject, settingVars, Objects
<1> QED  BY <1>1, <1>2

LEMMA OtherStepsInv ==
  ASSUME StartupInv, NEW p \in Processes,
         ReadVersion(p) \/ Stamp(p) \/ GetUser(p) \/ InsertUser(p) \/ Serve(p)
           \/ DatabaseFails(p) \/ Stop(p)
  PROVE  StartupInv'
<1> USE DEF StartupInv, StartupTypeOK, settingVars, dbVars
<1>1. CASE ReadVersion(p)
  <2>1. Goto(p, IF stamped THEN "seeding" ELSE "migrating")  BY <1>1 DEF ReadVersion
  <2>2. pc'[p] = (IF stamped THEN "seeding" ELSE "migrating")
        /\ pc' \in [Processes -> Starting \union {"down", "failed", "serving"}]
        /\ \A q \in Processes \ {p} : pc'[q] = pc[q]
    BY <2>1, Places DEF Starting
  <2> QED  BY <1>1, <2>2 DEF ReadVersion
<1>2. CASE Stamp(p)
  BY <1>2, Places DEF Stamp, Starting, Objects
<1>3. CASE GetUser(p)
  <2>1. pc'[p] \in {"failed", "inserting", "serving"}
        /\ pc' \in [Processes -> Starting \union {"down", "failed", "serving"}]
        /\ \A q \in Processes \ {p} : pc'[q] = pc[q]
    BY <1>3, Places DEF GetUser, Starting
  <2>2. pc[p] = "seeding" /\ (pc'[p] = "serving" => total # NoUser)
    BY <1>3, <2>1 DEF GetUser, Goto
  <2> QED  BY <1>3, <2>1, <2>2 DEF GetUser
<1>4. CASE InsertUser(p)
  <2>1. CASE total = NoUser
    <3>1. total' = grant[p] /\ total' \in Grants /\ total' # NoUser /\ Goto(p, "serving")
      BY <1>4, <2>1, StartupAssumption DEF InsertUser
    <3> QED  BY <1>4, <3>1, Places DEF InsertUser, Starting
  <2>2. CASE total # NoUser
    BY <1>4, <2>2, Places DEF InsertUser, Starting
  <2> QED  BY <2>1, <2>2
<1>5. CASE Serve(p)
  <2>1. used' \in 0 .. MaxUsed  BY <1>5, StartupAssumption DEF Serve
  <2> QED  BY <1>5, <2>1 DEF Serve
<1>6. CASE DatabaseFails(p)
  BY <1>6, Places DEF DatabaseFails, Starting
<1>7. CASE Stop(p)
  BY <1>7, Places DEF Stop, Starting
<1> QED  BY <1>1, <1>2, <1>3, <1>4, <1>5, <1>6, <1>7

LEMMA NextInv == ASSUME StartupInv, [Next]_vars PROVE StartupInv'
<1>1. CASE Next
  <2>1. PICK p \in Processes :
          Start(p) \/ ReadVersion(p) \/ CreateObject(p) \/ Stamp(p) \/ GetUser(p)
            \/ InsertUser(p) \/ Serve(p) \/ DatabaseFails(p) \/ Stop(p)
    BY <1>1 DEF Next
  <2> QED  BY <2>1, StartInv, CreateObjectInv, OtherStepsInv
<1>2. CASE UNCHANGED vars
  BY <1>2 DEF StartupInv, StartupTypeOK, vars, dbVars, settingVars
<1> QED  BY <1>1, <1>2

(* The invariant behind the two properties below.                          *)
THEOREM StartupInductive == Spec => []StartupInv
<1>1. Init => StartupInv  BY InitInv
<1>2. StartupInv /\ [Next]_vars => StartupInv'  BY NextInv
<1> QED  BY <1>1, <1>2, PTL DEF Spec

(* Type correctness of the processes that start.                           *)
THEOREM StartupTypeCorrect == Spec => []StartupTypeOK
<1>1. StartupInv => StartupTypeOK  BY DEF StartupInv
<1> QED  BY <1>1, StartupInductive, PTL

(* Whoever serves after migrating has the whole schema and a user row.     *)
THEOREM ServersAreReady == Spec => []ServingMeansReady
<1>1. StartupInv => ServingMeansReady  BY DEF StartupInv, ServingMeansReady
<1> QED  BY <1>1, StartupInductive, PTL

(* ensure_user never touches a row that is there.                          *)
THEOREM BalanceSurvives == Spec => RestartsKeepTheBalance
<1> DEFINE Kept == total # NoUser => total' = total /\ used' >= used
<1>1. StartupInv /\ [Next]_vars => [Kept]_vars
  <2> SUFFICES ASSUME StartupInv, Next PROVE Kept
    OBVIOUS
  <2> USE DEF StartupInv, StartupTypeOK, dbVars
  <2>1. used' = used => used' >= used  BY StartupAssumption
  <2>2. PICK p \in Processes :
          Start(p) \/ ReadVersion(p) \/ CreateObject(p) \/ Stamp(p) \/ GetUser(p)
            \/ InsertUser(p) \/ Serve(p) \/ DatabaseFails(p) \/ Stop(p)
    BY DEF Next
  <2>3. CASE Serve(p)
    BY <2>3, StartupAssumption DEF Serve
  <2>4. CASE ~Serve(p)
    BY <2>1, <2>2, <2>4 DEF Start, ReadVersion, CreateObject, Stamp, GetUser, InsertUser,
                            DatabaseFails, Stop
  <2> QED  BY <2>3, <2>4
<1> QED  BY <1>1, StartupInductive, PTL DEF Spec, RestartsKeepTheBalance

(* A start that begins disturbs the others that are under way.             *)
LEMMA UndisturbedStart ==
  ASSUME StartupInv, UndisturbedInv, NEW p \in Processes, Start(p) PROVE UndisturbedInv'
<1>1. PICK g \in Grants, m \in BOOLEAN :
         /\ migrates' = [migrates EXCEPT ![p] = m]
         /\ Goto(p, IF m THEN "connecting" ELSE "seeding")
  BY DEF Start
<1>2. /\ pc'[p] = (IF m THEN "connecting" ELSE "seeding") /\ migrates'[p] = m
      /\ \A q \in Processes \ {p} : pc'[q] = pc[q]
  BY <1>1, Places DEF StartupInv, StartupTypeOK, Starting
<1>3. /\ UNCHANGED <<transactional, created, stamped, total, used>> /\ step'[p] = 0
      /\ \A q \in Processes : undisturbed'[q] =
            (/\ \A other \in Processes \ {p} : pc[other] \notin Starting
             /\ IF q = p THEN ~HalfMigrated /\ (migrates'[p] \/ stamped)
                ELSE undisturbed[q] /\ pc[q] \notin Starting)
  BY DEF Start, dbVars, StartupInv, StartupTypeOK
<1>4. ASSUME NEW q \in Processes, undisturbed'[q], q # p
      PROVE  undisturbed[q] /\ pc'[q] = pc[q] /\ pc[q] \notin Starting
  BY <1>2, <1>3, <1>4
<1>5. ASSUME undisturbed'[p]
      PROVE  /\ \A other \in Processes \ {p} : pc'[other] \notin Starting
             /\ ~HalfMigrated' /\ (m \/ stamped')
  BY <1>2, <1>3, <1>5 DEF HalfMigrated
<1> QED
  BY <1>2, <1>3, <1>4, <1>5 DEF UndisturbedInv, Starting

(* A process that is not starting leaves the schema alone, and a start     *)
(* that nothing disturbs finds the objects, and the row, that it expects.  *)
LEMMA UndisturbedSteps ==
  ASSUME StartupInv, UndisturbedInv, NEW p \in Processes,
         ReadVersion(p) \/ CreateObject(p) \/ Stamp(p) \/ GetUser(p) \/ InsertUser(p)
  PROVE  UndisturbedInv'
<1>1. pc[p] \in Starting /\ undisturbed' = undisturbed
  BY DEF ReadVersion, CreateObject, Stamp, GetUser, InsertUser, Starting
<1>2. /\ \A q \in Processes \ {p} : pc'[q] = pc[q]
      /\ pc'[p] \in Starting \union {"failed", "serving"}
  BY DEF ReadVersion, CreateObject, Stamp, GetUser, InsertUser, Goto, StartupInv, StartupTypeOK,
         Starting
<1>3. ASSUME NEW q \in Processes \ {p}, undisturbed'[q]
      PROVE  pc'[q] # "failed" /\ pc'[q] \notin Starting
  BY <1>1, <1>2, <1>3 DEF UndisturbedInv
<1>4. ASSUME undisturbed'[p]
      PROVE  /\ pc'[p] # "failed"
             /\ pc'[p] = "connecting" => ~HalfMigrated' /\ step'[p] = 0
             /\ pc'[p] = "migrating" =>
                   ~stamped' /\ created' = IF transactional' THEN 0 ELSE step'[p]
             /\ pc'[p] = "seeding" => stamped'
             /\ pc'[p] = "inserting" => total' = NoUser
  <2>1. /\ undisturbed[p] /\ created \in 0 .. Objects /\ step[p] \in 0 .. Objects
        /\ stamped => created = Objects
        /\ pc \in [Processes -> Starting \union {"down", "failed", "serving"}]
    BY <1>1, <1>4 DEF StartupInv, StartupTypeOK
  <2>2. CASE ReadVersion(p)
    <3>1. /\ pc[p] = "connecting" /\ pc'[p] = (IF stamped THEN "seeding" ELSE "migrating")
          /\ UNCHANGED <<transactional, created, stamped, total, step>>
      BY <2>1, <2>2 DEF ReadVersion, Goto, dbVars
    <3>2. ~HalfMigrated /\ step[p] = 0
      BY <2>1, <3>1 DEF UndisturbedInv
    <3> QED
      BY <2>1, <3>1, <3>2 DEF HalfMigrated, Objects
  <2>3. CASE CreateObject(p)
    <3>1. pc[p] = "migrating" /\ ~stamped /\ created = IF transactional THEN 0 ELSE step[p]
      BY <2>1, <2>3 DEF UndisturbedInv, CreateObject
    <3>2. ~(created > step[p])
      BY <2>1, <3>1 DEF Objects
    <3>3. /\ step' = [step EXCEPT ![p] = @ + 1] /\ pc' = pc
          /\ created' = IF transactional THEN created ELSE step[p] + 1
          /\ transactional' = transactional /\ stamped' = stamped
      BY <2>3, <3>2 DEF CreateObject
    <3>4. step'[p] = step[p] + 1
      BY <3>3 DEF StartupInv, StartupTypeOK
    <3> QED
      BY <3>1, <3>3, <3>4
  <2>4. CASE Stamp(p)
    BY <2>1, <2>4 DEF Stamp, Goto
  <2>5. CASE GetUser(p)
    <3>1. pc[p] = "seeding" /\ stamped
      BY <2>1, <2>5 DEF UndisturbedInv, GetUser
    <3>2. created # 0
      BY <2>1, <3>1 DEF Objects
    <3>3. pc'[p] = (IF total = NoUser THEN "inserting" ELSE "serving") /\ total' = total
      BY <2>1, <2>5, <3>2 DEF GetUser, Goto, dbVars
    <3> QED
      BY <3>3
  <2>6. CASE InsertUser(p)
    <3>1. total = NoUser
      BY <2>1, <2>6 DEF UndisturbedInv, InsertUser
    <3>2. pc'[p] = "serving"
      BY <2>1, <2>6, <3>1 DEF InsertUser, Goto
    <3> QED
      BY <3>2
  <2> QED
    BY <2>2, <2>3, <2>4, <2>5, <2>6
<1>5. undisturbed'[p] => \A other \in Processes \ {p} : pc'[other] \notin Starting
  BY <1>1, <1>2 DEF UndisturbedInv
<1> QED
  BY <1>3, <1>4, <1>5 DEF UndisturbedInv, Starting

LEMMA UndisturbedRest ==
  ASSUME StartupInv, UndisturbedInv, NEW p \in Processes, Serve(p) \/ DatabaseFails(p) \/ Stop(p)
  PROVE  UndisturbedInv'
<1>1. /\ UNCHANGED <<transactional, created, stamped, total, step>>
      /\ \A q \in Processes : undisturbed'[q] => undisturbed[q]
  BY DEF Serve, DatabaseFails, Stop, dbVars, StartupInv, StartupTypeOK
<1>2. \A q \in Processes : pc'[q] = pc[q] \/ pc'[q] = "down" \/ (pc'[q] = "failed" /\ ~undisturbed'[q])
  BY DEF Serve, DatabaseFails, Stop, Goto, StartupInv, StartupTypeOK
<1> QED
  BY <1>1, <1>2 DEF UndisturbedInv, HalfMigrated, Starting

(* A start fails for a reason: the database, another start at the same     *)
(* time, or a migration that died half way on SQLite (_startup).           *)
THEOREM UndisturbedSucceed == Spec => []UndisturbedStartsSucceed
<1>1. Init => UndisturbedInv
  BY DEF Init, UndisturbedInv
<1>2. StartupInv /\ UndisturbedInv /\ [Next]_vars => UndisturbedInv'
  <2>1. UndisturbedInv /\ UNCHANGED vars => UndisturbedInv'
    BY DEF UndisturbedInv, HalfMigrated, vars, dbVars, settingVars
  <2> QED
    BY <2>1, UndisturbedStart, UndisturbedSteps, UndisturbedRest DEF Next
<1>3. UndisturbedInv => UndisturbedStartsSucceed
  BY DEF UndisturbedInv, UndisturbedStartsSucceed
<1> QED
  BY <1>1, <1>2, <1>3, StartupInductive, PTL DEF Spec
=============================================================================
