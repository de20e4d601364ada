------------------------------- MODULE Startup -------------------------------
(***************************************************************************)
(* Backend processes that start, serve and die over one database: Alembic  *)
(* brings the schema to its head revision, then the user of the settings   *)
(* is created unless it exists (app/main.py, _startup). The database is    *)
(* PostgreSQL, whose migrations are transactions, or SQLite, where each    *)
(* statement that creates a table or an index takes effect at once.        *)
(***************************************************************************)
EXTENDS Integers

CONSTANTS
    Processes,
    Grants,        \* values of DEV_USER_INITIAL_CREDITS
    NoUser,        \* no row in users
    MaxUsed        \* bound on the credits used

ASSUME StartupAssumption ==
    /\ Grants \subseteq Nat /\ NoUser \notin Nat
    /\ MaxUsed \in Nat

(* users, usage_records and the two indexes of usage_records.              *)
Objects == 4

VARIABLES
    transactional,  \* PostgreSQL, or SQLite
    created,        \* how many of the objects are there for everyone
    stamped,        \* the revision is in alembic_version
    total,          \* total_credits of the user, or NoUser
    used,           \* credits_used of the user
    pc,             \* where each process is
    step,           \* objects the process has created in this migration
    grant,          \* its DEV_USER_INITIAL_CREDITS
    migrates,       \* its DB_AUTO_MIGRATE
    undisturbed     \* no other start, no failure, nothing half done around it

dbVars == <<transactional, created, stamped, total, used>>
settingVars == <<grant, migrates>>
vars == <<dbVars, pc, step, settingVars, undisturbed>>

Starting == {"connecting", "migrating", "seeding", "inserting"}

StartupTypeOK ==
    /\ transactional \in BOOLEAN
    /\ created \in 0 .. Objects
    /\ stamped \in BOOLEAN
    /\ total \in Grants \union {NoUser}
    /\ used \in 0 .. MaxUsed
    /\ pc \in [Processes -> Starting \union {"down", "failed", "serving"}]
    /\ step \in [Processes -> 0 .. Objects]
    /\ grant \in [Processes -> Grants]
    /\ migrates \in [Processes -> BOOLEAN]
    /\ undisturbed \in [Processes -> BOOLEAN]

Init ==
    /\ transactional \in BOOLEAN
    /\ created = 0
    /\ stamped = FALSE
    /\ total = NoUser
    /\ used = 0
    /\ pc = [p \in Processes |-> "down"]
    /\ step = [p \in Processes |-> 0]
    /\ grant \in [Processes -> Grants]
    /\ migrates \in [Processes -> BOOLEAN]
    /\ undisturbed = [p \in Processes |-> FALSE]

Goto(p, place) == pc' = [pc EXCEPT ![p] = place]

(* A migration that stopped half way on SQLite.                            *)
HalfMigrated == created > 0 /\ ~stamped

(* The lifespan of an app begins, with the settings of its environment.    *)
Start(p) ==
    /\ pc[p] \in {"down", "failed"}
    /\ \E g \in Grants, m \in BOOLEAN :
          /\ grant' = [grant EXCEPT ![p] = g]
          /\ migrates' = [migrates EXCEPT ![p] = m]
          /\ Goto(p, IF m THEN "connecting" ELSE "seeding")
    /\ step' = [step EXCEPT ![p] = 0]
    /\ undisturbed' = [q \in Processes |->
          /\ \A other \in Processes \ {p} : pc[other] \notin Starting
          /\ IF q = p THEN ~HalfMigrated /\ (migrates'[p] \/ stamped)
                      ELSE undisturbed[q] /\ pc[q] \notin Starting]
    /\ UNCHANGED dbVars

(* upgrade: nothing to do at head, or the steps from base.                 *)
ReadVersion(p) ==
    /\ pc[p] = "connecting"
    /\ Goto(p, IF stamped THEN "seeding" ELSE "migrating")
    /\ UNCHANGED <<dbVars, step, settingVars, undisturbed>>

(* Objects another process has created and not committed.                  *)
Uncommitted(p) ==
    transactional /\ \E q \in Processes \ {p} : pc[q] = "migrating" /\ step[q] > 0

(* One more create_table or create_index. PostgreSQL waits for a           *)
(* transaction that has created the object; then it may exist.             *)
CreateObject(p) ==
    /\ pc[p] = "migrating"
    /\ step[p] < Objects
    /\ ~Uncommitted(p)
    /\ IF created > step[p]
       THEN /\ Goto(p, "failed")
            /\ UNCHANGED <<created, step>>
       ELSE /\ step' = [step EXCEPT ![p] = @ + 1]
            /\ created' = IF transactional THEN created ELSE step[p] + 1
            /\ UNCHANGED pc
    /\ UNCHANGED <<transactional, stamped, total, used, settingVars, undisturbed>>

(* Mutant: the revision is stored before the objects are created.          *)
StampFirst(p) ==
    /\ pc[p] = "migrating"
    /\ stamped' = TRUE
    /\ created' = IF transactional THEN step[p] ELSE created
    /\ Goto(p, "seeding")
    /\ UNCHANGED <<transactional, total, used, step, settingVars, undisturbed>>

(* The revision is stored, and the transaction of the migration commits.   *)
Stamp(p) ==
    /\ pc[p] = "migrating"
    /\ step[p] = Objects
    /\ stamped' = TRUE
    /\ created' = Objects
    /\ Goto(p, "seeding")
    /\ UNCHANGED <<transactional, total, used, step, settingVars, undisturbed>>

(* Mutant: the row is not looked up.                                       *)
GetUserBlind(p) ==
    /\ pc[p] = "seeding"
    /\ Goto(p, IF created = 0 THEN "failed" ELSE "inserting")
    /\ UNCHANGED <<dbVars, step, settingVars, undisturbed>>

(* ensure_user: db.get. Without the table the query fails.                 *)
GetUser(p) ==
    /\ pc[p] = "seeding"
    /\ Goto(p, IF created = 0 THEN "failed"
               ELSE IF total = NoUser THEN "inserting" ELSE "serving")
    /\ UNCHANGED <<dbVars, step, settingVars, undisturbed>>

(* Mutant: the row is written whatever is there (Session.merge).           *)
UpsertUser(p) ==
    /\ pc[p] = "inserting"
    /\ total' = grant[p]
    /\ used' = 0
    /\ Goto(p, "serving")
    /\ UNCHANGED <<transactional, created, stamped, step, settingVars, undisturbed>>

(* ensure_user: add and commit; another process may have inserted first.   *)
InsertUser(p) ==
    /\ pc[p] = "inserting"
    /\ IF total = NoUser
       THEN /\ total' = grant[p]
            /\ Goto(p, "serving")
       ELSE /\ Goto(p, "failed")
            /\ UNCHANGED total
    /\ UNCHANGED <<transactional, created, stamped, used, step, settingVars, undisturbed>>

(* A chat turn is charged.                                                 *)
Serve(p) ==
    /\ pc[p] = "serving"
    /\ used < MaxUsed
    /\ used' = used + 1
    /\ UNCHANGED <<transactional, created, stamped, total, pc, step, settingVars, undisturbed>>

(* The database cannot be reached or is locked too long: the lifespan      *)
(* raises, and what a transaction has created is rolled back.              *)
DatabaseFails(p) ==
    /\ pc[p] \in Starting
    /\ Goto(p, "failed")
    /\ undisturbed' = [undisturbed EXCEPT ![p] = FALSE]
    /\ UNCHANGED <<dbVars, step, settingVars>>

(* The process ends, wherever it is.                                       *)
Stop(p) ==
    /\ pc[p] \notin {"down", "failed"}
    /\ Goto(p, "down")
    /\ UNCHANGED <<dbVars, step, settingVars, undisturbed>>

Next ==
    \E p \in Processes :
        Start(p) \/ ReadVersion(p) \/ CreateObject(p) \/ Stamp(p) \/ GetUser(p)
          \/ InsertUser(p) \/ Serve(p) \/ DatabaseFails(p) \/ Stop(p)

Spec == Init /\ [][Next]_vars

(* A process that migrates at startup serves only with the whole schema    *)
(* and a user, whoever else was migrating, failing or dying meanwhile.     *)
ServingMeansReady ==
    \A p \in Processes :
        pc[p] = "serving" /\ migrates[p] => created = Objects /\ stamped /\ total # NoUser

(* No number of restarts, with whatever DEV_USER_INITIAL_CREDITS, gives    *)
(* the user credits back or another grant.                                 *)
RestartsKeepTheBalance ==
    [][total # NoUser => total' = total /\ used' >= used]_vars

(* A start fails only for a reason outside of it: the database, another    *)
(* start at the same time, a migration that died half way on SQLite, or    *)
(* that it is not to migrate (DB_AUTO_MIGRATE) and the schema is not there.*)
UndisturbedStartsSucceed ==
    \A p \in Processes : undisturbed[p] => pc[p] # "failed"

(* What is stored is whole, and who got past the migration found it so.    *)
StartupInv ==
    /\ StartupTypeOK
    /\ stamped => created = Objects
    /\ \A p \in Processes :
          /\ pc[p] \in {"connecting", "migrating"} /\ ~transactional => step[p] <= created
          /\ pc[p] \in {"seeding", "inserting", "serving"} /\ migrates[p] => stamped
          /\ pc[p] = "serving" => total # NoUser

(* A start that nothing disturbs is the only one, and what it finds is     *)
(* what it made itself, or whole.                                          *)
UndisturbedInv ==
    \A p \in Processes : undisturbed[p] =>
        /\ pc[p] # "failed"
        /\ pc[p] \in Starting => \A other \in Processes \ {p} : pc[other] \notin Starting
        /\ pc[p] = "connecting" => ~HalfMigrated /\ step[p] = 0
        /\ pc[p] = "migrating" => ~stamped /\ created = IF transactional THEN 0 ELSE step[p]
        /\ pc[p] = "seeding" => stamped
        /\ pc[p] = "inserting" => total = NoUser
=============================================================================
