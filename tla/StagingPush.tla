----------------------------- MODULE StagingPush -----------------------------
(***************************************************************************)
(* A staging clone pushed back to production: the files, with the clone's  *)
(* wp-config among them, the database, then a new password for production's*)
(* database user, production's credentials into the configuration and its  *)
(* domain into the contents.  Nothing is undone when a step fails, and no  *)
(* lock is held: other pushes and password resets go on meanwhile.         *)
(***************************************************************************)
EXTENDS PanelBase

CONSTANTS
    PushMaxOps,     \* bound: pushes and password resets
    PushMaxFaults   \* bound: steps that fail, restarts of the panel

ASSUME PushAssumption == PushMaxOps \in Nat /\ PushMaxFaults \in Nat

VARIABLES
    pushWp,       \* pushWp[s]: has the panel installed WordPress on s
    pushConfig,   \* pushConfig[s]: what wp-config among the files of s says
    pushData,     \* pushData[s]: domain that the database of s speaks of, or None
    pushAccount,  \* pushAccount[s]: password of the database user of s
    pushHash,     \* pushHash[s]: the one that the panel's row has the hash of
    pushOps,      \* pushOps[i]: status of operation i, or None
    pushTask,     \* pushTask[i]: step and kind of request i
    pushFaults,
    pushAlone     \* history: requests that no other has met or followed

pushVars == <<pushWp, pushConfig, pushData, pushAccount, pushHash, pushOps, pushTask,
              pushFaults, pushAlone>>

PushRequests == 1 .. PushMaxOps
PushSites == {"production", "staging"}
PushSteps == {"files", "database", "rotate", "record", "name", "password", "rewrite", "finalize"}
ASSUME PushNoneAssumption ==
    None \notin PushSites \cup {"push", "reset", "running", "succeeded", "failed"}

PushNoConfig == [db |-> None, password |-> None]
PushNoTask == [kind |-> None, pc |-> "off"]

PushTypeOK ==
    /\ pushWp \in [PushSites -> BOOLEAN]
    /\ \A s \in PushSites :
         /\ pushConfig[s].db \in PushSites \cup {None}
         /\ pushData[s] \in PushSites \cup {None}
         /\ pushAccount[s] \in PushRequests \cup {0} /\ pushHash[s] \in PushRequests \cup {0}
    /\ pushOps \in [PushRequests -> {None, "running", "succeeded", "failed"}]
    /\ \A i \in PushRequests : pushTask[i].pc \in PushSteps \cup {"off"}

-----------------------------------------------------------------------------
PushAccept(i, kind, pc) ==
    /\ pushTask[i].kind = None /\ \A j \in 1 .. i - 1 : pushTask[j].kind # None
    /\ pushTask' = [pushTask EXCEPT ![i] = [kind |-> kind, pc |-> pc]]
    /\ pushAlone' = IF \E j \in PushRequests : pushTask[j].pc # "off" THEN {} ELSE {i}
    /\ UNCHANGED <<pushWp, pushConfig, pushData, pushAccount, pushHash, pushFaults>>

StartPush(i) ==
    PushAccept(i, "push", "files") /\ pushOps' = [pushOps EXCEPT ![i] = "running"]

\* The owner has a new password generated for production's database.
ResetDbPassword(i) ==
    /\ pushWp["production"]
    /\ PushAccept(i, "reset", "rotate") /\ UNCHANGED pushOps

-----------------------------------------------------------------------------
PushAt(i, pc) == pushTask[i].pc = pc
PushTo(i, pc) == pushTask' = [pushTask EXCEPT ![i].pc = pc]
PushKeep == UNCHANGED <<pushWp, pushOps, pushFaults, pushAlone>>

\* mirror_tree(): everything, the configuration too; what only production had
\* goes.
MirrorFiles(i) ==
    /\ PushAt(i, "files")
    /\ pushConfig' = [pushConfig EXCEPT !["production"] = pushConfig["staging"]]
    /\ PushTo(i, "database")
    /\ UNCHANGED <<pushData, pushAccount, pushHash>> /\ PushKeep

\* Dump and replay, when both have a database.
ReplayDatabase(i) ==
    /\ PushAt(i, "database")
    /\ pushData' = IF pushData["production"] = None \/ pushData["staging"] = None THEN pushData
                   ELSE [pushData EXCEPT !["production"] = pushData["staging"]]
    /\ PushTo(i, IF pushWp["production"] THEN "rotate" ELSE "finalize")
    /\ UNCHANGED <<pushConfig, pushAccount, pushHash>> /\ PushKeep

\* ALTER USER, for a push and for the owner.
RotatePassword(i) ==
    /\ PushAt(i, "rotate")
    /\ pushAccount' = [pushAccount EXCEPT !["production"] = i]
    /\ PushTo(i, "record")
    /\ UNCHANGED <<pushConfig, pushData, pushHash>> /\ PushKeep

\* Mutation: the row keeps the hash of the password before.
RecordNothing(i) ==
    /\ PushAt(i, "record")
    /\ PushTo(i, IF pushTask[i].kind = "push" THEN "name" ELSE "off")
    /\ UNCHANGED <<pushConfig, pushData, pushAccount, pushHash>> /\ PushKeep

RecordHash(i) ==
    /\ PushAt(i, "record")
    /\ pushHash' = [pushHash EXCEPT !["production"] = i]
    /\ PushTo(i, IF pushTask[i].kind = "push" THEN "name" ELSE "off")
    /\ UNCHANGED <<pushConfig, pushData, pushAccount>> /\ PushKeep

\* `wp config set` needs a configuration; it came with the clone's files.
ProductionConfig == pushConfig["production"]

SetName(i) ==
    /\ PushAt(i, "name") /\ ProductionConfig # PushNoConfig
    /\ pushConfig' = [pushConfig EXCEPT !["production"].db = "production"]
    /\ PushTo(i, "password")
    /\ UNCHANGED <<pushData, pushAccount, pushHash>> /\ PushKeep

SetPassword(i) ==
    /\ PushAt(i, "password") /\ ProductionConfig # PushNoConfig
    /\ pushConfig' = [pushConfig EXCEPT !["production"].password = i]
    /\ PushTo(i, "rewrite")
    /\ UNCHANGED <<pushData, pushAccount, pushHash>> /\ PushKeep

\* A command of WordPress works with the database that the configuration names.
Connects(config) ==
    config.db # None /\ pushData[config.db] # None /\ config.password = pushAccount[config.db]

Rewrite(i) ==
    /\ PushAt(i, "rewrite") /\ Connects(ProductionConfig)
    /\ pushData' = [pushData EXCEPT ![ProductionConfig.db] = "production"]
    /\ PushTo(i, "finalize")
    /\ UNCHANGED <<pushConfig, pushAccount, pushHash>> /\ PushKeep

FinishPush(i) ==
    /\ PushAt(i, "finalize")
    /\ pushOps' = [pushOps EXCEPT ![i] = "succeeded"]
    /\ PushTo(i, "off")
    /\ UNCHANGED <<pushWp, pushConfig, pushData, pushAccount, pushHash, pushFaults, pushAlone>>

PushImpossible(i) ==
    \/ pushTask[i].pc \in {"name", "password"} /\ ProductionConfig = PushNoConfig
    \/ PushAt(i, "rewrite") /\ ~Connects(ProductionConfig)

\* A step fails; what the steps before it did stays.
PushStepFails(i) ==
    /\ pushTask[i].pc \notin {"off", "finalize"}
    /\ \/ PushImpossible(i) /\ UNCHANGED pushFaults
       \/ ~PushImpossible(i) /\ pushFaults < PushMaxFaults /\ pushFaults' = pushFaults + 1
    /\ pushOps' = IF pushTask[i].kind = "push" THEN [pushOps EXCEPT ![i] = "failed"] ELSE pushOps
    /\ PushTo(i, "off")
    /\ UNCHANGED <<pushWp, pushConfig, pushData, pushAccount, pushHash, pushAlone>>

\* The tasks are lost; the reaper fails their operations later.
PushRestart ==
    /\ pushFaults < PushMaxFaults /\ pushFaults' = pushFaults + 1
    /\ pushTask' = [i \in PushRequests |-> [pushTask[i] EXCEPT !.pc = "off"]]
    /\ pushOps' = [i \in PushRequests |-> IF pushOps[i] = "running" THEN "failed" ELSE pushOps[i]]
    /\ UNCHANGED <<pushWp, pushConfig, pushData, pushAccount, pushHash, pushAlone>>

-----------------------------------------------------------------------------
\* The clone was made before or after WordPress was installed on production,
\* or WordPress was installed on the clone only.
PushInit ==
    /\ pushWp \in [PushSites -> BOOLEAN]
    /\ pushConfig = [s \in PushSites |->
           IF pushWp[s] THEN [db |-> s, password |-> 0] ELSE PushNoConfig]
    /\ pushData = [s \in PushSites |-> IF pushWp[s] THEN s ELSE None]
    /\ pushAccount = [s \in PushSites |-> 0] /\ pushHash = pushAccount
    /\ pushOps = [i \in PushRequests |-> None]
    /\ pushTask = [i \in PushRequests |-> PushNoTask]
    /\ pushFaults = 0 /\ pushAlone = {}

PushNext ==
    \/ PushRestart
    \/ \E i \in PushRequests :
         \/ StartPush(i) \/ ResetDbPassword(i)
         \/ MirrorFiles(i) \/ ReplayDatabase(i) \/ RotatePassword(i) \/ RecordHash(i)
         \/ SetName(i) \/ SetPassword(i) \/ Rewrite(i) \/ FinishPush(i) \/ PushStepFails(i)

PushSpec == PushInit /\ [][PushNext]_pushVars

-----------------------------------------------------------------------------
\* After a push that succeeded, by itself, production works with its own
\* database under its own domain, with a password the panel has the hash of,
\* also when earlier pushes broke off: the clone's credentials, which came
\* with its files, are gone.  Where the panel did not install WordPress on
\* production itself the clone's configuration stays.
PushedSiteSelfContained ==
    \A i \in pushAlone :
        pushOps[i] = "succeeded" /\ pushWp["production"] =>
            /\ ProductionConfig.db = "production" /\ Connects(ProductionConfig)
            /\ pushHash["production"] = pushAccount["production"]
            /\ pushData["production"] = "production"
=============================================================================
