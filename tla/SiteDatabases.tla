---------------------------- MODULE SiteDatabases ----------------------------
(***************************************************************************)
(* The MariaDB databases of one site: created, deleted and given a new     *)
(* password by its owner, dropped as orphans by an administrator, dropped  *)
(* with the site by its pipeline.  A handler changes MariaDB first and the *)
(* panel's rows afterwards, with nothing between them and nothing undone;  *)
(* passwords are shown once and kept as hashes.  A password is named by    *)
(* the request that generated it.                                          *)
(***************************************************************************)
EXTENDS PanelBase

CONSTANTS
    DbNames,     \* names: a database and its user have the same
    DbQuota,     \* databases that the owner may have
    DbMaxOps,    \* bound: requests
    DbMaxFaults  \* bound: SQL batches that fail, restarts of the panel

ASSUME DbAssumption ==
    /\ IsFiniteSet(DbNames) /\ None \notin DbNames
    /\ DbQuota \in Nat \ {0} /\ DbMaxOps \in Nat /\ DbMaxFaults \in Nat

VARIABLES
    dbSite,      \* status of the site, or None
    dbRow,       \* dbRow[n]: identity and password hash of n, or None
    dbSchema,    \* schemas on the server
    dbAccount,   \* dbAccount[n]: password of the server's user n, or None
    dbTask,      \* dbTask[i]: the handler or pipeline of request i
    dbFaults,
    dbShown,     \* history: dbShown[n]: the password last shown for n
    dbRaced,     \* history: names with two requests at work at once
    dbBroken,    \* history: names with which a batch failed or was cut off
    dbPeak       \* history: greatest number of creations at work at once

dbVars == <<dbSite, dbRow, dbSchema, dbAccount, dbTask, dbFaults, dbShown, dbRaced,
            dbBroken, dbPeak>>

DbRequests == 1 .. DbMaxOps
\* A row has the identity of the table and the hash of a password.
DbRow == [id : Nat, hash : 0 .. DbMaxOps]

ASSUME DbNoneAssumption ==
    None \notin DbRow \cup {"create", "delete", "reset", "orphan", "site"}

DbNoTask == [kind |-> None, names |-> {}, id |-> 0, pc |-> "off"]
DbAtWork(n) == {i \in DbRequests : dbTask[i].pc # "off" /\ n \in dbTask[i].names}
DbRows == {n \in DbNames : dbRow[n] # None}
DbRowOf(id) == {n \in DbRows : dbRow[n].id = id}

DbTypeOK ==
    /\ dbSite \in {"active", "deleting", "error", None}
    /\ dbRow \in [DbNames -> DbRow \cup {None}]
    /\ dbSchema \subseteq DbNames
    /\ dbAccount \in [DbNames -> (0 .. DbMaxOps) \cup {None}]
    /\ \A i \in DbRequests : dbTask[i].pc \in {"off", "sql", "commit"}

-----------------------------------------------------------------------------
(* Requests are checked against the rows, or against the server.           *)

DbAccept(i, kind, names, id) ==
    /\ dbTask[i].kind = None /\ \A j \in 1 .. i - 1 : dbTask[j].kind # None
    /\ dbTask' = [dbTask EXCEPT ![i] = [kind |-> kind, names |-> names, id |-> id, pc |-> "sql"]]
    /\ dbRaced' = dbRaced \cup {n \in names : DbAtWork(n) # {}}
    /\ dbPeak' = LET creating == {j \in DbRequests : dbTask'[j].kind = "create" /\ dbTask'[j].pc # "off"}
                 IN IF Cardinality(creating) > dbPeak THEN Cardinality(creating) ELSE dbPeak
    /\ UNCHANGED <<dbRow, dbSchema, dbAccount, dbFaults, dbShown, dbBroken>>

\* create_database(): quota, then duplicates, as committed.
DbCreate(i, n) ==
    /\ dbSite = "active"
    /\ Cardinality(DbRows) < DbQuota
    /\ dbRow[n] = None
    /\ DbAccept(i, "create", {n}, 0) /\ UNCHANGED dbSite

DbDelete(i, n) ==
    dbRow[n] # None /\ DbAccept(i, "delete", {n}, dbRow[n].id) /\ UNCHANGED dbSite

DbReset(i, n) ==
    dbRow[n] # None /\ DbAccept(i, "reset", {n}, dbRow[n].id) /\ UNCHANGED dbSite

\* Managed databases are not orphans, nor are schemas that do not exist.
DbDeleteOrphan(i, n) ==
    /\ dbRow[n] = None /\ n \in dbSchema
    /\ DbAccept(i, "orphan", {n}, 0) /\ UNCHANGED dbSite

\* The pipeline that deletes the site drops what has rows when it gets there.
DbDeleteSite(i) ==
    /\ dbSite \in {"active", "error"}
    /\ dbSite' = "deleting"
    /\ DbAccept(i, "site", DbRows, 0)

-----------------------------------------------------------------------------
(* The batches.                                                            *)

DbGoto(i, pc) == dbTask' = [dbTask EXCEPT ![i].pc = pc]
DbEnd(i) == dbTask' = [dbTask EXCEPT ![i] = [DbNoTask EXCEPT !.kind = dbTask[i].kind]]

\* What the batch of request i leaves when all of it is run: CREATE gives an
\* existing user the new password, a batch for an orphan leaves users alone.
DbSchemaAfter(i) ==
    IF dbTask[i].kind = "create" THEN dbSchema \cup dbTask[i].names
    ELSE IF dbTask[i].kind = "reset" THEN dbSchema ELSE dbSchema \ dbTask[i].names

\* Mutation: CREATE USER IF NOT EXISTS leaves the password of a user it finds.
DbAccountOnce(i) ==
    [n \in DbNames |->
        IF n \notin dbTask[i].names \/ dbTask[i].kind = "orphan"
           \/ (dbTask[i].kind = "create" /\ dbAccount[n] # None) THEN dbAccount[n]
        ELSE IF dbTask[i].kind \in {"create", "reset"} THEN i ELSE None]

DbAccountAfter(i) ==
    [n \in DbNames |->
        IF n \notin dbTask[i].names \/ dbTask[i].kind = "orphan" THEN dbAccount[n]
        ELSE IF dbTask[i].kind \in {"create", "reset"} THEN i ELSE None]

\* ALTER USER needs a user.
DbBatchPossible(i) ==
    dbTask[i].kind = "reset" => \A n \in dbTask[i].names : dbAccount[n] # None

\* The site's pipeline reads the rows again when it drops them.
DbLoadRows(i) ==
    /\ dbTask[i].pc = "sql" /\ dbTask[i].kind = "site" /\ dbTask[i].names # DbRows
    /\ dbTask' = [dbTask EXCEPT ![i].names = DbRows]
    /\ dbRaced' = dbRaced \cup {n \in DbRows : DbAtWork(n) \ {i} # {}}
    /\ UNCHANGED <<dbSite, dbRow, dbSchema, dbAccount, dbFaults, dbShown, dbBroken, dbPeak>>

DbBatch(i) ==
    /\ dbTask[i].pc = "sql" /\ DbBatchPossible(i)
    /\ dbTask[i].kind = "site" => dbTask[i].names = DbRows
    /\ dbSchema' = DbSchemaAfter(i)
    /\ dbAccount' = DbAccountAfter(i)
    /\ IF dbTask[i].kind = "orphan" THEN DbEnd(i) ELSE DbGoto(i, "commit")
    /\ UNCHANGED <<dbSite, dbRow, dbFaults, dbShown, dbRaced, dbBroken, dbPeak>>

\* A batch may stop in any place: before the schema, between schema and user,
\* or after both.  The handler raises; a pipeline ends with the site in error.
DbBatchFails(i) ==
    /\ dbTask[i].pc = "sql"
    /\ \/ DbBatchPossible(i) /\ dbFaults < DbMaxFaults /\ dbFaults' = dbFaults + 1
       \/ ~DbBatchPossible(i) /\ UNCHANGED dbFaults
    /\ \/ UNCHANGED <<dbSchema, dbAccount>>
       \/ dbSchema' = DbSchemaAfter(i) /\ UNCHANGED dbAccount
       \/ DbBatchPossible(i) /\ dbSchema' = DbSchemaAfter(i) /\ dbAccount' = DbAccountAfter(i)
    /\ dbBroken' = dbBroken \cup dbTask[i].names
    /\ dbSite' = IF dbTask[i].kind = "site" THEN "error" ELSE dbSite
    /\ DbEnd(i)
    /\ UNCHANGED <<dbRow, dbShown, dbRaced, dbPeak>>

-----------------------------------------------------------------------------
(* The rows.                                                               *)

DbNewId == 1 + Greatest({dbRow[n].id : n \in DbRows})
DbShow(i) == dbShown' = [n \in DbNames |-> IF n \in dbTask[i].names THEN i ELSE dbShown[n]]
\* Created anew or dropped, what a failure left of a name has been put right.
DbMended(i) == dbBroken' = dbBroken \ dbTask[i].names

\* The row of a name is unique and belongs to a site: else the commit raises
\* and the batch stays as it was run.
DbCommitCreate(i) ==
    /\ dbTask[i].pc = "commit" /\ dbTask[i].kind = "create"
    /\ IF dbSite # None /\ \A n \in dbTask[i].names : dbRow[n] = None
       THEN /\ dbRow' = [n \in DbNames |-> IF n \in dbTask[i].names
                                            THEN [id |-> DbNewId, hash |-> i] ELSE dbRow[n]]
            /\ DbShow(i) /\ DbMended(i)
       ELSE dbBroken' = dbBroken \cup dbTask[i].names /\ UNCHANGED <<dbRow, dbShown>>
    /\ DbEnd(i)
    /\ UNCHANGED <<dbSite, dbSchema, dbAccount, dbFaults, dbRaced, dbPeak>>

\* A row is deleted or written by its identity; the commit raises without it.
DbCommitRow(i) ==
    /\ dbTask[i].pc = "commit" /\ dbTask[i].kind \in {"delete", "reset"}
    /\ IF dbTask[i].kind = "reset" /\ DbRowOf(dbTask[i].id) # {}
       THEN DbShow(i) ELSE UNCHANGED dbShown
    /\ IF dbTask[i].kind = "delete" THEN DbMended(i) ELSE UNCHANGED dbBroken
    /\ dbRow' = [n \in DbNames |->
          IF n \notin DbRowOf(dbTask[i].id) THEN dbRow[n]
          ELSE IF dbTask[i].kind = "delete" THEN None ELSE [dbRow[n] EXCEPT !.hash = i]]
    /\ dbRaced' = dbRaced \cup (DbRowOf(dbTask[i].id) \ dbTask[i].names)
    /\ DbEnd(i)
    /\ UNCHANGED <<dbSite, dbSchema, dbAccount, dbFaults, dbPeak>>

\* The rows go with the site's.
DbCommitSite(i) ==
    /\ dbTask[i].pc = "commit" /\ dbTask[i].kind = "site"
    /\ dbSite' = None
    /\ dbRow' = [n \in DbNames |-> None]
    /\ dbRaced' = dbRaced \cup (DbRows \ dbTask[i].names)
    /\ DbEnd(i)
    /\ UNCHANGED <<dbSchema, dbAccount, dbFaults, dbShown, dbBroken, dbPeak>>

DbRestart ==
    /\ dbFaults < DbMaxFaults /\ dbFaults' = dbFaults + 1
    /\ dbBroken' = dbBroken \cup {n \in DbNames : DbAtWork(n) # {}}
    /\ dbTask' = [i \in DbRequests |-> [DbNoTask EXCEPT !.kind = dbTask[i].kind]]
    /\ UNCHANGED <<dbSite, dbRow, dbSchema, dbAccount, dbShown, dbRaced, dbPeak>>

-----------------------------------------------------------------------------
\* Databases the site has had for long, whose password has the number 0.
DbInit ==
    /\ dbSite = "active"
    /\ dbSchema \in {names \in SUBSET DbNames : Cardinality(names) <= DbQuota}
    /\ \E id \in [dbSchema -> 1 .. DbQuota] :
         /\ \A m, n \in dbSchema : m # n => id[m] # id[n]
         /\ dbRow = [n \in DbNames |-> IF n \in dbSchema THEN [id |-> id[n], hash |-> 0] ELSE None]
    /\ dbAccount = [n \in DbNames |-> IF n \in dbSchema THEN 0 ELSE None]
    /\ dbShown = dbAccount
    /\ dbTask = [i \in DbRequests |-> DbNoTask]
    /\ dbFaults = 0 /\ dbRaced = {} /\ dbBroken = {} /\ dbPeak = 0

DbTaskStep(i) ==
    \/ DbLoadRows(i) \/ DbBatch(i) \/ DbBatchFails(i)
    \/ DbCommitCreate(i) \/ DbCommitRow(i) \/ DbCommitSite(i)

DbNext ==
    \/ \E i \in DbRequests :
         \/ \E n \in DbNames : DbCreate(i, n) \/ DbDelete(i, n) \/ DbReset(i, n) \/ DbDeleteOrphan(i, n)
         \/ DbDeleteSite(i) \/ DbTaskStep(i)
    \/ DbRestart

DbSpec == DbInit /\ [][DbNext]_dbVars

-----------------------------------------------------------------------------
(* Properties.                                                             *)

\* A row stands for a database that its owner can use: the schema is there and
\* the password last shown, which the hash is of, opens it.
RowsUsable ==
    \A n \in DbRows \ (dbRaced \cup dbBroken) : DbAtWork(n) = {} =>
        /\ n \in dbSchema
        /\ dbAccount[n] = dbShown[n] /\ dbRow[n].hash = dbShown[n]

\* What is on the server without a row was left by a failure, a lost handler
\* or a race; nothing else makes orphans.
OrphansExplained ==
    \A n \in (DbNames \ DbRows) \ (dbRaced \cup dbBroken) : DbAtWork(n) = {} =>
        n \notin dbSchema /\ dbAccount[n] = None

\* Creations that run at once may pass the quota, each by one.
DbQuotaHolds == Cardinality(DbRows) <= DbQuota + (IF dbPeak > 1 THEN dbPeak - 1 ELSE 0)

\* Rows, schemas, users and what the owner was told agree, across failures of
\* other databases, identities used again and the deletion of the site.
DatabasesAgree == RowsUsable /\ OrphansExplained /\ DbQuotaHolds
=============================================================================
