----------------------------- MODULE SiteBackups -----------------------------
(***************************************************************************)
(* Backups of one site: on request and by schedule, kept locally and       *)
(* mirrored to S3, pruned to the newest ones, restored in full or in part. *)
(* Backups and restores wait for one lock; the deletion of a backup and    *)
(* the site itself do not.                                                 *)
(***************************************************************************)
EXTENDS PanelBase, Sequences

CONSTANTS
    BkKeep,        \* retention: local backups kept
    BkScopes,      \* what schedules include: files, databases or both
    BkMirror,      \* is there an S3 target to mirror to
    BkMaxOps,      \* bound: backups and restores
    BkMaxVersions, \* bound: states of the site, by its files or its databases
    BkMaxPeriods,  \* bound: times the schedule comes due
    BkMaxFaults    \* bound: failing steps and restarts of the panel

ASSUME BkAssumption ==
    /\ BkScopes \subseteq (SUBSET {"files", "databases"}) \ {{}}
    /\ BkKeep \in Nat \ {0} /\ BkMirror \in BOOLEAN
    /\ BkMaxOps \in Nat /\ BkMaxVersions \in Nat \ {0} /\ BkMaxPeriods \in Nat
    /\ BkMaxFaults \in Nat

VARIABLES
    bkSite,      \* bkSite[p]: state of part p of the site, or None: deleted
    bkLocal,     \* bkLocal[id]: directory of backup id, or None
    bkRemote,    \* bkRemote[id]: what S3 holds of backup id, or None
    bkOps,       \* bkOps[i]: kind and status of operation i, or None
    bkTask,      \* bkTask[i]: the task of operation i
    bkLastId,    \* ids are times; the latest one given
    bkDue,       \* has the site not been backed up since the schedule came due
    bkRunning,   \* operation that the scheduler waits for, or None
    bkFaults,    \* failures and restarts so far
    bkPast,      \* history: states the parts of the site have had
    bkPeriods,   \* times the schedule came due
    bkScheduled, \* history: scheduled backups that started
    bkTaken,     \* history: backups that were completed
    bkDropped    \* history: backups that a user deleted

bkVars == <<bkSite, bkLocal, bkRemote, bkOps, bkTask, bkLastId, bkDue, bkRunning,
            bkFaults, bkPast, bkPeriods, bkScheduled, bkTaken, bkDropped>>
bkHistory == <<bkPast, bkScheduled, bkTaken, bkDropped>>

BkRequests == 1 .. BkMaxOps
BkParts == {"files", "databases"}
BkNothing == [p \in BkParts |-> None]
BkData == [BkParts -> (1 .. BkMaxVersions) \cup {None}]
BkCopies == [data : BkData, manifest : BOOLEAN, s3 : BOOLEAN]
BkMirrors == [data : BkData, manifest : BOOLEAN]
BkOperations == [kind : {"backup", "restore"},
                 status : {"pending", "running", "succeeded", "failed"}]

\* What is absent is none of these.
ASSUME BkNoneAssumption == None \notin BkData \cup BkCopies \cup BkMirrors \cup BkOperations

BkIdle == [pc |-> "off", id |-> 0, scope |-> {}, held |-> BkNothing, sched |-> FALSE]

BkLive(i) == bkTask[i].pc # "off"
BkSiteExists == \A p \in BkParts : bkSite[p] # None

\* Mutation: a directory is a backup.
Present(id) == bkLocal[id] # None

\* A directory is a backup when it has a readable manifest, written last.
Listed(id) == bkLocal[id] # None /\ bkLocal[id].manifest

BkTypeOK ==
    /\ bkSite \in BkData
    /\ bkLocal \in [BkRequests -> BkCopies \cup {None}]
    /\ bkRemote \in [BkRequests -> BkMirrors \cup {None}]
    /\ bkOps \in [BkRequests -> BkOperations \cup {None}]
    /\ bkLastId \in 0 .. BkMaxOps /\ bkDue \in BOOLEAN
    /\ bkRunning \in BkRequests \cup {None}

-----------------------------------------------------------------------------
(* Requests and the schedule.                                              *)

BkAccept(i, kind, id, scope, sched) ==
    /\ bkOps[i] = None /\ \A j \in 1 .. i - 1 : bkOps[j] # None
    /\ bkOps' = [bkOps EXCEPT ![i] = [kind |-> kind, status |-> "pending"]]
    /\ bkTask' = [bkTask EXCEPT ![i] =
                    [BkIdle EXCEPT !.pc = "lock", !.id = id, !.scope = scope, !.sched = sched]]
    /\ UNCHANGED <<bkSite, bkLocal, bkRemote, bkLastId, bkDue, bkFaults,
                   bkPeriods, bkHistory>>

StartBackup(i) ==
    /\ BkSiteExists
    /\ BkAccept(i, "backup", 0, {}, FALSE)
    /\ UNCHANGED bkRunning

\* tick(): the scheduler runs the backup itself and waits for its end.
Tick(i) ==
    /\ BkSiteExists /\ bkDue /\ bkRunning = None
    /\ BkAccept(i, "backup", 0, {}, TRUE)
    /\ bkRunning' = i

StartRestore(i, id) ==
    /\ BkSiteExists
    /\ Listed(id) \/ BkMirror
    /\ id <= bkLastId
    /\ \E scope \in {BkParts, {"files"}, {"databases"}} :
         BkAccept(i, "restore", id, scope, FALSE)
    /\ UNCHANGED bkRunning

\* The time of the schedule passes.
ComesDue ==
    /\ bkPeriods < BkMaxPeriods /\ bkPeriods' = bkPeriods + 1
    /\ bkDue' = TRUE
    /\ UNCHANGED <<bkSite, bkLocal, bkRemote, bkOps, bkTask, bkLastId, bkRunning, bkFaults,
                   bkHistory>>

\* delete_backup() removes the local directory, lock or no lock.
DeleteBackup(id) ==
    /\ BkSiteExists /\ bkLocal[id] # None
    /\ bkLocal' = [bkLocal EXCEPT ![id] = None]
    /\ bkDropped' = bkDropped \cup {id}
    /\ UNCHANGED <<bkSite, bkRemote, bkOps, bkTask, bkLastId, bkDue, bkRunning, bkFaults,
                   bkPast, bkPeriods, bkScheduled, bkTaken>>

\* Visitors and owners change files or databases.
EditSite(p) ==
    /\ BkSiteExists
    /\ \E v \in 1 .. BkMaxVersions :
         /\ v = 1 + Greatest(UNION {bkPast[q] : q \in BkParts})
         /\ bkSite' = [bkSite EXCEPT ![p] = v]
         /\ bkPast' = [bkPast EXCEPT ![p] = @ \cup {v}]
    /\ UNCHANGED <<bkLocal, bkRemote, bkOps, bkTask, bkLastId, bkDue, bkRunning, bkFaults,
                   bkPeriods, bkScheduled, bkTaken, bkDropped>>

\* The pipeline that deletes the site does not take the lock.
RemoveSite ==
    /\ BkSiteExists
    /\ bkSite' = BkNothing
    /\ UNCHANGED <<bkLocal, bkRemote, bkOps, bkTask, bkLastId, bkDue, bkRunning, bkFaults,
                   bkPeriods, bkHistory>>

-----------------------------------------------------------------------------
(* Steps of the tasks.                                                     *)

BkTo(i, pc) == bkTask' = [bkTask EXCEPT ![i].pc = pc]
BkEnd(i, status) ==
    /\ bkTask' = [bkTask EXCEPT ![i] = BkIdle]
    /\ bkOps' = [bkOps EXCEPT ![i].status = status]
    /\ bkRunning' = IF bkRunning = i THEN None ELSE bkRunning
BkAt(i, pc) == bkTask[i].pc = pc
BkWants(i, p) == p \in bkTask[i].scope
BkQuiet == UNCHANGED <<bkFaults, bkPeriods>>

\* backup.operation_lock
BkLocked == \E i \in BkRequests : bkTask[i].pc \notin {"off", "lock"}

\* The lock is granted.  The row is read; when it has gone the task dies and
\* leaves its operation to the reaper.  Its columns say what a backup
\* includes.  A run counts for the schedule from its start, whatever becomes
\* of it.
BkBegin(i) ==
    /\ BkAt(i, "lock") /\ ~BkLocked
    /\ IF ~BkSiteExists
       THEN /\ BkEnd(i, "pending")
            /\ UNCHANGED <<bkLastId, bkDue, bkScheduled>>
       ELSE IF bkOps[i].kind = "backup"
       THEN /\ \E scope \in BkScopes :
                 bkTask' = [bkTask EXCEPT ![i].pc = "databases", ![i].id = bkLastId + 1,
                              ![i].scope = scope]
            /\ bkLastId' = bkLastId + 1
            /\ bkDue' = FALSE
            /\ bkScheduled' = bkScheduled + (IF bkTask[i].sched THEN 1 ELSE 0)
            /\ bkOps' = [bkOps EXCEPT ![i].status = "running"]
            /\ UNCHANGED bkRunning
       ELSE /\ BkTo(i, "fetch")
            /\ bkOps' = [bkOps EXCEPT ![i].status = "running"]
            /\ UNCHANGED <<bkLastId, bkDue, bkScheduled, bkRunning>>
    /\ UNCHANGED <<bkSite, bkLocal, bkRemote, bkPast, bkTaken, bkDropped>> /\ BkQuiet

\* A part is dumped into the staging directory of the backup.
Dump(i, p, next) ==
    /\ BkAt(i, p) /\ bkOps[i].kind = "backup"
    /\ BkWants(i, p) => bkSite[p] # None
    /\ bkTask' = [bkTask EXCEPT ![i].pc = next,
                    ![i].held[p] = IF BkWants(i, p) THEN bkSite[p] ELSE None]
    /\ UNCHANGED <<bkSite, bkLocal, bkRemote, bkOps, bkLastId, bkDue, bkRunning, bkHistory>>
    /\ BkQuiet

\* Mutation: the directories are listed oldest first.
KeptOldest(dirs) == {id \in dirs : Cardinality({j \in dirs : j < id}) < BkKeep}

\* prune(): local directories beyond the newest ones go.
Kept(dirs) == {id \in dirs : Cardinality({j \in dirs : j > id}) < BkKeep}

\* The manifest is written, the directory gets its name, old ones are pruned.
FinalizeBackup(i) ==
    /\ BkAt(i, "finalize")
    /\ LET id == bkTask[i].id
           dirs == {j \in BkRequests : bkLocal[j] # None} \cup {id} IN
       /\ bkLocal' = [j \in BkRequests |->
             IF j \notin Kept(dirs) THEN None
             ELSE IF j = id THEN [data |-> bkTask[i].held, manifest |-> TRUE, s3 |-> FALSE]
             ELSE bkLocal[j]]
       /\ bkTaken' = bkTaken \cup {id}
    /\ BkTo(i, IF BkMirror THEN "upload" ELSE "finish")
    /\ UNCHANGED <<bkSite, bkRemote, bkOps, bkLastId, bkDue, bkRunning, bkPast, bkScheduled,
                   bkDropped>>
    /\ BkQuiet

\* upload_backup(): first the parts; then the local manifest is flagged and
\* uploaded, which completes the copy.
Upload(i) ==
    /\ BkAt(i, "upload") /\ Listed(bkTask[i].id)
    /\ bkRemote' = [bkRemote EXCEPT ![bkTask[i].id] =
                      [data |-> bkLocal[bkTask[i].id].data, manifest |-> FALSE]]
    /\ BkTo(i, "flag")
    /\ UNCHANGED <<bkSite, bkLocal, bkOps, bkLastId, bkDue, bkRunning, bkHistory>> /\ BkQuiet

Flag(i) ==
    /\ BkAt(i, "flag") /\ bkLocal[bkTask[i].id] # None
    /\ bkLocal' = [bkLocal EXCEPT ![bkTask[i].id].s3 = TRUE]
    /\ BkTo(i, "complete")
    /\ UNCHANGED <<bkSite, bkRemote, bkOps, bkLastId, bkDue, bkRunning, bkHistory>> /\ BkQuiet

CompleteUpload(i) ==
    /\ BkAt(i, "complete") /\ bkLocal[bkTask[i].id] # None
    /\ bkRemote' = [bkRemote EXCEPT ![bkTask[i].id].manifest = TRUE]
    /\ BkTo(i, "finish")
    /\ UNCHANGED <<bkSite, bkLocal, bkOps, bkLastId, bkDue, bkRunning, bkHistory>> /\ BkQuiet

\* A restore takes the local backup, or downloads it; the manifest comes last.
Fetch(i) ==
    /\ BkAt(i, "fetch")
    /\ LET id == bkTask[i].id IN
       \/ Listed(id) /\ BkTo(i, "verify") /\ UNCHANGED bkLocal
       \/ /\ ~Listed(id) /\ BkMirror /\ bkRemote[id] # None
          /\ bkLocal' = [bkLocal EXCEPT ![id] =
                           [data |-> bkRemote[id].data, manifest |-> bkRemote[id].manifest,
                            s3 |-> TRUE]]
          /\ BkTo(i, "verify")
    /\ UNCHANGED <<bkSite, bkRemote, bkOps, bkLastId, bkDue, bkRunning, bkHistory>> /\ BkQuiet

\* verify_checksums(): what the manifest lists is remembered.
Verify(i) ==
    /\ BkAt(i, "verify") /\ Listed(bkTask[i].id)
    /\ bkTask' = [bkTask EXCEPT ![i].pc = "files", ![i].held = bkLocal[bkTask[i].id].data]
    /\ UNCHANGED <<bkSite, bkLocal, bkRemote, bkOps, bkLastId, bkDue, bkRunning, bkHistory>>
    /\ BkQuiet

\* A part is read from the directory again when it is its turn.
RestorePart(i, p, next) ==
    /\ BkAt(i, p) /\ bkOps[i].kind = "restore"
    /\ IF BkWants(i, p) /\ bkTask[i].held[p] # None
       THEN /\ bkLocal[bkTask[i].id] # None /\ BkSiteExists
            /\ bkSite' = [bkSite EXCEPT ![p] = bkLocal[bkTask[i].id].data[p]]
       ELSE UNCHANGED bkSite
    /\ BkTo(i, next)
    /\ UNCHANGED <<bkLocal, bkRemote, bkOps, bkLastId, bkDue, bkRunning, bkHistory>> /\ BkQuiet

BkFinish(i) ==
    /\ BkAt(i, "finish") /\ BkEnd(i, "succeeded")
    /\ UNCHANGED <<bkSite, bkLocal, bkRemote, bkLastId, bkDue, bkHistory>> /\ BkQuiet

\* What makes the next step of a task raise by itself.
BkImpossible(i) ==
    LET id == bkTask[i].id IN
    \/ bkOps[i].kind = "backup" /\ bkTask[i].pc \in BkParts
         /\ BkWants(i, bkTask[i].pc) /\ ~BkSiteExists
    \/ bkTask[i].pc \in {"upload", "flag", "complete"} /\ bkLocal[id] = None
    \/ BkAt(i, "fetch") /\ ~Listed(id) /\ (~BkMirror \/ bkRemote[id] = None)
    \/ BkAt(i, "verify") /\ ~Listed(id)
    \/ bkOps[i].kind = "restore" /\ bkTask[i].pc \in BkParts /\ BkWants(i, bkTask[i].pc)
         /\ bkTask[i].held[bkTask[i].pc] # None /\ (bkLocal[id] = None \/ ~BkSiteExists)

\* A step raises.  A backup removes its staging directory; what has been
\* renamed, uploaded or restored stays.  A download that breaks off leaves a
\* directory without a manifest.
BkStepFails(i) ==
    /\ BkLive(i) /\ bkTask[i].pc \notin {"lock", "finish"}
    /\ \/ BkImpossible(i) /\ UNCHANGED <<bkFaults, bkLocal>>
       \/ /\ ~BkImpossible(i)
          /\ bkFaults < BkMaxFaults /\ bkFaults' = bkFaults + 1
          /\ IF BkAt(i, "fetch") /\ ~Listed(bkTask[i].id)
             THEN bkLocal' = [bkLocal EXCEPT ![bkTask[i].id] =
                               [data |-> BkNothing, manifest |-> FALSE, s3 |-> FALSE]]
             ELSE UNCHANGED bkLocal
    /\ BkEnd(i, "failed")
    /\ UNCHANGED <<bkSite, bkRemote, bkLastId, bkDue, bkPeriods, bkHistory>>

BkReap(i) ==
    /\ bkOps[i] # None /\ bkOps[i].status \in {"pending", "running"} /\ ~BkLive(i)
    /\ bkOps' = [bkOps EXCEPT ![i].status = "failed"]
    /\ UNCHANGED <<bkSite, bkLocal, bkRemote, bkTask, bkLastId, bkDue, bkRunning, bkHistory>>
    /\ BkQuiet

BkRestart ==
    /\ bkFaults < BkMaxFaults /\ bkFaults' = bkFaults + 1
    /\ bkTask' = [i \in BkRequests |-> BkIdle]
    /\ bkRunning' = None
    /\ UNCHANGED <<bkSite, bkLocal, bkRemote, bkOps, bkLastId, bkDue, bkPeriods, bkHistory>>

-----------------------------------------------------------------------------
BkInit ==
    /\ bkSite = [p \in BkParts |-> 1]
    /\ bkPast = [p \in BkParts |-> {1}]
    /\ bkLocal = [id \in BkRequests |-> None] /\ bkRemote = bkLocal /\ bkOps = bkLocal
    /\ bkTask = [i \in BkRequests |-> BkIdle]
    /\ bkLastId = 0 /\ bkDue = FALSE /\ bkRunning = None
    /\ bkFaults = 0 /\ bkPeriods = 0 /\ bkScheduled = 0
    /\ bkTaken = {} /\ bkDropped = {}

BkTaskStep(i) ==
    \/ BkBegin(i)
    \/ Dump(i, "databases", "files") \/ Dump(i, "files", "finalize") \/ FinalizeBackup(i)
    \/ Upload(i) \/ Flag(i) \/ CompleteUpload(i)
    \/ Fetch(i) \/ Verify(i)
    \/ RestorePart(i, "files", "databases") \/ RestorePart(i, "databases", "finish")
    \/ BkFinish(i) \/ BkStepFails(i)

BkNext ==
    \/ \E i \in BkRequests :
         \/ StartBackup(i) \/ Tick(i) \/ BkTaskStep(i) \/ BkReap(i)
         \/ \E id \in BkRequests : StartRestore(i, id)
    \/ \E id \in BkRequests : DeleteBackup(id)
    \/ \E p \in BkParts : EditSite(p)
    \/ ComesDue \/ RemoveSite \/ BkRestart

BkFairness == \A i \in BkRequests : WF_bkVars(BkTaskStep(i)) /\ WF_bkVars(BkReap(i))
BkSpec == BkInit /\ [][BkNext]_bkVars /\ BkFairness

-----------------------------------------------------------------------------
(* Properties.                                                             *)

\* Backups implement ArchiveStore: a backup, local or complete in S3, holds
\* states of the site and never changes, and a restore brings back what some
\* backup holds, whatever is deleted, pruned or fails meanwhile.
Archived == [id \in BkRequests |->
    IF Listed(id) THEN bkLocal[id].data
    ELSE IF bkRemote[id] # None /\ bkRemote[id].manifest THEN bkRemote[id].data ELSE None]

Store == INSTANCE ArchiveStore WITH
    Parts <- BkParts, States <- 1 .. BkMaxVersions, Ids <- BkRequests, Absent <- None,
    site <- bkSite, past <- bkPast, archives <- Archived
ImplementsStore == Store!StoreSpec

\* A failed or lost run is not repeated before the schedule comes due again.
ScheduledOncePerPeriod == bkScheduled <= bkPeriods

\* A backup that was completed stays until a user deletes it or as many newer
\* ones as are kept have been completed; a failure does not take one away.
NewestKept ==
    \A id \in bkTaken \ bkDropped :
        Listed(id) \/ Cardinality({j \in bkTaken : j > id}) >= BkKeep

\* The schedule makes one backup each time, and the newest ones stay.
BackupsKept == ScheduledOncePerPeriod /\ NewestKept

\* A backup or restore ends, though all of them wait for one lock: it is given
\* back however its holder ends.  Again and again none is open.
BkOpsClosed ==
    \A i \in BkRequests :
        bkOps[i] # None => bkOps[i].status \in {"succeeded", "failed"}
BkOpsEnd == []<>BkOpsClosed
=============================================================================
